---------------------------- MODULE ScreenProofs ----------------------------
(***************************************************************************)
(* Theorems about the screen, of any size, and about how numbers are       *)
(* written: what itoa and print_double write of any number.                *)
(***************************************************************************)
EXTENDS Screen, WellFoundedInduction, SequenceTheorems, TLAPS

-----------------------------------------------------------------------------
(* Induction and recursion.  The library's theorems on both take operators *)
(* as parameters; these take sets and functions.                           *)

LEMMA LeastNumber ==
  ASSUME NEW T, T \subseteq Nat, T # {}
  PROVE  \E x \in T : \A y \in T : x <= y
<1> DEFINE R == OpToRel(<, Nat)
<1>1. IsWellFoundedOn(R, Nat)  BY NatLessThanWellFounded
<1>2. \A x, y \in Nat : x < y => <<x, y>> \in R  BY DEF OpToRel
<1> HIDE DEF R
<1>3. PICK x \in T : \A y \in T : ~ (<<y, x>> \in R)  BY <1>1, WFMin
<1>4. \A y \in T : ~ (y < x)  BY <1>2, <1>3
<1> QED  BY <1>3, <1>4

(* A set of numbers that has a number whenever it has all smaller ones has *)
(* them all.                                                               *)
LEMMA Induction ==
  ASSUME NEW T, \A n \in Nat : (\A m \in 0 .. n - 1 : m \in T) => n \in T
  PROVE  Nat \subseteq T
<1> SUFFICES ASSUME Nat \ T # {} PROVE FALSE  OBVIOUS
<1>1. PICK n \in Nat \ T : \A m \in Nat \ T : n <= m  BY LeastNumber
<1>2. \A m \in 0 .. n - 1 : m \in T  BY <1>1
<1> QED  BY <1>1, <1>2

(* An equation that gives the value of a function of numbers from its      *)
(* value for a smaller number.                                             *)
Equation(S, a, d, G) ==
  /\ a \in S /\ d \in [Nat -> Nat] /\ G \in [Nat \X S -> S]
  /\ \A n \in Nat \ {0} : d[n] < n

(* What it gives for the numbers up to n.                                  *)
Partial(g, n, S, a, d, G) ==
  /\ g \in [0 .. n -> S] /\ g[0] = a
  /\ \A m \in 1 .. n : g[m] = G[<<m, g[d[m]]>>]

LEMMA PartialExists ==
  ASSUME NEW S, NEW a, NEW d, NEW G, Equation(S, a, d, G)
  PROVE  \A n \in Nat : \E g : Partial(g, n, S, a, d, G)
<1> DEFINE T == {n \in Nat : \E g : Partial(g, n, S, a, d, G)}
<1>1. ASSUME NEW n \in Nat, \A m \in 0 .. n - 1 : m \in T PROVE n \in T
  <2> USE DEF Equation
  <2>1. CASE n = 0
    <3> DEFINE g == [m \in 0 .. n |-> a]
    <3>1. Partial(g, n, S, a, d, G)  BY <2>1 DEF Partial
    <3> QED  BY <3>1
  <2>2. CASE n # 0
    <3>1. n - 1 \in 0 .. n - 1  BY <2>2
    <3>2. PICK h : Partial(h, n - 1, S, a, d, G)  BY <1>1, <3>1
    <3> DEFINE g == [m \in 0 .. n |-> IF m = n THEN G[<<n, h[d[n]]>>] ELSE h[m]]
    <3>3. d[n] \in 0 .. n - 1 /\ \A m \in 1 .. n - 1 : d[m] \in 0 .. n - 1
      BY <2>2
    <3>4. h \in [0 .. n - 1 -> S]  BY <3>2 DEF Partial
    <3>5. G[<<n, h[d[n]]>>] \in S  BY <3>3, <3>4
    <3>6. g \in [0 .. n -> S]  BY <3>4, <3>5
    <3>7. \A m \in 0 .. n - 1 : g[m] = h[m]  OBVIOUS
    <3>8. g[n] = G[<<n, h[d[n]]>>]  OBVIOUS
    <3> HIDE DEF g
    <3>9. g[0] = a  BY <2>2, <3>2, <3>7 DEF Partial
    <3>10. \A m \in 1 .. n : g[m] = G[<<m, g[d[m]]>>]
      <4> TAKE m \in 1 .. n
      <4>1. CASE m = n  BY <3>3, <3>7, <3>8, <4>1
      <4>2. CASE m # n
        <5>1. m \in 1 .. n - 1 /\ m \in 0 .. n - 1  BY <4>2
        <5>2. g[m] = h[m] /\ g[d[m]] = h[d[m]]  BY <3>3, <3>7, <5>1
        <5>3. h[m] = G[<<m, h[d[m]]>>]  BY <3>2, <5>1 DEF Partial
        <5> QED  BY <5>2, <5>3
      <4> QED  BY <4>1, <4>2
    <3>11. Partial(g, n, S, a, d, G)  BY <3>6, <3>9, <3>10 DEF Partial
    <3> QED  BY <3>11
  <2> QED  BY <2>1, <2>2
<1> HIDE DEF T
<1>2. Nat \subseteq T  BY <1>1, Induction
<1> QED  BY <1>2 DEF T

LEMMA PartialUnique ==
  ASSUME NEW S, NEW a, NEW d, NEW G, Equation(S, a, d, G),
         NEW n \in Nat, NEW k \in Nat, NEW g, NEW h,
         Partial(g, n, S, a, d, G), Partial(h, k, S, a, d, G)
  PROVE  \A m \in Nat : m <= n /\ m <= k => g[m] = h[m]
<1> DEFINE T == {m \in Nat : m <= n /\ m <= k => g[m] = h[m]}
<1>1. ASSUME NEW m \in Nat, \A i \in 0 .. m - 1 : i \in T PROVE m \in T
  <2> USE DEF Equation
  <2> SUFFICES ASSUME m <= n, m <= k PROVE g[m] = h[m]  OBVIOUS
  <2>1. CASE m = 0  BY <2>1 DEF Partial
  <2>2. CASE m # 0
    <3>1. d[m] \in 0 .. m - 1 /\ m \in 1 .. n /\ m \in 1 .. k  BY <2>2
    <3>2. d[m] \in T /\ d[m] <= n /\ d[m] <= k  BY <1>1, <3>1
    <3>3. g[d[m]] = h[d[m]]  BY <3>2
    <3>4. g[m] = G[<<m, g[d[m]]>>] /\ h[m] = G[<<m, h[d[m]]>>]
      BY <3>1 DEF Partial
    <3> QED  BY <3>3, <3>4
  <2> QED  BY <2>1, <2>2
<1> HIDE DEF T
<1>2. Nat \subseteq T  BY <1>1, Induction
<1> QED  BY <1>2 DEF T

(* Such an equation has a solution.                                        *)
LEMMA Recursion ==
  ASSUME NEW S, NEW a, NEW d, NEW G, Equation(S, a, d, G)
  PROVE  \E f \in [Nat -> S] :
           f[0] = a /\ \A n \in Nat \ {0} : f[n] = G[<<n, f[d[n]]>>]
<1> DEFINE g(n) == CHOOSE h : Partial(h, n, S, a, d, G)
           f == [n \in Nat |-> g(n)[n]]
<1>1. \A n \in Nat : Partial(g(n), n, S, a, d, G)  BY PartialExists
<1> HIDE DEF g
<1>2. \A n \in Nat : g(n)[n] \in S
  <2> TAKE n \in Nat
  <2>1. g(n) \in [0 .. n -> S]  BY <1>1 DEF Partial
  <2> QED  BY <2>1
<1>3. f \in [Nat -> S] /\ \A n \in Nat : f[n] = g(n)[n]  BY <1>2
<1> HIDE DEF f
<1>4. f[0] = a  BY <1>1, <1>3 DEF Partial
<1>5. ASSUME NEW n \in Nat \ {0} PROVE f[n] = G[<<n, f[d[n]]>>]
  <2>1. d[n] \in Nat /\ d[n] <= n /\ n \in 1 .. n  BY DEF Equation
  <2>2. g(n)[n] = G[<<n, g(n)[d[n]]>>]  BY <1>1, <2>1 DEF Partial
  <2>3. Partial(g(n), n, S, a, d, G) /\ Partial(g(d[n]), d[n], S, a, d, G)
    BY <1>1, <2>1
  <2>4. ASSUME NEW u, NEW v, Partial(u, n, S, a, d, G), Partial(v, d[n], S, a, d, G)
        PROVE  u[d[n]] = v[d[n]]
    <3>1. \A m \in Nat : m <= n /\ m <= d[n] => u[m] = v[m]
      BY <2>1, <2>4, PartialUnique
    <3> QED  BY <2>1, <3>1
  <2>5. g(n)[d[n]] = g(d[n])[d[n]]  BY <2>3, <2>4
  <2> QED  BY <1>3, <2>1, <2>2, <2>5
<1> QED  BY <1>3, <1>4, <1>5

-----------------------------------------------------------------------------
(* The powers of ten and the digits.                                       *)

LEMMA PowerIs ==
  /\ Power \in [Nat -> Nat] /\ Power[0] = 1
  /\ \A n \in Nat \ {0} : Power[n] = 10 * Power[n - 1]
<1> DEFINE d == [n \in Nat |-> IF n = 0 THEN 0 ELSE n - 1]
           G == [p \in Nat \X Nat |-> 10 * p[2]]
           Is(f) == f = [n \in Nat |-> IF n = 0 THEN 1 ELSE 10 * f[n - 1]]
<1>1. Equation(Nat, 1, d, G)  BY DEF Equation
<1>2. /\ \A n \in Nat \ {0} : d[n] = n - 1
      /\ \A n, m \in Nat : G[<<n, m>>] = 10 * m
  OBVIOUS
<1> HIDE DEF d, G
<1>3. PICK f \in [Nat -> Nat] :
        f[0] = 1 /\ \A n \in Nat \ {0} : f[n] = G[<<n, f[d[n]]>>]
  BY <1>1, Recursion
<1>4. \A n \in Nat \ {0} : f[n] = 10 * f[n - 1]
  <2> TAKE n \in Nat \ {0}
  <2>1. n - 1 \in Nat /\ f[n - 1] \in Nat  OBVIOUS
  <2>2. f[n] = G[<<n, f[d[n]]>>] /\ d[n] = n - 1  BY <1>2, <1>3
  <2>3. G[<<n, f[n - 1]>>] = 10 * f[n - 1]  BY <1>2, <2>1
  <2> QED  BY <2>2, <2>3
<1>5. Is(f)  BY <1>3, <1>4
<1>6. Is(Power)  BY <1>5 DEF Power
<1>7. Power[0] = 1 /\ \A n \in Nat \ {0} : Power[n] = 10 * Power[n - 1]
  BY <1>6
<1> DEFINE T == {n \in Nat : Power[n] \in Nat}
<1>8. Nat \subseteq T
  <2>1. ASSUME NEW n \in Nat, \A m \in 0 .. n - 1 : m \in T PROVE n \in T
    <3>1. n # 0 => n - 1 \in 0 .. n - 1  OBVIOUS
    <3> QED  BY <1>7, <2>1, <3>1
  <2> HIDE DEF T
  <2> QED  BY <2>1, Induction
<1> QED  BY <1>6, <1>7, <1>8

LEMMA PowerPositive ==
  \A n \in Nat : Power[n] \in Nat \ {0} /\ Power[n + 1] = 10 * Power[n]
<1>1. \A n \in Nat : Power[n + 1] = 10 * Power[n]
  <2> TAKE n \in Nat
  <2>1. n + 1 \in Nat \ {0} /\ (n + 1) - 1 = n  OBVIOUS
  <2> QED  BY <2>1, PowerIs
<1> DEFINE T == {n \in Nat : Power[n] \in Nat \ {0}}
<1>2. ASSUME NEW n \in Nat, \A m \in 0 .. n - 1 : m \in T PROVE n \in T
  <2>1. CASE n = 0  BY <2>1, PowerIs
  <2>2. CASE n # 0
    <3>1. n - 1 \in 0 .. n - 1 /\ n \in Nat \ {0}  BY <2>2
    <3>2. Power[n - 1] \in Nat \ {0} /\ Power[n] = 10 * Power[n - 1]
      BY <1>2, <3>1, PowerIs
    <3> QED  BY <3>2
  <2> QED  BY <2>1, <2>2
<1> HIDE DEF T
<1>3. Nat \subseteq T  BY <1>2, Induction
<1> QED  BY <1>1, <1>3 DEF T

LEMMA PowerSum ==
  ASSUME NEW a \in Nat
  PROVE  \A b \in Nat : Power[a + b] = Power[a] * Power[b]
<1> DEFINE T == {b \in Nat : Power[a + b] = Power[a] * Power[b]}
<1>1. ASSUME NEW b \in Nat, \A m \in 0 .. b - 1 : m \in T PROVE b \in T
  <2>1. CASE b = 0
    <3>1. Power[a] \in Nat /\ Power[0] = 1 /\ a + 0 = a  BY PowerIs
    <3> QED  BY <2>1, <3>1
  <2>2. CASE b # 0
    <3>1. b - 1 \in 0 .. b - 1 /\ b - 1 \in Nat /\ (b - 1) + 1 = b
          /\ a + (b - 1) \in Nat /\ (a + (b - 1)) + 1 = a + b
      BY <2>2
    <3>2. Power[a + (b - 1)] = Power[a] * Power[b - 1]  BY <1>1, <3>1
    <3>3. Power[b] = 10 * Power[b - 1] /\ Power[a + b] = 10 * Power[a + (b - 1)]
      BY <3>1, PowerPositive
    <3>4. \A x, y \in Nat : 10 * (x * y) = x * (10 * y)  OBVIOUS
    <3>5. Power[a] \in Nat /\ Power[b - 1] \in Nat  BY <3>1, PowerIs
    <3> QED  BY <3>2, <3>3, <3>4, <3>5
  <2> QED  BY <2>1, <2>2
<1> HIDE DEF T
<1>2. Nat \subseteq T  BY <1>1, Induction
<1> QED  BY <1>2 DEF T

LEMMA PowerGrows ==
  ASSUME NEW a \in Nat, NEW b \in Nat, a <= b
  PROVE  Power[a] <= Power[b]
<1>1. b - a \in Nat /\ a + (b - a) = b  OBVIOUS
<1>2. Power[b] = Power[a] * Power[b - a]  BY <1>1, PowerSum
<1>3. Power[a] \in Nat /\ Power[b - a] \in Nat \ {0}  BY <1>1, PowerPositive
<1>4. \A x \in Nat, y \in Nat \ {0} : x <= x * y
  <2> TAKE x \in Nat, y \in Nat \ {0}
  <2>1. x * y = x + x * (y - 1) /\ y - 1 \in Nat  OBVIOUS
  <2>2. \A u, v \in Nat : u * v \in Nat  OBVIOUS
  <2>3. x * (y - 1) \in Nat  BY <2>1, <2>2
  <2> QED  BY <2>1, <2>3
<1> QED  BY <1>2, <1>3, <1>4

-----------------------------------------------------------------------------
(* Division.                                                               *)

LEMMA Products == \A x, y \in Nat : x * y \in Nat
  OBVIOUS

LEMMA Multiple ==
  ASSUME NEW d \in Nat \ {0}, NEW k \in Int, k >= 1
  PROVE  d * k >= d
<1>1. k - 1 \in Nat  OBVIOUS
<1>2. d * (k - 1) \in Nat  BY <1>1, Products
<1>3. d * k = d * (k - 1) + d /\ d * k \in Int  OBVIOUS
<1> QED  BY <1>2, <1>3

(* The quotient and the remainder are the only numbers that are right.     *)
LEMMA DivisionUnique ==
  ASSUME NEW d \in Nat \ {0}, NEW q \in Int, NEW r \in 0 .. d - 1
  PROVE  (d * q + r) \div d = q /\ (d * q + r) % d = r
<1> DEFINE a == d * q + r
<1>0. a \in Int  OBVIOUS
<1> HIDE DEF a
<1> DEFINE p == a \div d
           t == a % d
<1>1. p \in Int /\ t \in 0 .. d - 1 /\ a = d * p + t  BY <1>0
<1> HIDE DEF p, t
<1>2. d * p + t = d * q + r  BY <1>1 DEF a
<1>3. ~(p - q >= 1)
  <2>1. SUFFICES ASSUME p - q >= 1 PROVE FALSE  OBVIOUS
  <2>2. p - q \in Int  BY <1>1
  <2>3. d * (p - q) >= d  BY <2>1, <2>2, Multiple
  <2>4. d * (p - q) = d * p - d * q  BY <1>1
  <2>5. d * p \in Int /\ d * q \in Int  BY <1>1
  <2> QED  BY <1>1, <1>2, <2>3, <2>4, <2>5
<1>4. ~(q - p >= 1)
  <2>1. SUFFICES ASSUME q - p >= 1 PROVE FALSE  OBVIOUS
  <2>2. q - p \in Int  BY <1>1
  <2>3. d * (q - p) >= d  BY <2>1, <2>2, Multiple
  <2>4. d * (q - p) = d * q - d * p  BY <1>1
  <2>5. d * p \in Int /\ d * q \in Int  BY <1>1
  <2> QED  BY <1>1, <1>2, <2>3, <2>4, <2>5
<1>5. p = q  BY <1>1, <1>3, <1>4
<1>6. t = r
  <2>1. d * p = d * q /\ d * q \in Int  BY <1>5
  <2> QED  BY <1>1, <1>2, <2>1
<1> QED  BY <1>5, <1>6 DEF a, p, t

(* Dividing twice is dividing by the product.                              *)
LEMMA Twice ==
  ASSUME NEW n \in Nat, NEW a \in Nat \ {0}, NEW b \in Nat \ {0}
  PROVE  (n \div a) \div b = n \div (a * b)
<1> DEFINE q == n \div a
           r == n % a
           u == q \div b
           v == q % b
<1>1. q \in Nat /\ r \in 0 .. a - 1 /\ n = a * q + r  OBVIOUS
<1> HIDE DEF q, r
<1>2. u \in Nat /\ v \in 0 .. b - 1 /\ q = b * u + v  BY <1>1
<1> HIDE DEF u, v
<1>3. a * q = a * (b * u) + a * v
  BY <1>1, <1>2
<1>4. a * (b * u) = (a * b) * u  BY <1>2
<1>5. a * b \in Nat \ {0}
  <2>1. a * b >= a  BY Multiple
  <2> QED  BY <2>1
<1>6. a * v + r \in 0 .. a * b - 1
  <2>1. a * v \in Nat /\ a * (b - 1 - v) \in Nat
    <3>1. v \in Nat /\ b - 1 - v \in Nat /\ a \in Nat  BY <1>2
    <3> QED  BY <3>1, Products
  <2>2. a * (b - 1 - v) = a * b - a - a * v  BY <1>2
  <2> QED  BY <1>1, <1>5, <2>1, <2>2
<1>7. n = (a * b) * u + (a * v + r)
  <2>1. a * (b * u) \in Nat /\ a * v \in Nat
    <3>1. b * u \in Nat /\ v \in Nat  BY <1>2, Products
    <3> QED  BY <3>1, Products
  <2>2. \A x, y, z \in Nat : (x + y) + z = x + (y + z)  OBVIOUS
  <2>3. n = (a * (b * u) + a * v) + r /\ r \in Nat  BY <1>1, <1>3
  <2>4. n = a * (b * u) + (a * v + r)  BY <2>1, <2>2, <2>3
  <2> QED  BY <1>4, <2>4
<1>8. n \div (a * b) = u
  <2>1. u \in Int  BY <1>2
  <2> QED  BY <1>5, <1>6, <1>7, <2>1, DivisionUnique
<1> QED  BY <1>8 DEF q, u

-----------------------------------------------------------------------------
(* The digits of a number, as itoa finds them.                             *)
DigitSet == {DigitChar(d) : d \in 0 .. 9}

LEMMA LastFirstIs ==
  /\ LastFirst \in [Nat -> Seq(DigitSet)] /\ LastFirst[0] = << >>
  /\ \A n \in Nat \ {0} :
       LastFirst[n] = <<DigitChar(n % 10)>> \o LastFirst[n \div 10]
<1> DEFINE d == [n \in Nat |-> n \div 10]
           G == [p \in Nat \X Seq(DigitSet) |-> <<DigitChar(p[1] % 10)>> \o p[2]]
           Is(f) == f = [n \in Nat |-> IF n = 0 THEN << >>
                                       ELSE <<DigitChar(n % 10)>> \o f[n \div 10]]
<1>0. \A n \in Nat : n % 10 \in 0 .. 9 /\ n \div 10 \in Nat
                     /\ (n # 0 => n \div 10 < n)
  OBVIOUS
<1>1. /\ \A n \in Nat : d[n] = n \div 10
      /\ \A n \in Nat, s \in Seq(DigitSet) :
           G[<<n, s>>] = <<DigitChar(n % 10)>> \o s
  OBVIOUS
<1>2. Equation(Seq(DigitSet), << >>, d, G)
  <2>1. << >> \in Seq(DigitSet)  OBVIOUS
  <2>2. d \in [Nat -> Nat] /\ \A n \in Nat \ {0} : d[n] < n  BY <1>0
  <2>3. ASSUME NEW n \in Nat, NEW s \in Seq(DigitSet)
        PROVE  <<DigitChar(n % 10)>> \o s \in Seq(DigitSet)
    <3>1. DigitChar(n % 10) \in DigitSet  BY <1>0 DEF DigitSet
    <3>2. \A c \in DigitSet : <<c>> \o s \in Seq(DigitSet)  OBVIOUS
    <3> QED  BY <3>1, <3>2
  <2>4. G \in [Nat \X Seq(DigitSet) -> Seq(DigitSet)]  BY <2>3
  <2> QED  BY <2>1, <2>2, <2>4 DEF Equation
<1> HIDE DEF d, G
<1>3. PICK f \in [Nat -> Seq(DigitSet)] :
        f[0] = << >> /\ \A n \in Nat \ {0} : f[n] = G[<<n, f[d[n]]>>]
  BY <1>2, Recursion
<1>4. \A n \in Nat \ {0} : f[n] = <<DigitChar(n % 10)>> \o f[n \div 10]
  <2> TAKE n \in Nat \ {0}
  <2>1. n \div 10 \in Nat /\ f[n \div 10] \in Seq(DigitSet)  BY <1>0
  <2> QED  BY <1>1, <1>3, <2>1
<1>5. Is(f)  BY <1>3, <1>4
<1>6. Is(LastFirst)  BY <1>5 DEF LastFirst
<1>7. LastFirst[0] = << >>
      /\ \A n \in Nat \ {0} :
           LastFirst[n] = <<DigitChar(n % 10)>> \o LastFirst[n \div 10]
  BY <1>6
<1> DEFINE T == {n \in Nat : LastFirst[n] \in Seq(DigitSet)}
<1>8. Nat \subseteq T
  <2>1. ASSUME NEW n \in Nat, \A m \in 0 .. n - 1 : m \in T PROVE n \in T
    <3>1. CASE n = 0
      <4>1. << >> \in Seq(DigitSet)  OBVIOUS
      <4> QED  BY <1>7, <3>1, <4>1
    <3>2. CASE n # 0
      <4>1. n \div 10 \in 0 .. n - 1  BY <1>0, <3>2
      <4>2. LastFirst[n \div 10] \in Seq(DigitSet)  BY <2>1, <4>1
      <4>3. DigitChar(n % 10) \in DigitSet  BY <1>0 DEF DigitSet
      <4>4. ASSUME NEW c \in DigitSet, NEW s \in Seq(DigitSet)
            PROVE  <<c>> \o s \in Seq(DigitSet)
        <5>1. <<c>> \in Seq(DigitSet)  OBVIOUS
        <5> QED  BY <5>1
      <4>5. LastFirst[n] = <<DigitChar(n % 10)>> \o LastFirst[n \div 10]
        BY <1>7, <3>2
      <4>6. LastFirst[n] \in Seq(DigitSet)  BY <4>2, <4>3, <4>4, <4>5, Zenon
      <4> QED  BY <4>6
    <3> QED  BY <3>1, <3>2
  <2> HIDE DEF T
  <2> QED  BY <2>1, Induction
<1> QED  BY <1>6, <1>7, <1>8

(* The digit of weight Power[k].                                           *)
Digit(n, k) == DigitChar((n \div Power[k]) % 10)

(* The loop of itoa yields every digit up to the first that is not 0.      *)
Yields(n) ==
  LET len == Len(LastFirst[n])
  IN /\ len \in Nat \ {0} /\ Power[len - 1] <= n /\ n < Power[len]
     /\ \A j \in 1 .. len : LastFirst[n][j] = Digit(n, j - 1)

LEMMA LoopYields == \A n \in Nat \ {0} : Yields(n)
<1> DEFINE T == {n \in Nat : n = 0 \/ Yields(n)}
<1>1. ASSUME NEW n \in Nat, \A m \in 0 .. n - 1 : m \in T PROVE n \in T
  <2> SUFFICES ASSUME n # 0 PROVE Yields(n)  OBVIOUS
  <2> DEFINE q == n \div 10
             r == n % 10
             s == LastFirst[q]
             len == Len(s)
             t == LastFirst[n]
  <2>1. q \in 0 .. n - 1 /\ r \in 0 .. 9 /\ n = 10 * q + r  OBVIOUS
  <2>2. s \in Seq(DigitSet) /\ len \in Nat /\ t = <<DigitChar(r)>> \o s
    <3>1. t = <<DigitChar(r)>> \o s  BY LastFirstIs
    <3>2. q \in Nat  BY <2>1
    <3> HIDE DEF q, r, t
    <3>3. s \in Seq(DigitSet)  BY <3>2, LastFirstIs
    <3> QED  BY <3>1, <3>3
  <2>3. /\ Len(t) = len + 1 /\ t[1] = DigitChar(r)
        /\ \A j \in 2 .. len + 1 : t[j] = s[j - 1]
    <3> HIDE DEF s, t
    <3> QED  BY <2>2
  <2>4. Digit(n, 0) = DigitChar(r)
    <3>1. n \div 1 = n  OBVIOUS
    <3> QED  BY <3>1, PowerIs DEF Digit
  <2>5. CASE q = 0
    <3>1. len = 0  BY <2>5, LastFirstIs
    <3>2. Power[0] = 1 /\ Power[1] = 10  BY PowerIs
    <3>3. Power[0] <= n /\ n < Power[1]  BY <2>1, <2>5, <3>2
    <3> HIDE DEF q, r, s, len, t
    <3>4. Len(t) = 1  BY <2>3, <3>1
    <3>5. \A j \in 1 .. 1 : t[j] = Digit(n, j - 1)  BY <2>3, <2>4
    <3> QED  BY <3>3, <3>4, <3>5 DEF Yields, t
  <2>6. CASE q # 0
    <3>1. Yields(q)  BY <1>1, <2>1, <2>6
    <3>2. /\ len \in Nat \ {0} /\ Power[len - 1] <= q /\ q < Power[len]
          /\ \A j \in 1 .. len : s[j] = Digit(q, j - 1)
      BY <3>1 DEF Yields
    <3>3. /\ Power[len] = 10 * Power[len - 1] /\ Power[len + 1] = 10 * Power[len]
          /\ Power[len - 1] \in Nat /\ Power[len] \in Nat
      <4> HIDE DEF len
      <4> QED  BY <3>2, PowerIs
    <3>4. Power[len] <= n /\ n < Power[len + 1]
      <4> HIDE DEF q, r, len
      <4> QED  BY <2>1, <3>2, <3>3
    <3>5. \A k \in Nat : Digit(q, k) = Digit(n, k + 1)
      <4> TAKE k \in Nat
      <4>1. Power[k] \in Nat \ {0} /\ Power[k + 1] = 10 * Power[k]
        BY PowerPositive
      <4>2. (n \div 10) \div Power[k] = n \div (10 * Power[k])
        BY <4>1, Twice
      <4> QED  BY <4>1, <4>2 DEF Digit
    <3> HIDE DEF q, r, s, len, t
    <3>6. \A j \in 1 .. len + 1 : t[j] = Digit(n, j - 1)
      <4> TAKE j \in 1 .. len + 1
      <4>1. CASE j = 1  BY <2>3, <2>4, <4>1
      <4>2. CASE j # 1
        <5>1. j \in 2 .. len + 1 /\ j - 1 \in 1 .. len /\ j - 2 \in Nat
              /\ (j - 1) - 1 = j - 2 /\ (j - 2) + 1 = j - 1
          BY <2>2, <4>2
        <5>2. t[j] = s[j - 1] /\ s[j - 1] = Digit(q, j - 2)
          BY <2>3, <3>2, <5>1
        <5>3. Digit(q, j - 2) = Digit(n, j - 1)  BY <3>5, <5>1
        <5> QED  BY <5>2, <5>3
      <4> QED  BY <4>1, <4>2
    <3>7. Len(t) = len + 1 /\ (len + 1) - 1 = len /\ len + 1 \in Nat \ {0}
      BY <2>2, <2>3
    <3> QED  BY <3>4, <3>6, <3>7 DEF Yields, t
  <2> QED  BY <2>5, <2>6
<1> HIDE DEF T
<1>2. Nat \subseteq T  BY <1>1, Induction
<1> QED  BY <1>2 DEF T

(* How many digits a number has, and no other number of them is right.     *)
LEMMA DecimalLength ==
  ASSUME NEW m \in Nat, NEW len \in 1 .. 10, m < Power[len],
         len = 1 \/ Power[len - 1] <= m
  PROVE  Decimal(m) = Digits(m, len)
<1> DEFINE Fits(n) == Power[n] > m /\ (n = 1 \/ Power[n - 1] <= m)
<1>1. \A n \in 1 .. 10 : Power[n] \in Nat /\ Power[n - 1] \in Nat
  BY PowerIs
<1>2. Fits(len)  BY <1>1
<1>3. ASSUME NEW n \in 1 .. 10, Fits(n) PROVE n = len
  <2>1. CASE n < len
    <3>1. n <= len - 1 /\ n \in Nat /\ len - 1 \in Nat /\ len # 1  BY <2>1
    <3>2. Power[n] <= Power[len - 1]  BY <3>1, PowerGrows
    <3> QED  BY <1>1, <1>3, <3>1, <3>2
  <2>2. CASE len < n
    <3>1. len <= n - 1 /\ len \in Nat /\ n - 1 \in Nat /\ n # 1  BY <2>2
    <3>2. Power[len] <= Power[n - 1]  BY <3>1, PowerGrows
    <3> QED  BY <1>1, <1>3, <3>1, <3>2
  <2> QED  BY <2>1, <2>2
<1>4. (CHOOSE n \in 1 .. 10 : Fits(n)) = len
  <2> HIDE DEF Fits
  <2> QED  BY <1>2, <1>3
<1> QED  BY <1>4 DEF Decimal

(* itoa writes the decimal system, for any number of up to ten digits.     *)
THEOREM ItoaIsDecimal ==
  ASSUME NEW n \in Nat, n < Power[10]
  PROVE  itoa(n) = Decimal(n)
<1>1. CASE n = 0
  <2>1. Power[0] = 1 /\ Power[1] = 10
    <3>1. 1 \in Nat \ {0} /\ 1 - 1 = 0  OBVIOUS
    <3> QED  BY <3>1, PowerIs
  <2>2. Decimal(0) = Digits(0, 1)  BY <2>1, DecimalLength
  <2>3. Digits(0, 1) = [i \in 1 .. 1 |-> DigitChar(0)]
    <3>1. \A i \in 1 .. 1 : (0 \div Power[1 - i]) % 10 = 0
      <4> TAKE i \in 1 .. 1
      <4>1. 1 - i = 0  OBVIOUS
      <4>2. Power[1 - i] = 1  BY <2>1, <4>1
      <4> QED  BY <4>2
    <3> QED  BY <3>1 DEF Digits
  <2>4. <<DigitChar(0)>> = [i \in 1 .. 1 |-> DigitChar(0)]  OBVIOUS
  <2> QED  BY <1>1, <2>2, <2>3, <2>4 DEF itoa
<1>2. CASE n # 0
  <2> DEFINE t == LastFirst[n]
             len == Len(t)
  <2>1. /\ len \in Nat \ {0} /\ Power[len - 1] <= n /\ n < Power[len]
        /\ \A j \in 1 .. len : t[j] = Digit(n, j - 1)
    BY <1>2, LoopYields DEF Yields
  <2> HIDE DEF len, t
  <2>2. len <= 10
    <3> SUFFICES ASSUME 10 <= len - 1 PROVE FALSE  BY <2>1
    <3>1. Power[10] <= Power[len - 1]  BY <2>1, PowerGrows
    <3>2. Power[10] \in Nat /\ Power[len - 1] \in Nat  BY <2>1, PowerIs
    <3> QED  BY <2>1, <3>1, <3>2
  <2>3. Decimal(n) = Digits(n, len)  BY <2>1, <2>2, DecimalLength
  <2>4. itoa(n) = [i \in 1 .. len |-> t[(len - i) + 1]]
    BY <1>2 DEF itoa, Reverse, len, t
  <2>5. \A i \in 1 .. len : t[(len - i) + 1] = Digit(n, len - i)
    <3> TAKE i \in 1 .. len
    <3>1. (len - i) + 1 \in 1 .. len /\ ((len - i) + 1) - 1 = len - i  BY <2>1
    <3> QED  BY <2>1, <3>1
  <2>6. Digits(n, len) = [i \in 1 .. len |-> Digit(n, len - i)]
    BY DEF Digits, Digit
  <2> QED  BY <2>3, <2>4, <2>5, <2>6
<1> QED  BY <1>1, <1>2

-----------------------------------------------------------------------------
(* What a sequence of writes leaves.                                       *)
CharSet == DigitSet \cup {Blank, Letter, Bar, "b", ":", ".", "-", ">", "$"}
Write == Int \X CharSet

LEMMA LastAtIs ==
  ASSUME NEW S, NEW w \in Seq(S), NEW c \in Places(w)
  PROVE  /\ LastAt(w, c) \in 1 .. Len(w) /\ w[LastAt(w, c)][1] = c
         /\ \A j \in LastAt(w, c) + 1 .. Len(w) : w[j][1] # c
<1> DEFINE T == {Len(w) - k : k \in {i \in 1 .. Len(w) : w[i][1] = c}}
           IsLast(k) == w[k][1] = c /\ \A j \in k + 1 .. Len(w) : w[j][1] # c
<1>1. T \subseteq Nat /\ T # {}  BY DEF Places
<1>2. PICK x \in T : \A y \in T : x <= y
  <2> HIDE DEF T
  <2> QED  BY <1>1, LeastNumber
<1>3. PICK k \in 1 .. Len(w) : x = Len(w) - k /\ w[k][1] = c  BY <1>2
<1>4. \A j \in k + 1 .. Len(w) : w[j][1] # c
  <2> SUFFICES ASSUME NEW j \in k + 1 .. Len(w), w[j][1] = c PROVE FALSE
    OBVIOUS
  <2>1. j \in 1 .. Len(w) /\ Len(w) \in Nat  BY <1>3
  <2>2. Len(w) - j \in T  BY <2>1
  <2> HIDE DEF T
  <2> QED  BY <1>2, <1>3, <2>1, <2>2
<1>5. \E i \in 1 .. Len(w) : IsLast(i)  BY <1>3, <1>4
<1>6. LastAt(w, c) = CHOOSE i \in 1 .. Len(w) : IsLast(i)  BY DEF LastAt
<1> HIDE DEF IsLast
<1>7. LastAt(w, c) \in 1 .. Len(w) /\ IsLast(LastAt(w, c))  BY <1>5, <1>6
<1> QED  BY <1>7 DEF IsLast

(* It is the only one.                                                     *)
LEMMA LastAtUnique ==
  ASSUME NEW S, NEW w \in Seq(S), NEW k \in 1 .. Len(w),
         \A j \in k + 1 .. Len(w) : w[j][1] # w[k][1]
  PROVE  w[k][1] \in Places(w) /\ LastAt(w, w[k][1]) = k
<1> DEFINE c == w[k][1]
           n == LastAt(w, c)
<1>1. c \in Places(w)  BY DEF Places
<1> HIDE DEF c
<1>2. n \in 1 .. Len(w) /\ w[n][1] = c /\ \A j \in n + 1 .. Len(w) : w[j][1] # c
  BY <1>1, LastAtIs
<1> HIDE DEF n
<1>3. ~ (n < k) /\ ~ (k < n)  BY <1>2 DEF c
<1> QED  BY <1>1, <1>2, <1>3 DEF c, n

LEMMA Untouched ==
  ASSUME NEW cells, NEW w, NEW c \in Cell, c \notin Places(w)
  PROVE  Written(cells, w)[c] = cells[c]
BY DEF Written

LEMMA Touched ==
  ASSUME NEW cells, NEW w, NEW c \in Cell, c \in Places(w)
  PROVE  Written(cells, w)[c] = w[LastAt(w, c)][2]
BY DEF Written

LEMMA PlacesOne ==
  ASSUME NEW e
  PROVE  Places(<<e>>) = {e[1]}
<1> DEFINE w == <<e>>
<1>1. Len(w) = 1 /\ w[1] = e  OBVIOUS
<1> HIDE DEF w
<1>2. Places(w) = {e[1]}  BY <1>1 DEF Places
<1> QED  BY <1>2 DEF w

LEMMA WrittenOne ==
  ASSUME NEW cells, NEW e, NEW c \in Cell
  PROVE  Written(cells, <<e>>)[c] = (IF c = e[1] THEN e[2] ELSE cells[c])
<1> DEFINE w == <<e>>
<1>1. w \in Seq({e}) /\ Len(w) = 1 /\ w[1] = e  OBVIOUS
<1>2. Places(w) = {e[1]}  BY PlacesOne
<1> HIDE DEF w
<1>3. LastAt(w, w[1][1]) = 1  BY <1>1, LastAtUnique
<1>4. CASE c = e[1]  BY <1>1, <1>2, <1>3, <1>4, Touched DEF w
<1>5. CASE c # e[1]  BY <1>2, <1>5, Untouched DEF w
<1> QED  BY <1>4, <1>5

LEMMA PlacesConcat ==
  ASSUME NEW S, NEW v \in Seq(S), NEW w \in Seq(S)
  PROVE  Places(v \o w) = Places(v) \cup Places(w)
<1> DEFINE u == v \o w
<1>1. /\ Len(u) = Len(v) + Len(w) /\ Len(v) \in Nat /\ Len(w) \in Nat
      /\ \A k \in 1 .. Len(v) : u[k] = v[k]
      /\ \A k \in 1 .. Len(w) : u[Len(v) + k] = w[k]
  OBVIOUS
<1> HIDE DEF u
<1>2. ASSUME NEW k \in 1 .. Len(u) PROVE u[k][1] \in Places(v) \cup Places(w)
  <2>1. CASE k \in 1 .. Len(v)  BY <1>1, <2>1 DEF Places
  <2>2. CASE k \notin 1 .. Len(v)
    <3>1. k - Len(v) \in 1 .. Len(w) /\ Len(v) + (k - Len(v)) = k
      BY <1>1, <2>2
    <3>2. u[k] = w[k - Len(v)]  BY <1>1, <3>1
    <3> QED  BY <3>1, <3>2 DEF Places
  <2> QED  BY <2>1, <2>2
<1>3. \A k \in 1 .. Len(v) : v[k][1] \in Places(u)
  <2> TAKE k \in 1 .. Len(v)
  <2>1. k \in 1 .. Len(u) /\ u[k] = v[k]  BY <1>1
  <2> QED  BY <2>1 DEF Places
<1>4. \A k \in 1 .. Len(w) : w[k][1] \in Places(u)
  <2> TAKE k \in 1 .. Len(w)
  <2>1. Len(v) + k \in 1 .. Len(u) /\ u[Len(v) + k] = w[k]  BY <1>1
  <2> QED  BY <2>1 DEF Places
<1> QED  BY <1>2, <1>3, <1>4 DEF Places, u

(* Writing one sequence after the other.                                   *)
LEMMA WrittenConcat ==
  ASSUME NEW cells, NEW S, NEW v \in Seq(S), NEW w \in Seq(S), NEW c \in Cell
  PROVE  Written(cells, v \o w)[c] = Written(Written(cells, v), w)[c]
<1> DEFINE u == v \o w
<1>1. /\ Len(u) = Len(v) + Len(w) /\ Len(v) \in Nat /\ Len(w) \in Nat
      /\ \A k \in 1 .. Len(v) : u[k] = v[k]
      /\ \A k \in 1 .. Len(w) : u[Len(v) + k] = w[k]
      /\ u \in Seq(S)
  OBVIOUS
<1>2. Places(u) = Places(v) \cup Places(w)  BY PlacesConcat
<1> HIDE DEF u
<1>3. CASE c \in Places(w)
  <2> DEFINE n == LastAt(w, c)
  <2>1. n \in 1 .. Len(w) /\ w[n][1] = c /\ \A j \in n + 1 .. Len(w) : w[j][1] # c
    BY <1>3, LastAtIs
  <2> HIDE DEF n
  <2>2. Len(v) + n \in 1 .. Len(u) /\ u[Len(v) + n] = w[n]  BY <1>1, <2>1
  <2>3. \A j \in Len(v) + n + 1 .. Len(u) : u[j][1] # c
    <3> TAKE j \in Len(v) + n + 1 .. Len(u)
    <3>1. j - Len(v) \in n + 1 .. Len(w) /\ j - Len(v) \in 1 .. Len(w)
          /\ Len(v) + (j - Len(v)) = j
      BY <1>1, <2>1
    <3>2. u[j] = w[j - Len(v)]  BY <1>1, <3>1
    <3> QED  BY <2>1, <3>1, <3>2
  <2>4. LastAt(u, c) = Len(v) + n
    <3>1. u[Len(v) + n][1] = c  BY <2>1, <2>2
    <3>2. \A j \in (Len(v) + n) + 1 .. Len(u) : u[j][1] # u[Len(v) + n][1]
      BY <2>3, <3>1
    <3> HIDE DEF n
    <3> QED  BY <1>1, <2>2, <3>1, <3>2, LastAtUnique
  <2>5. Written(cells, u)[c] = u[LastAt(u, c)][2]  BY <1>2, <1>3, Touched
  <2>6. Written(Written(cells, v), w)[c] = w[n][2]  BY <1>3, Touched DEF n
  <2> QED  BY <2>2, <2>4, <2>5, <2>6 DEF u
<1>4. CASE c \notin Places(w)
  <2>1. Written(Written(cells, v), w)[c] = Written(cells, v)[c]
    BY <1>4, Untouched
  <2>2. CASE c \in Places(v)
    <3> DEFINE n == LastAt(v, c)
    <3>1. n \in 1 .. Len(v) /\ v[n][1] = c
          /\ \A j \in n + 1 .. Len(v) : v[j][1] # c
      BY <2>2, LastAtIs
    <3> HIDE DEF n
    <3>2. n \in 1 .. Len(u) /\ u[n] = v[n]  BY <1>1, <3>1
    <3>3. \A j \in n + 1 .. Len(u) : u[j][1] # c
      <4> TAKE j \in n + 1 .. Len(u)
      <4>1. CASE j <= Len(v)
        <5>1. j \in n + 1 .. Len(v) /\ j \in 1 .. Len(v)  BY <3>1, <4>1
        <5> QED  BY <1>1, <3>1, <5>1
      <4>2. CASE j > Len(v)
        <5>1. j - Len(v) \in 1 .. Len(w) /\ Len(v) + (j - Len(v)) = j
          BY <1>1, <4>2
        <5>2. u[j] = w[j - Len(v)]  BY <1>1, <5>1
        <5> QED  BY <1>4, <5>1, <5>2 DEF Places
      <4> QED  BY <1>1, <3>1, <4>1, <4>2
    <3>4. LastAt(u, c) = n
      <4>1. u[n][1] = c  BY <3>1, <3>2
      <4>2. \A j \in n + 1 .. Len(u) : u[j][1] # u[n][1]  BY <3>3, <4>1
      <4> QED  BY <1>1, <3>2, <4>1, <4>2, LastAtUnique
    <3>5. Written(cells, u)[c] = u[LastAt(u, c)][2]  BY <1>2, <2>2, Touched
    <3>6. Written(cells, v)[c] = v[n][2]  BY <2>2, Touched DEF n
    <3> QED  BY <2>1, <3>2, <3>4, <3>5, <3>6 DEF u
  <2>3. CASE c \notin Places(v)
    <3>1. Written(cells, u)[c] = cells[c]  BY <1>2, <1>4, <2>3, Untouched
    <3>2. Written(cells, v)[c] = cells[c]  BY <2>3, Untouched
    <3> QED  BY <2>1, <3>1, <3>2 DEF u
  <2> QED  BY <2>2, <2>3
<1> QED  BY <1>3, <1>4

-----------------------------------------------------------------------------
(* Strings on the screen.                                                  *)

LEMMA Sizes ==
  /\ Width \in Nat \ {0} /\ Height \in Nat \ {0} /\ ClockCol \in Nat
  /\ ClockRow \in Nat /\ TimeCol \in Nat /\ NameLength \in Nat
  /\ ClockRow = Height - 1 /\ ClockCol + 8 = Width
  /\ TimeCol + 8 < Width /\ NameLength + 3 < Width
BY ScreenAssumption

LEMMA OffsetIs ==
  ASSUME NEW x \in Nat, NEW y \in Nat
  PROVE  /\ Offset(x, y) \in Nat
         /\ \A n \in Nat : Offset(x + n, y) = Offset(x, y) + n
         /\ Offset(x, y + 1) = Offset(x, y) + Width
<1>1. y * Width \in Nat /\ Width \in Nat  BY Sizes, Products
<1>2. (y + 1) * Width = y * Width + Width  BY <1>1
<1> QED  BY <1>1, <1>2 DEF Offset

LEMMA SaysIs ==
  ASSUME NEW s \in Seq(CharSet), NEW x \in Nat, NEW y \in Nat
  PROVE  /\ Says(s, x, y) \in Seq(Write) /\ Len(Says(s, x, y)) = Len(s)
         /\ \A i \in 1 .. Len(s) :
              Says(s, x, y)[i] = <<Offset(x, y) + i - 1, s[i]>>
<1>1. Offset(x, y) \in Int  BY OffsetIs
<1>2. \A i \in 1 .. Len(s) : <<Offset(x, y) + i - 1, s[i]>> \in Write
  BY <1>1 DEF Write
<1>3. Len(s) \in Nat  OBVIOUS
<1> QED  BY <1>2, <1>3 DEF Says

(* A string that ends in the row after its own is in consecutive cells.    *)
LEMMA PrintSays ==
  ASSUME NEW s \in Seq(CharSet), NEW x \in Nat, NEW y \in Nat,
         x + Len(s) <= 2 * Width
  PROVE  print(s, x, y) = Says(s, x, y)
<1>1. Width \in Nat /\ Len(s) \in Nat  BY Sizes
<1>2. ASSUME NEW i \in 1 .. Len(s)
      PROVE  (IF x + i - 1 >= Width THEN Offset((x + i - 1) % Width, y + 1)
              ELSE Offset(x + i - 1, y)) = Offset(x, y) + i - 1
  <2>1. y * Width \in Nat /\ (y + 1) * Width = y * Width + Width
    BY <1>1
  <2>2. CASE x + i - 1 >= Width
    <3> DEFINE r == x + i - 1 - Width
    <3>1. r \in 0 .. Width - 1 /\ Width \in Nat \ {0} /\ x + i - 1 = Width * 1 + r
      BY <1>1, <2>2
    <3>2. (x + i - 1) % Width = r
      <4> HIDE DEF r
      <4> QED  BY <3>1, DivisionUnique
    <3> QED  BY <1>1, <2>1, <2>2, <3>2 DEF Offset
  <2>3. CASE ~ (x + i - 1 >= Width)  BY <1>1, <2>1, <2>3 DEF Offset
  <2> QED  BY <2>2, <2>3
<1> QED  BY <1>2 DEF print, Says

LEMMA ConcatIs ==
  ASSUME NEW S, NEW a \in Seq(S), NEW b \in Seq(S)
  PROVE  a \o b = [i \in 1 .. Len(a) + Len(b) |->
                     IF i <= Len(a) THEN a[i] ELSE b[i - Len(a)]]
<1> DEFINE c == [i \in 1 .. Len(a) + Len(b) |->
                   IF i <= Len(a) THEN a[i] ELSE b[i - Len(a)]]
<1>1. Len(a) \in Nat /\ Len(b) \in Nat  OBVIOUS
<1>2. \A i \in 1 .. Len(a) + Len(b) : c[i] \in S
  <2> TAKE i \in 1 .. Len(a) + Len(b)
  <2>1. i <= Len(a) => a[i] \in S  OBVIOUS
  <2>2. ~ (i <= Len(a)) => i - Len(a) \in 1 .. Len(b)  BY <1>1
  <2> QED  BY <2>1, <2>2
<1>3. c \in Seq(S) /\ Len(c) = Len(a) + Len(b)
      /\ \A i \in 1 .. Len(a) + Len(b) :
           c[i] = IF i <= Len(a) THEN a[i] ELSE b[i - Len(a)]
  BY <1>1, <1>2
<1> HIDE DEF c
<1>4. a \o b \in Seq(S) /\ Len(a \o b) = Len(a) + Len(b)  OBVIOUS
<1>5. \A i \in 1 .. Len(a) + Len(b) : (a \o b)[i] = c[i]  BY <1>1, <1>3
<1>6. a \o b = c  BY <1>3, <1>4, <1>5, SeqEqual
<1> QED  BY <1>6 DEF c

LEMMA SaysConcat ==
  ASSUME NEW s \in Seq(CharSet), NEW t \in Seq(CharSet), NEW x \in Nat, NEW y \in Nat
  PROVE  Says(s \o t, x, y) = Says(s, x, y) \o Says(t, x + Len(s), y)
<1>1. Len(s) \in Nat /\ Len(t) \in Nat /\ Len(s \o t) = Len(s) + Len(t)  OBVIOUS
<1>2. Offset(x, y) \in Int /\ Offset(x + Len(s), y) = Offset(x, y) + Len(s)
  <2>1. \A n \in Nat : Offset(x + n, y) = Offset(x, y) + n  BY OffsetIs
  <2>2. Offset(x, y) \in Nat  BY OffsetIs
  <2> QED  BY <1>1, <2>1, <2>2
<1> DEFINE a == Says(s, x, y)
           b == Says(t, x + Len(s), y)
<1>3. /\ a \in Seq(Write) /\ Len(a) = Len(s)
      /\ \A i \in 1 .. Len(s) : a[i] = <<Offset(x, y) + i - 1, s[i]>>
  BY SaysIs
<1>4. /\ b \in Seq(Write) /\ Len(b) = Len(t)
      /\ \A i \in 1 .. Len(t) : b[i] = <<Offset(x + Len(s), y) + i - 1, t[i]>>
  <2>1. x + Len(s) \in Nat  OBVIOUS
  <2> QED  BY <2>1, SaysIs
<1> HIDE DEF a, b
<1>5. a \o b = [i \in 1 .. Len(s) + Len(t) |->
                  IF i <= Len(s) THEN a[i] ELSE b[i - Len(s)]]
  <2>1. a \o b = [i \in 1 .. Len(a) + Len(b) |->
                    IF i <= Len(a) THEN a[i] ELSE b[i - Len(a)]]
    BY <1>3, <1>4, ConcatIs
  <2>2. Len(a) = Len(s) /\ Len(b) = Len(t)  BY <1>3, <1>4
  <2> QED  BY <2>1, <2>2, Zenon
<1>6. ASSUME NEW i \in 1 .. Len(s) + Len(t)
      PROVE  (IF i <= Len(s) THEN a[i] ELSE b[i - Len(s)])
               = <<Offset(x, y) + i - 1, (s \o t)[i]>>
  <2>1. CASE i <= Len(s)
    <3>1. (s \o t)[i] = s[i] /\ i \in 1 .. Len(s)  BY <1>1, <2>1
    <3> QED  BY <1>3, <2>1, <3>1
  <2>2. CASE ~ (i <= Len(s))
    <3>1. (s \o t)[i] = t[i - Len(s)] /\ i - Len(s) \in 1 .. Len(t)
      BY <1>1, <2>2
    <3>2. b[i - Len(s)] = <<Offset(x + Len(s), y) + (i - Len(s)) - 1, t[i - Len(s)]>>
      BY <1>4, <3>1
    <3>3. Offset(x + Len(s), y) + (i - Len(s)) - 1 = Offset(x, y) + i - 1
      BY <1>1, <1>2
    <3> QED  BY <2>2, <3>1, <3>2, <3>3
  <2> QED  BY <2>1, <2>2
<1>7. Says(s \o t, x, y) = [i \in 1 .. Len(s) + Len(t) |->
                              <<Offset(x, y) + i - 1, (s \o t)[i]>>]
  BY <1>1 DEF Says
<1> QED  BY <1>5, <1>6, <1>7 DEF a, b

LEMMA PutcSays ==
  ASSUME NEW c \in CharSet, NEW x \in Nat, NEW y \in Nat
  PROVE  putc(c, x, y) = Says(<<c>>, x, y) /\ <<c>> \in Seq(CharSet)
<1>1. Offset(x, y) \in Int  BY OffsetIs
<1>2. Says(<<c>>, x, y) = [i \in 1 .. 1 |-> <<Offset(x, y) + i - 1, <<c>>[i]>>]
  BY DEF Says
<1>3. [i \in 1 .. 1 |-> <<Offset(x, y) + i - 1, <<c>>[i]>>] = <<<<Offset(x, y), c>>>>
  BY <1>1
<1> QED  BY <1>2, <1>3 DEF putc

LEMMA DigitsIs ==
  ASSUME NEW m \in Nat, NEW n \in Nat
  PROVE  Digits(m, n) \in Seq(CharSet) /\ Len(Digits(m, n)) = n
<1>1. ASSUME NEW i \in 1 .. n
      PROVE  DigitChar((m \div Power[n - i]) % 10) \in CharSet
  <2>1. n - i \in Nat  OBVIOUS
  <2>2. Power[n - i] \in Nat \ {0}  BY <2>1, PowerPositive
  <2>3. m \div Power[n - i] \in Nat  BY <2>2
  <2>4. (m \div Power[n - i]) % 10 \in 0 .. 9  BY <2>3
  <2> QED  BY <2>4 DEF CharSet, DigitSet
<1> QED  BY <1>1 DEF Digits

(* A number of a time has its two digits.                                  *)
LEMMA TwoDigitsSays ==
  ASSUME NEW n \in 0 .. 59, NEW x \in Nat, NEW y \in Nat, x + 2 <= Width
  PROVE  TwoDigits(n, x, y) = Says(Digits(n, 2), x, y)
<1>0. n \in Nat /\ Width \in Nat  BY Sizes
<1>1. Power[0] = 1 /\ Power[1] = 10 /\ Power[2] = 100
  <2>1. 1 \in Nat \ {0} /\ 2 \in Nat \ {0} /\ 1 - 1 = 0 /\ 2 - 1 = 1  OBVIOUS
  <2> QED  BY <2>1, PowerIs
<1>2. itoa(n) = Decimal(n)
  <2>1. Power[2] <= Power[10] /\ Power[10] \in Nat  BY PowerGrows, PowerIs
  <2>2. n < Power[10]  BY <1>0, <1>1, <2>1
  <2> QED  BY <1>0, <2>2, ItoaIsDecimal
<1>3. /\ DigitChar(0) = "0" /\ DigitChar(0) \in CharSet
  BY DEF DigitChar, CharSet, DigitSet
<1>4. CASE n < 10
  <2>1. itoa(n) = Digits(n, 1)  BY <1>0, <1>1, <1>2, <1>4, DecimalLength
  <2>2. Digits(n, 1) \in Seq(CharSet) /\ Len(Digits(n, 1)) = 1  BY <1>0, DigitsIs
  <2>3. print_int(n, x + 1, y) = Says(Digits(n, 1), x + 1, y)
    <3>1. x + 1 \in Nat /\ (x + 1) + 1 <= 2 * Width  BY <1>0
    <3> QED  BY <2>1, <2>2, <3>1, PrintSays DEF print_int
  <2>4. putc("0", x, y) = Says(<<"0">>, x, y) /\ <<"0">> \in Seq(CharSet)
    BY <1>3, PutcSays
  <2>5. <<"0">> \o Digits(n, 1) = Digits(n, 2)
    <3>1. Digits(n, 1) = [i \in 1 .. 1 |-> DigitChar((n \div Power[1 - i]) % 10)]
      BY DEF Digits
    <3>2. Digits(n, 1)[1] = DigitChar(n % 10)
      <4>1. 1 - 1 = 0 /\ n \div 1 = n  BY <1>0
      <4> QED  BY <1>1, <3>1, <4>1
    <3>3. Digits(n, 2)[1] = DigitChar(0) /\ Digits(n, 2)[2] = DigitChar(n % 10)
      <4>1. Digits(n, 2) = [i \in 1 .. 2 |-> DigitChar((n \div Power[2 - i]) % 10)]
        BY DEF Digits
      <4>2. 2 - 1 = 1 /\ 2 - 2 = 0 /\ n \div 1 = n /\ (n \div 10) % 10 = 0
        BY <1>0, <1>4
      <4> QED  BY <1>1, <4>1, <4>2
    <3>4. Digits(n, 2) \in Seq(CharSet) /\ Len(Digits(n, 2)) = 2  BY <1>0, DigitsIs
    <3> DEFINE u == Digits(n, 1)
               v == Digits(n, 2)
    <3> HIDE DEF u, v
    <3>5. /\ u \in Seq(CharSet) /\ Len(u) = 1 /\ v \in Seq(CharSet) /\ Len(v) = 2
          /\ v[1] = "0" /\ v[2] = u[1]
      BY <1>3, <2>2, <3>2, <3>3, <3>4 DEF u, v
    <3>6. /\ <<"0">> \o u \in Seq(CharSet) /\ Len(<<"0">> \o u) = 2
          /\ (<<"0">> \o u)[1] = "0" /\ (<<"0">> \o u)[2] = u[1]
      <4>1. ASSUME NEW e \in CharSet
            PROVE  /\ <<e>> \o u \in Seq(CharSet) /\ Len(<<e>> \o u) = 2
                   /\ (<<e>> \o u)[1] = e /\ (<<e>> \o u)[2] = u[1]
        <5>1. <<e>> \in Seq(CharSet) /\ Len(<<e>>) = 1 /\ <<e>>[1] = e  OBVIOUS
        <5> DEFINE h == <<e>>
                   w == h \o u
        <5> HIDE DEF h
        <5>2. /\ w \in Seq(CharSet) /\ Len(w) = Len(h) + Len(u)
              /\ \A i \in 1 .. Len(h) + Len(u) :
                   w[i] = IF i <= Len(h) THEN h[i] ELSE u[i - Len(h)]
          BY <3>5, <5>1, ConcatProperties DEF h
        <5> USE DEF h
        <5> HIDE DEF w
        <5>3. /\ Len(w) = 2 /\ w[1] = <<e>>[1] /\ w[2] = u[1]
          BY <3>5, <5>1, <5>2
        <5> QED  BY <5>1, <5>2, <5>3 DEF w
      <4> QED  BY <1>3, <4>1
    <3>7. \A i \in 1 .. 2 : (<<"0">> \o u)[i] = v[i]
      <4>1. \A i \in 1 .. 2 : i = 1 \/ i = 2  OBVIOUS
      <4> QED  BY <3>5, <3>6, <4>1
    <3>8. <<"0">> \o u = v  BY <3>5, <3>6, <3>7, SeqEqual
    <3> QED  BY <3>8 DEF u, v
  <2>6. Says(Digits(n, 2), x, y) = Says(<<"0">>, x, y) \o Says(Digits(n, 1), x + 1, y)
    <3>1. Len(<<"0">>) = 1  OBVIOUS
    <3>2. Says(<<"0">> \o Digits(n, 1), x, y)
            = Says(<<"0">>, x, y) \o Says(Digits(n, 1), x + Len(<<"0">>), y)
      BY <2>2, <2>4, SaysConcat
    <3> QED  BY <2>5, <3>1, <3>2
  <2> QED  BY <1>4, <2>3, <2>4, <2>6 DEF TwoDigits
<1>5. CASE ~ (n < 10)
  <2>1. itoa(n) = Digits(n, 2)  BY <1>0, <1>1, <1>2, <1>5, DecimalLength
  <2>2. Digits(n, 2) \in Seq(CharSet) /\ Len(Digits(n, 2)) = 2  BY <1>0, DigitsIs
  <2>3. x + 2 <= 2 * Width  BY <1>0
  <2>4. print_int(n, x, y) = Says(Digits(n, 2), x, y)
    BY <2>1, <2>2, <2>3, PrintSays DEF print_int
  <2> QED  BY <1>5, <2>4 DEF TwoDigits
<1> QED  BY <1>4, <1>5

(* Texts of n letters.                                                     *)
Texts(n) == {s \in Seq(CharSet) : Len(s) = n}

(* u is said by saying s and then, n columns on, t.                        *)
Joined(u, s, t, n) ==
  \A x, y \in Nat : Says(u, x, y) = Says(s, x, y) \o Says(t, x + n, y)

LEMMA SaysJoin ==
  ASSUME NEW n \in Nat, NEW m \in Nat, NEW s \in Texts(n), NEW t \in Texts(m)
  PROVE  s \o t \in Texts(n + m) /\ Joined(s \o t, s, t, n)
<1>1. s \in Seq(CharSet) /\ t \in Seq(CharSet) /\ n = Len(s) /\ m = Len(t)
  BY DEF Texts
<1>2. s \o t \in Seq(CharSet) /\ Len(s \o t) = Len(s) + Len(t)
  BY <1>1, ConcatProperties
<1>3. \A x, y \in Nat :
        Says(s \o t, x, y) = Says(s, x, y) \o Says(t, x + Len(s), y)
  BY <1>1, SaysConcat, Zenon
<1>4. s \o t \in Texts(n + m)  BY <1>1, <1>2 DEF Texts
<1> QED  BY <1>1, <1>3, <1>4, Zenon DEF Joined

TimeRange == (0 .. 23) \X (0 .. 59) \X (0 .. 59)

LEMMA TwoDigitsTexts ==
  ASSUME NEW t \in TimeRange
  PROVE  /\ Digits(t[1], 2) \in Texts(2) /\ Digits(t[2], 2) \in Texts(2)
         /\ Digits(t[3], 2) \in Texts(2) /\ <<":">> \in Texts(1)
<1>1. t[1] \in Nat /\ t[2] \in Nat /\ t[3] \in Nat  BY DEF TimeRange
<1>2. ":" \in CharSet  BY DEF CharSet
<1>3. <<":">> \in Seq(CharSet) /\ Len(<<":">>) = 1  BY <1>2
<1> QED  BY <1>1, <1>3, DigitsIs DEF Texts

(* A time is a text of 8 letters, piece by piece.                          *)
LEMMA TimeIs ==
  ASSUME NEW t \in TimeRange
  PROVE  /\ Time(t) \in Seq(CharSet) /\ Len(Time(t)) = 8
         /\ \A x, y \in Nat :
              Says(Time(t), x, y)
                = Says(Digits(t[1], 2), x, y) \o Says(<<":">>, x + 2, y)
                  \o Says(Digits(t[2], 2), x + 3, y) \o Says(<<":">>, x + 5, y)
                  \o Says(Digits(t[3], 2), x + 6, y)
<1> DEFINE a == Digits(t[1], 2)
           b == Digits(t[2], 2)
           d == Digits(t[3], 2)
           p == <<":">>
           u == a \o p
           v == u \o b
           w == v \o p
<1>0. /\ 1 \in Nat /\ 2 \in Nat /\ 3 \in Nat /\ 5 \in Nat /\ 6 \in Nat
  OBVIOUS
<1>10. /\ 2 + 1 = 3 /\ 3 + 2 = 5 /\ 5 + 1 = 6 /\ 6 + 2 = 8
  OBVIOUS
<1>1. a \in Texts(2) /\ b \in Texts(2) /\ d \in Texts(2) /\ p \in Texts(1)
  BY TwoDigitsTexts
<1>2. Time(t) = w \o d  BY DEF Time
<1> HIDE DEF a, b, d, p
<1>3. /\ u \in Texts(3)
      /\ Joined(u, a, p, 2)
  <2>1. /\ a \o p \in Texts(2 + 1)
        /\ Joined(a \o p, a, p, 2)
    BY <1>0, <1>1, SaysJoin, Zenon
  <2> QED  BY <1>10, <2>1, Zenon
<1> HIDE DEF u
<1>4. /\ v \in Texts(5)
      /\ Joined(v, u, b, 3)
  <2>1. /\ u \o b \in Texts(3 + 2)
        /\ Joined(u \o b, u, b, 3)
    BY <1>0, <1>1, <1>3, SaysJoin, Zenon
  <2> QED  BY <1>10, <2>1, Zenon
<1> HIDE DEF v
<1>5. /\ w \in Texts(6)
      /\ Joined(w, v, p, 5)
  <2>1. /\ v \o p \in Texts(5 + 1)
        /\ Joined(v \o p, v, p, 5)
    BY <1>0, <1>1, <1>4, SaysJoin, Zenon
  <2> QED  BY <1>10, <2>1, Zenon
<1> HIDE DEF w
<1>6. /\ w \o d \in Texts(8)
      /\ Joined(w \o d, w, d, 6)
  <2>1. /\ w \o d \in Texts(6 + 2)
        /\ Joined(w \o d, w, d, 6)
    BY <1>0, <1>1, <1>5, SaysJoin, Zenon
  <2> QED  BY <1>10, <2>1, Zenon
<1>7. Time(t) \in Texts(8)  BY <1>2, <1>6
<1>8. ASSUME NEW x \in Nat, NEW y \in Nat
      PROVE  Says(Time(t), x, y)
               = Says(a, x, y) \o Says(p, x + 2, y) \o Says(b, x + 3, y)
                 \o Says(p, x + 5, y) \o Says(d, x + 6, y)
  <2>1. Says(Time(t), x, y) = Says(w, x, y) \o Says(d, x + 6, y)
    BY <1>2, <1>6, Zenon DEF Joined
  <2>2. Says(w, x, y) = Says(v, x, y) \o Says(p, x + 5, y)  BY <1>5, Zenon DEF Joined
  <2>3. Says(v, x, y) = Says(u, x, y) \o Says(b, x + 3, y)
    BY <1>4, Zenon DEF Joined
  <2>4. Says(u, x, y) = Says(a, x, y) \o Says(p, x + 2, y)
    BY <1>3, Zenon DEF Joined
  <2> QED  BY <2>1, <2>2, <2>3, <2>4, Zenon
<1>9. Time(t) \in Seq(CharSet) /\ Len(Time(t)) = 8  BY <1>7 DEF Texts
<1> QED  BY <1>8, <1>9, Zenon DEF a, b, d, p

(* print_formatted_time writes the eight letters of the time.              *)
LEMMA FormattedTimeSays ==
  ASSUME NEW t \in TimeRange, NEW x \in Nat, NEW y \in Nat, x + 8 <= Width
  PROVE  print_formatted_time(t, x, y) = Says(Time(t), x, y)
<1>1. t[1] \in 0 .. 59 /\ t[2] \in 0 .. 59 /\ t[3] \in 0 .. 59  BY DEF TimeRange
<1>2. /\ x + 2 \in Nat /\ x + 3 \in Nat /\ x + 5 \in Nat /\ x + 6 \in Nat
      /\ x + 2 <= Width /\ (x + 3) + 2 <= Width /\ (x + 6) + 2 <= Width
  BY Sizes
<1>3. /\ TwoDigits(t[1], x, y) = Says(Digits(t[1], 2), x, y)
      /\ TwoDigits(t[2], x + 3, y) = Says(Digits(t[2], 2), x + 3, y)
      /\ TwoDigits(t[3], x + 6, y) = Says(Digits(t[3], 2), x + 6, y)
  BY <1>1, <1>2, TwoDigitsSays
<1>4. /\ putc(":", x + 2, y) = Says(<<":">>, x + 2, y)
      /\ putc(":", x + 5, y) = Says(<<":">>, x + 5, y)
  <2>1. ":" \in CharSet  BY DEF CharSet
  <2> QED  BY <1>2, <2>1, PutcSays
<1>5. Says(Time(t), x, y)
        = Says(Digits(t[1], 2), x, y) \o Says(<<":">>, x + 2, y)
          \o Says(Digits(t[2], 2), x + 3, y) \o Says(<<":">>, x + 5, y)
          \o Says(Digits(t[3], 2), x + 6, y)
  BY TimeIs
<1> QED  BY <1>3, <1>4, <1>5, Zenon DEF print_formatted_time

-----------------------------------------------------------------------------
(* The clock.                                                              *)

Place(i) == Offset(ClockCol + i - 1, ClockRow)

LEMMA PlaceIs ==
  ASSUME NEW i \in 1 .. 8
  PROVE  /\ Place(i) \in Cell /\ Place(i) \in ClockCells
         /\ Place(i) = Offset(ClockCol, ClockRow) + i - 1
<1>1. /\ i - 1 \in 0 .. 7 /\ i - 1 \in Nat /\ ClockCol + i - 1 = ClockCol + (i - 1)
  BY Sizes
<1>2. Place(i) = Offset(ClockCol, ClockRow) + (i - 1)
      /\ Offset(ClockCol, ClockRow) \in Nat
  <2>1. ClockCol \in Nat /\ ClockRow \in Nat  BY Sizes
  <2> QED  BY <1>1, <2>1, OffsetIs DEF Place
<1>3. Place(i) \in ClockCells  BY <1>1 DEF Place, ClockCells
<1>4. Place(i) \in Cell
  <2> DEFINE w == Width * Height
             r == ClockRow * Width
  <2>1. r \in Nat /\ w = r + Width  BY Sizes, Products
  <2>2. Offset(ClockCol, ClockRow) = r + ClockCol  BY DEF Offset
  <2> HIDE DEF w, r
  <2>3. Place(i) \in 0 .. w - 1  BY <1>1, <1>2, <2>1, <2>2, Sizes
  <2> QED  BY <2>3 DEF Cell, w
<1> QED  BY <1>1, <1>2, <1>3, <1>4

(* The letter of the clock that is in its i-th cell: of the time being     *)
(* painted, if main() has come so far in this pass, and of the one before  *)
(* otherwise.                                                              *)
Painted == IF pc = "time" THEN 8 ELSE 8 - Len(todo)

ClockInv ==
  /\ hms \in TimeRange /\ shown \in TimeRange
  /\ todo \in Seq(Write) /\ Len(todo) <= 8
  /\ pc # "paint" => Len(todo) = 0
  /\ \A i \in 1 .. Len(todo) :
       todo[i] = <<Place(8 - Len(todo) + i), Time(hms)[8 - Len(todo) + i]>>
  /\ \A i \in 1 .. 8 :
       Place(i) \notin disturbed =>
         screen[Place(i)] = Time(IF i <= Painted THEN hms ELSE shown)[i]

LEMMA ClockInvImplies == ClockInv => ClockWhole
BY Zenon DEF ClockInv, ClockWhole, Painted, Place

LEMMA ClocksInRange == Clocks \subseteq TimeRange
BY ScreenAssumption DEF TimeRange

(* What the handler does to the clock.                                     *)
LEMMA PaintsPreserve ==
  ASSUME ClockInv,
         \E writes, meant : HandlerPaints(writes, meant)
  PROVE  ClockInv'
<1>1. PICK all :
        /\ screen' = Written(screen, all)
        /\ disturbed' = disturbed \cup (Places(all) \cap ClockCells)
        /\ UNCHANGED mainVars
  BY Zenon DEF HandlerPaints
<1>2. UNCHANGED <<pc, hms, todo, shown>> /\ Painted' = Painted
  BY <1>1 DEF mainVars, Painted
<1>3. ASSUME NEW i \in 1 .. 8, Place(i) \notin disturbed'
      PROVE  screen'[Place(i)] = Time(IF i <= Painted THEN hms ELSE shown)[i]
  <2>1. Place(i) \in Cell /\ Place(i) \in ClockCells  BY PlaceIs
  <2>2. Place(i) \notin disturbed /\ Place(i) \notin Places(all)  BY <1>1, <1>3, <2>1
  <2>3. screen'[Place(i)] = screen[Place(i)]  BY <1>1, <2>1, <2>2, Untouched
  <2> QED  BY <2>2, <2>3 DEF ClockInv
<1> QED  BY <1>2, <1>3, Zenon DEF ClockInv

LEMMA ClockInitially == Init => ClockInv
<1> SUFFICES ASSUME Init PROVE ClockInv  OBVIOUS
<1>1. hms \in TimeRange /\ shown \in TimeRange  BY ClocksInRange DEF Init
<1>2. todo \in Seq(Write) /\ Len(todo) = 0 /\ pc = "time"  BY DEF Init
<1>3. \A i \in 1 .. 8 : Place(i) \in disturbed  BY PlaceIs DEF Init
<1> QED  BY <1>1, <1>2, <1>3 DEF ClockInv

LEMMA GetTimeClock == ClockInv /\ GetTime => ClockInv'
<1> SUFFICES ASSUME ClockInv, GetTime PROVE ClockInv'  OBVIOUS
<1>1. hms' \in TimeRange /\ shown' = hms /\ hms \in TimeRange
  BY ClocksInRange DEF GetTime, ClockInv
<1>2. todo' = Says(Time(hms'), ClockCol, ClockRow)
  <2>1. todo' = print_formatted_time(hms', ClockCol, ClockRow)  BY DEF GetTime
  <2>2. ClockCol \in Nat /\ ClockRow \in Nat /\ ClockCol + 8 <= Width  BY Sizes
  <2> QED  BY <1>1, <2>1, <2>2, FormattedTimeSays
<1>3. Time(hms') \in Seq(CharSet) /\ Len(Time(hms')) = 8  BY <1>1, TimeIs
<1>4. /\ todo' \in Seq(Write) /\ Len(todo') = 8
      /\ \A i \in 1 .. 8 : todo'[i] = <<Place(i), Time(hms')[i]>>
  <2>1. ClockCol \in Nat /\ ClockRow \in Nat  BY Sizes
  <2>2. /\ todo' \in Seq(Write) /\ Len(todo') = Len(Time(hms'))
        /\ \A i \in 1 .. Len(Time(hms')) :
             todo'[i] = <<Offset(ClockCol, ClockRow) + i - 1, Time(hms')[i]>>
    BY <1>2, <1>3, <2>1, SaysIs
  <2> QED  BY <1>3, <2>2, PlaceIs
<1>5. Painted = 8 /\ Painted' = 0 /\ pc' = "paint"
  <2>1. pc = "time" /\ pc' = "paint"  BY DEF GetTime
  <2> QED  BY <1>4, <2>1 DEF Painted
<1>6. \A i \in 1 .. 8 : Place(i) \notin disturbed' =>
        screen'[Place(i)] = Time(IF i <= Painted' THEN hms' ELSE shown')[i]
  <2> TAKE i \in 1 .. 8
  <2>1. disturbed' = disturbed /\ screen' = screen  BY DEF GetTime
  <2>2. i <= Painted /\ ~ (i <= Painted')  BY <1>5
  <2>3. Place(i) \notin disturbed => screen[Place(i)] = Time(hms)[i]
    BY <2>2 DEF ClockInv
  <2> QED  BY <1>1, <2>1, <2>2, <2>3
<1>7. \A i \in 1 .. Len(todo') :
        todo'[i] = <<Place(8 - Len(todo') + i), Time(hms')[8 - Len(todo') + i]>>
  <2> TAKE i \in 1 .. Len(todo')
  <2>1. 8 - Len(todo') + i = i /\ i \in 1 .. 8  BY <1>4
  <2> QED  BY <1>4, <2>1
<1>8. shown' \in TimeRange /\ Len(todo') <= 8 /\ ~ (pc' # "paint")
  BY <1>1, <1>4, <1>5
<1> QED  BY <1>1, <1>4, <1>6, <1>7, <1>8, Zenon DEF ClockInv

LEMMA PaintClockClock == ClockInv /\ PaintClock => ClockInv'
<1> SUFFICES ASSUME ClockInv, PaintClock PROVE ClockInv'  OBVIOUS
<1> DEFINE n == Len(todo)
           p == 9 - n
<1>1. /\ todo \in Seq(Write) /\ n \in 1 .. 8 /\ todo # << >>
      /\ pc = "paint" /\ pc' = "paint"
      /\ UNCHANGED <<hms, shown>> /\ hms \in TimeRange /\ shown \in TimeRange
  <2>1. /\ todo \in Seq(Write) /\ n <= 8 /\ todo # << >>
        /\ hms \in TimeRange /\ shown \in TimeRange
    BY Zenon DEF ClockInv, PaintClock
  <2>2. n \in 1 .. 8
    <3>1. n \in Nat /\ n # 0  BY <2>1, EmptySeq
    <3> HIDE DEF n
    <3> QED  BY <2>1, <3>1
  <2>3. pc = "paint" /\ pc' = "paint" /\ UNCHANGED <<hms, shown>>
    BY DEF PaintClock
  <2> QED  BY <2>1, <2>2, <2>3
<1>2. /\ todo' = Tail(todo) /\ todo' \in Seq(Write) /\ Len(todo') = n - 1
      /\ \A i \in 1 .. n - 1 : todo'[i] = todo[i + 1]
      /\ Head(todo) = todo[1]
  BY <1>1 DEF PaintClock
<1>3. todo[1] = <<Place(p), Time(hms)[p]>> /\ p \in 1 .. 8
  <2>1. 1 \in 1 .. n /\ 8 - n + 1 = p /\ p \in 1 .. 8
    <3> HIDE DEF n
    <3> QED  BY <1>1
  <2>2. todo[1] = <<Place(8 - n + 1), Time(hms)[8 - n + 1]>>
    BY <2>1 DEF ClockInv
  <2> QED  BY <2>1, <2>2
<1>4. \A i \in 1 .. Len(todo') :
        todo'[i] = <<Place(8 - Len(todo') + i), Time(hms')[8 - Len(todo') + i]>>
  <2> TAKE i \in 1 .. Len(todo')
  <2>1. i \in 1 .. n - 1 /\ i + 1 \in 1 .. n
        /\ 8 - n + (i + 1) = 8 - Len(todo') + i
    BY <1>1, <1>2
  <2>2. todo[i + 1] = <<Place(8 - n + (i + 1)), Time(hms)[8 - n + (i + 1)]>>
    BY <2>1 DEF ClockInv
  <2> QED  BY <1>1, <1>2, <2>1, <2>2
<1>5. Painted = p - 1 /\ Painted' = p
  BY <1>1, <1>2 DEF Painted
<1> HIDE DEF n, p
<1>6. ASSUME NEW i \in 1 .. 8, Place(i) \notin disturbed'
      PROVE  screen'[Place(i)] = Time(IF i <= Painted' THEN hms' ELSE shown')[i]
  <2>1. Place(i) \in Cell  BY PlaceIs
  <2>2. /\ screen' = Written(screen, <<todo[1]>>)
        /\ disturbed' = disturbed \ {todo[1][1]}
    BY <1>2 DEF PaintClock
  <2>4. screen'[Place(i)] = IF Place(i) = todo[1][1] THEN todo[1][2]
                            ELSE screen[Place(i)]
    BY <2>1, <2>2, WrittenOne
  <2>5. CASE i = p
    <3>1. screen'[Place(i)] = Time(hms)[p]  BY <1>3, <2>4, <2>5
    <3>2. i <= Painted'  BY <1>3, <1>5, <2>5
    <3> QED  BY <1>1, <2>5, <3>1, <3>2
  <2>6. CASE i # p
    <3>1. Place(i) # Place(p)
      <4>1. Offset(ClockCol, ClockRow) \in Nat  BY Sizes, OffsetIs
      <4>2. Place(i) = Offset(ClockCol, ClockRow) + i - 1
            /\ Place(p) = Offset(ClockCol, ClockRow) + p - 1
        BY <1>3, PlaceIs
      <4> QED  BY <1>3, <2>6, <4>1, <4>2
    <3>2. screen'[Place(i)] = screen[Place(i)] /\ Place(i) \notin disturbed
      BY <1>3, <1>6, <2>2, <2>4, <3>1
    <3>3. i <= Painted <=> i <= Painted'  BY <1>3, <1>5, <2>6
    <3>4. screen[Place(i)] = Time(IF i <= Painted THEN hms ELSE shown)[i]
      BY <3>2 DEF ClockInv
    <3> QED  BY <1>1, <3>2, <3>3, <3>4
  <2> QED  BY <2>5, <2>6
<1>7. Len(todo') <= 8 /\ ~ (pc' # "paint")  BY <1>1, <1>2
<1>8. hms' \in TimeRange /\ shown' \in TimeRange  BY <1>1
<1> QED  BY <1>2, <1>4, <1>6, <1>7, <1>8, Zenon DEF ClockInv

LEMMA DrawClock == ClockInv /\ draw_cursor => ClockInv'
<1> SUFFICES ASSUME ClockInv, draw_cursor PROVE ClockInv'  OBVIOUS
<1> DEFINE place == Offset(arg[1], arg[2])
           char == IF show THEN Bar ELSE Blank
<1>1. /\ screen' = Written(screen, <<<<place, char>>>>)
      /\ disturbed' = disturbed \cup ({place} \cap ClockCells)
      /\ pc = "draw" /\ pc' = "time" /\ UNCHANGED <<hms, todo, shown>>
  BY Zenon DEF draw_cursor
<1>2. Len(todo) = 0 /\ Painted = 8 /\ Painted' = 8
  <2>1. Len(todo) = 0  BY <1>1 DEF ClockInv
  <2> QED  BY <1>1, <2>1 DEF Painted
<1> HIDE DEF place, char
<1>3. ASSUME NEW i \in 1 .. 8, Place(i) \notin disturbed'
      PROVE  screen'[Place(i)] = Time(IF i <= Painted THEN hms ELSE shown)[i]
  <2>1. Place(i) \in Cell /\ Place(i) \in ClockCells  BY PlaceIs
  <2>2. Place(i) \notin disturbed /\ Place(i) # place  BY <1>1, <1>3, <2>1
  <2> DEFINE all == <<<<place, char>>>>
  <2>3. Place(i) \notin Places(all)
    <3>1. Places(<<<<place, char>>>>) = {<<place, char>>[1]}  BY PlacesOne, Zenon
    <3>2. <<place, char>>[1] = place  OBVIOUS
    <3> QED  BY <2>2, <3>1, <3>2
  <2>4. screen' = Written(screen, all)  BY <1>1
  <2> HIDE DEF all
  <2>5. screen'[Place(i)] = screen[Place(i)]  BY <2>1, <2>3, <2>4, Untouched
  <2> QED  BY <2>2, <2>5 DEF ClockInv
<1>4. /\ hms' = hms /\ shown' = shown /\ todo' = todo /\ pc' # "paint"
  BY <1>1
<1> QED  BY <1>2, <1>3, <1>4, Zenon DEF ClockInv

(* The other steps of main() leave the clock alone.                        *)
LEMMA BlinkClock == ClockInv /\ (Blink \/ ReadArgs) => ClockInv'
<1> SUFFICES ASSUME ClockInv, Blink \/ ReadArgs PROVE ClockInv'  OBVIOUS
<1>1. /\ UNCHANGED <<hms, todo, shown, screen, disturbed>> /\ pc' # "paint"
      /\ todo = << >> \/ pc # "paint"
  BY DEF Blink, ReadArgs
<1>2. Len(todo) = 0  BY <1>1 DEF ClockInv
<1>3. Painted' = Painted  BY <1>1, <1>2 DEF Painted
<1> QED  BY <1>1, <1>2, <1>3, Zenon DEF ClockInv

LEMMA ClearClock == ClockInv /\ ClearCommand => ClockInv'
<1> SUFFICES ASSUME ClockInv, ClearCommand PROVE ClockInv'  OBVIOUS
<1>1. disturbed' = ClockCells /\ UNCHANGED <<pc, hms, todo, shown>>
  BY DEF ClearCommand, mainVars
<1>2. \A i \in 1 .. 8 : Place(i) \in disturbed'  BY <1>1, PlaceIs
<1> QED  BY <1>1, <1>2, Zenon DEF ClockInv

LEMMA ClockStep == ClockInv /\ [Next]_screenVars => ClockInv'
<1> SUFFICES ASSUME ClockInv, [Next]_screenVars PROVE ClockInv'  OBVIOUS
<1>1. CASE GetTime  BY <1>1, GetTimeClock
<1>2. CASE PaintClock  BY <1>2, PaintClockClock
<1>3. CASE Blink \/ ReadArgs  BY <1>3, BlinkClock
<1>4. CASE draw_cursor  BY <1>4, DrawClock
<1>5. CASE TypeLetter
  <2>1. \E writes, meant : HandlerPaints(writes, meant)
    BY <1>5, Zenon DEF TypeLetter
  <2> QED  BY <2>1, PaintsPreserve
<1>6. CASE Erase
  <2>1. \E writes, meant : HandlerPaints(writes, meant)  BY <1>6, Zenon DEF Erase
  <2> QED  BY <2>1, PaintsPreserve
<1>7. CASE TimeCommand \/ FreeCommand \/ StellarPrints
  <2>1. \E writes, meant : HandlerPaints(writes, meant)
    BY <1>7, Zenon DEF TimeCommand, FreeCommand, StellarPrints, Enter
  <2> QED  BY <2>1, PaintsPreserve
<1>8. CASE ClearCommand  BY <1>8, ClearClock
<1>9. CASE UNCHANGED screenVars
  <2>1. UNCHANGED <<pc, hms, todo, shown, screen, disturbed>>
    BY <1>9 DEF screenVars, mainVars
  <2> QED  BY <2>1 DEF ClockInv, Painted
<1> QED  BY <1>1, <1>2, <1>3, <1>4, <1>5, <1>6, <1>7, <1>8, <1>9
         DEF Next, Main, Handler

(* Between two passes of main() the clock shows one time, and during a     *)
(* pass the new one in the cells before the one to be painted next and the *)
(* old one in the others, whenever and whatever the handler prints, but    *)
(* for the cells that something else was written upon.                     *)
THEOREM ClockIsWhole == Spec => []ClockWhole
<1>1. Init => ClockInv  BY ClockInitially
<1>2. ClockInv /\ [Next]_screenVars => ClockInv'  BY ClockStep
<1>3. ClockInv => ClockWhole  BY ClockInvImplies
<1> QED  BY <1>1, <1>2, <1>3, PTL DEF Spec

-----------------------------------------------------------------------------
(* The decimals of a double.                                               *)

LEMMA DecimalsIs ==
  ASSUME NEW f \in 0 .. Denominator - 1
  PROVE  Decimals(f) =
           [i \in 1 .. Precision |->
              DigitChar((((f * Power[i - 1]) % Denominator) * 10) \div Denominator)]
<1> DEFINE D == Denominator
           Is(g) == g = [i \in 0 .. Precision |->
                           IF i = 0 THEN f ELSE (g[i - 1] * 10) % D]
           Out(g) == [i \in 1 .. Precision |-> DigitChar((g[i - 1] * 10) \div D)]
           h == [i \in 0 .. Precision |-> (f * Power[i]) % D]
           rest == CHOOSE g : Is(g)
<1>0. D \in Nat \ {0} /\ Precision \in Nat /\ f \in Nat /\ f < D
  BY ScreenAssumption
<1>1. Decimals(f) = Out(rest)  BY DEF Decimals
<1> HIDE DEF D
<1>2. \A k \in Nat : ((f * Power[k]) % D) * 10 \in Nat
        /\ (((f * Power[k]) % D) * 10) % D = (f * Power[k + 1]) % D
  <2> TAKE k \in Nat
  <2> DEFINE y == f * Power[k]
             u == y \div D
             r == y % D
             v == (r * 10) \div D
             w == (r * 10) % D
  <2>1. Power[k] \in Nat /\ Power[k + 1] = 10 * Power[k]  BY PowerPositive
  <2>2. y \in Nat  BY <1>0, <2>1, Products
  <2>3. f * Power[k + 1] = 10 * y
    <3>1. \A a, b \in Nat : a * (10 * b) = 10 * (a * b)  OBVIOUS
    <3> QED  BY <1>0, <2>1, <3>1
  <2> HIDE DEF y
  <2>4. u \in Nat /\ r \in 0 .. D - 1 /\ y = D * u + r  BY <1>0, <2>2
  <2> HIDE DEF u, r
  <2>5. v \in Nat /\ w \in 0 .. D - 1 /\ r * 10 = D * v + w  BY <1>0, <2>4
  <2> HIDE DEF v, w
  <2>6. 10 * y = D * (10 * u + v) + w
    <3>1. D * (10 * u + v) = 10 * (D * u) + D * v /\ D * u \in Nat /\ D * v \in Nat
      BY <1>0, <2>4, <2>5, Products
    <3> QED  BY <2>4, <2>5, <3>1
  <2>7. (10 * y) % D = w
    <3>1. 10 * u + v \in Int  BY <2>4, <2>5
    <3> QED  BY <1>0, <2>5, <2>6, <3>1, DivisionUnique
  <2>8. r * 10 \in Nat  BY <2>4
  <2> QED  BY <2>3, <2>7, <2>8 DEF r, w, y
<1>3. Is(h)
  <2>1. h[0] = f
    <3>1. f * Power[0] = D * 0 + f /\ f \in 0 .. D - 1  BY <1>0, PowerIs
    <3>2. (f * Power[0]) % D = f  BY <1>0, <3>1, DivisionUnique
    <3> QED  BY <1>0, <3>2
  <2>2. ASSUME NEW i \in 1 .. Precision PROVE h[i] = (h[i - 1] * 10) % D
    <3>1. i - 1 \in Nat /\ (i - 1) + 1 = i /\ i \in 0 .. Precision
          /\ i - 1 \in 0 .. Precision
      BY <1>0
    <3>2. (((f * Power[i - 1]) % D) * 10) % D = (f * Power[i]) % D  BY <1>2, <3>1
    <3> QED  BY <3>1, <3>2
  <2>3. \A i \in 0 .. Precision : i = 0 \/ i \in 1 .. Precision  BY <1>0
  <2>4. \A i \in 0 .. Precision :
          h[i] = IF i = 0 THEN f ELSE (h[i - 1] * 10) % D
    BY <2>1, <2>2, <2>3
  <2>5. h = [i \in 0 .. Precision |-> h[i]]  OBVIOUS
  <2> QED  BY <2>4, <2>5
<1>4. Is(rest)
  <2> HIDE DEF Is, h
  <2> QED  BY <1>3
<1> HIDE DEF rest
<1>5. \A i \in Nat : i <= Precision => rest[i] = (f * Power[i]) % D
  <2> DEFINE T == {i \in Nat : i <= Precision => rest[i] = (f * Power[i]) % D}
  <2>1. ASSUME NEW i \in Nat, \A j \in 0 .. i - 1 : j \in T PROVE i \in T
    <3> SUFFICES ASSUME i <= Precision PROVE rest[i] = (f * Power[i]) % D  OBVIOUS
    <3>1. i \in 0 .. Precision  OBVIOUS
    <3>2. rest[i] = IF i = 0 THEN f ELSE (rest[i - 1] * 10) % D  BY <1>4, <3>1
    <3>3. h[i] = IF i = 0 THEN f ELSE (h[i - 1] * 10) % D  BY <1>3, <3>1
    <3>4. CASE i = 0  BY <3>1, <3>2, <3>3, <3>4
    <3>5. CASE i # 0
      <4>1. i - 1 \in 0 .. i - 1 /\ i - 1 <= Precision /\ i - 1 \in 0 .. Precision
        BY <1>0, <3>5
      <4>2. rest[i - 1] = (f * Power[i - 1]) % D  BY <2>1, <4>1
      <4>3. h[i - 1] = (f * Power[i - 1]) % D /\ h[i] = (f * Power[i]) % D
        BY <3>1, <4>1
      <4> QED  BY <3>2, <3>3, <3>5, <4>2, <4>3
    <3> QED  BY <3>4, <3>5
  <2> HIDE DEF T
  <2>2. Nat \subseteq T  BY <2>1, Induction
  <2> QED  BY <2>2 DEF T
<1>6. \A i \in 1 .. Precision : rest[i - 1] = (f * Power[i - 1]) % D
  <2> TAKE i \in 1 .. Precision
  <2>1. i - 1 \in Nat /\ i - 1 <= Precision  BY <1>0
  <2> QED  BY <1>5, <2>1
<1> QED  BY <1>1, <1>6 DEF D

(* A factor taken in and out again cancels.                                *)
LEMMA Cancels ==
  ASSUME NEW x \in Nat, NEW d \in Nat \ {0}, NEW b \in Nat \ {0}
  PROVE  ((x * b) \div d) \div b = x \div d
<1> DEFINE n == x * b
<1>1. n \in Nat  BY Products
<1>2. n \div b = x
  <2>1. n = b * x + 0 /\ 0 \in 0 .. b - 1 /\ x \in Int  OBVIOUS
  <2> QED  BY <2>1, DivisionUnique
<1>3. d * b = b * d  OBVIOUS
<1> HIDE DEF n
<1>4. (n \div d) \div b = n \div (d * b)  BY <1>1, Twice
<1>5. (n \div b) \div d = n \div (b * d)  BY <1>1, Twice
<1>6. (n \div d) \div b = x \div d  BY <1>2, <1>3, <1>4, <1>5
<1> QED  BY <1>6 DEF n

(* They are the last digits of the number times Power[Precision].          *)
LEMMA ScaledDigit ==
  ASSUME NEW m \in Nat, NEW i \in 1 .. Precision
  PROVE  (((m * Power[Precision]) \div Denominator) \div Power[Precision - i]) % 10
           = ((((m % Denominator) * Power[i - 1]) % Denominator) * 10) \div Denominator
<1> DEFINE D == Denominator
           a == Power[i]
           b == Power[Precision - i]
           c == Power[i - 1]
           x == m * a
<1>0. D \in Nat \ {0} /\ Precision \in Nat  BY ScreenAssumption
<1>1. /\ a \in Nat \ {0} /\ b \in Nat \ {0} /\ c \in Nat \ {0} /\ a = 10 * c
      /\ Power[Precision] = a * b
  <2>1. /\ i \in Nat \ {0} /\ i - 1 \in Nat /\ Precision - i \in Nat
        /\ i + (Precision - i) = Precision /\ (i - 1) + 1 = i
    BY <1>0
  <2>2. Power[i + (Precision - i)] = Power[i] * Power[Precision - i]
    BY <2>1, PowerSum
  <2>3. /\ Power[i] \in Nat \ {0} /\ Power[Precision - i] \in Nat \ {0}
        /\ Power[i - 1] \in Nat \ {0}
    BY <2>1, PowerPositive
  <2>4. Power[i] = 10 * Power[i - 1]  BY <2>1, PowerIs
  <2> QED  BY <2>1, <2>2, <2>3, <2>4
<1> HIDE DEF D, a, b, c
<1>2. x \in Nat /\ x * b \in Nat /\ m * Power[Precision] = x * b
  <2>1. \A u, v, w \in Nat : u * (v * w) = (u * v) * w  OBVIOUS
  <2> QED  BY <1>1, <2>1, Products
<1> HIDE DEF x
<1>3. ((x * b) \div D) \div b = x \div D  BY <1>0, <1>1, <1>2, Cancels
<1> DEFINE q == m \div D
           f == m % D
           y == f * c
           u == y \div D
           r == y % D
           v == (r * 10) \div D
           w == (r * 10) % D
<1>4. q \in Nat /\ f \in 0 .. D - 1 /\ m = D * q + f  BY <1>0
<1> HIDE DEF q, f
<1>5. y \in Nat  BY <1>1, <1>4, Products
<1> HIDE DEF y
<1>6. u \in Nat /\ r \in 0 .. D - 1 /\ y = D * u + r  BY <1>0, <1>5
<1> HIDE DEF u, r
<1>7. v \in Nat /\ w \in 0 .. D - 1 /\ r * 10 = D * v + w  BY <1>0, <1>6
<1> HIDE DEF v, w
<1>8. v \in 0 .. 9
  <2> SUFFICES ASSUME v >= 10 PROVE FALSE  BY <1>7
  <2>1. v - 10 \in Nat  BY <1>7
  <2>2. D * (v - 10) \in Nat /\ D * v = D * (v - 10) + D * 10
    BY <1>0, <1>7, <2>1, Products
  <2> QED  BY <1>0, <1>6, <1>7, <2>2
<1> DEFINE k == q * c
<1>9. k \in Nat  BY <1>1, <1>4, Products
<1>10. x = D * (10 * (k + u) + v) + w
  <2>1. x = (D * q + f) * (10 * c)  BY <1>1, <1>4 DEF x
  <2>2. (D * q + f) * (10 * c) = 10 * (D * (q * c)) + 10 * (f * c)
    <3>1. \A d, e, g, j \in Nat :
            (d * e + g) * (10 * j) = 10 * (d * (e * j)) + 10 * (g * j)
      OBVIOUS
    <3> QED  BY <1>0, <1>1, <1>4, <3>1
  <2> HIDE DEF k
  <2>3. x = 10 * (D * k) + 10 * y  BY <2>1, <2>2 DEF y, k
  <2>4. D * (10 * (k + u) + v) = 10 * (D * k) + 10 * (D * u) + D * v
        /\ D * k \in Nat /\ D * u \in Nat /\ D * v \in Nat
    <3>1. \A d, e, g, j \in Nat :
            d * (10 * (e + g) + j) = 10 * (d * e) + 10 * (d * g) + d * j
      OBVIOUS
    <3> QED  BY <1>0, <1>6, <1>7, <1>9, <3>1, Products
  <2> QED  BY <1>6, <1>7, <2>3, <2>4
<1> HIDE DEF k
<1>11. x \div D = 10 * (k + u) + v
  <2>1. 10 * (k + u) + v \in Int  BY <1>6, <1>7, <1>9
  <2> QED  BY <1>0, <1>7, <1>10, <2>1, DivisionUnique
<1>12. (10 * (k + u) + v) % 10 = v
  <2>1. k + u \in Int /\ 10 \in Nat \ {0} /\ v \in 0 .. 10 - 1  BY <1>6, <1>8, <1>9
  <2> QED  BY <2>1, DivisionUnique
<1> QED  BY <1>2, <1>3, <1>11, <1>12 DEF D, b, v, r, y, f, c

(* The digits after the point.                                             *)
LEMMA FractionIs ==
  ASSUME NEW m \in Nat
  PROVE  Decimals(m % Denominator)
           = Digits((m * Power[Precision]) \div Denominator, Precision)
<1>1. m % Denominator \in 0 .. Denominator - 1  BY ScreenAssumption
<1>2. Decimals(m % Denominator) =
        [i \in 1 .. Precision |->
           DigitChar(((((m % Denominator) * Power[i - 1]) % Denominator) * 10)
                       \div Denominator)]
  BY <1>1, DecimalsIs
<1>3. \A i \in 1 .. Precision :
        (((m * Power[Precision]) \div Denominator) \div Power[Precision - i]) % 10
          = ((((m % Denominator) * Power[i - 1]) % Denominator) * 10) \div Denominator
  BY ScaledDigit
<1> QED  BY <1>2, <1>3 DEF Digits

-----------------------------------------------------------------------------
(* Writes that say what is meant: they leave the same on an empty screen,  *)
(* and what they leave out is blank and not above the cell base.           *)

Means(writes, meant, base) ==
  /\ writes \in Seq(Write) /\ meant \in Seq(Write)
  /\ Places(writes) \subseteq Places(meant)
  /\ \A c \in Cell :
       /\ Written(clear_screen, writes)[c] = Written(clear_screen, meant)[c]
       /\ c \in Places(meant) \ Places(writes) => c >= base

LEMMA MeansItself ==
  ASSUME NEW w \in Seq(Write), NEW base
  PROVE  Means(w, w, base)
BY Zenon DEF Means

(* What is left where something is written does not depend on what was     *)
(* there.                                                                  *)
LEMMA WrittenAnywhere ==
  ASSUME NEW a, NEW b, NEW w, NEW c \in Cell, c \in Places(w)
  PROVE  Written(a, w)[c] = Written(b, w)[c]
BY Touched

LEMMA MeansJoin ==
  ASSUME NEW w, NEW m, NEW base, Means(w, m, base), NEW x \in Seq(Write)
  PROVE  Means(w \o x, m \o x, base)
<1>1. w \in Seq(Write) /\ m \in Seq(Write)  BY DEF Means
<1>2. w \o x \in Seq(Write) /\ m \o x \in Seq(Write)  BY <1>1, ConcatProperties
<1>3. /\ Places(w \o x) = Places(w) \cup Places(x)
      /\ Places(m \o x) = Places(m) \cup Places(x)
  BY <1>1, PlacesConcat
<1>4. ASSUME NEW c \in Cell
      PROVE  Written(clear_screen, w \o x)[c] = Written(clear_screen, m \o x)[c]
  <2> DEFINE a == Written(clear_screen, w)
             b == Written(clear_screen, m)
  <2>1. /\ Written(clear_screen, w \o x)[c] = Written(a, x)[c]
        /\ Written(clear_screen, m \o x)[c] = Written(b, x)[c]
    BY <1>1, WrittenConcat
  <2>2. a[c] = b[c]  BY DEF Means
  <2> HIDE DEF a, b
  <2>3. CASE c \in Places(x)
    <3>1. Written(a, x)[c] = Written(b, x)[c]  BY <2>3, WrittenAnywhere
    <3> QED  BY <2>1, <3>1
  <2>4. CASE c \notin Places(x)
    <3>1. Written(a, x)[c] = a[c] /\ Written(b, x)[c] = b[c]  BY <2>4, Untouched
    <3> QED  BY <2>1, <2>2, <3>1
  <2> QED  BY <2>3, <2>4
<1>5. \A c \in Cell : c \in Places(m \o x) \ Places(w \o x) => c >= base
  BY <1>3, Zenon DEF Means
<1>6. Places(w \o x) \subseteq Places(m \o x)  BY <1>3, Zenon DEF Means
<1> QED  BY <1>2, <1>4, <1>5, <1>6, Zenon DEF Means

(* A gap is blank, if nothing was written there.                           *)
LEMMA MeansGap ==
  ASSUME NEW w \in Seq(Write), NEW g \in Int, g \notin Places(w),
         NEW base \in Int, g >= base
  PROVE  Means(w, w \o <<<<g, Blank>>>>, base)
<1> DEFINE e == <<g, Blank>>
           x == <<e>>
<1>1. e \in Write /\ e[1] = g /\ e[2] = Blank  BY DEF Write, CharSet
<1> HIDE DEF e
<1>2. x \in Seq(Write)  BY <1>1
<1>3. Places(x) = {g}  BY <1>1, PlacesOne
<1>4. \A c \in Cell : \A a : Written(a, x)[c] = (IF c = g THEN Blank ELSE a[c])
  <2> TAKE c \in Cell
  <2> TAKE a
  <2>1. Written(a, <<e>>)[c] = (IF c = e[1] THEN e[2] ELSE a[c])  BY WrittenOne
  <2> QED  BY <1>1, <2>1
<1> HIDE DEF x
<1>5. Places(w \o x) = Places(w) \cup {g} /\ w \o x \in Seq(Write)
  BY <1>2, <1>3, PlacesConcat, ConcatProperties
<1>6. ASSUME NEW c \in Cell
      PROVE  Written(clear_screen, w)[c] = Written(clear_screen, w \o x)[c]
  <2> DEFINE a == Written(clear_screen, w)
  <2>1. Written(clear_screen, w \o x)[c] = Written(a, x)[c]  BY <1>2, WrittenConcat
  <2>2. Written(a, x)[c] = (IF c = g THEN Blank ELSE a[c])  BY <1>4
  <2>3. c = g => a[c] = Blank
    <3>1. c = g => a[c] = clear_screen[c]  BY Untouched
    <3>2. clear_screen[c] = Blank  BY DEF clear_screen
    <3> QED  BY <3>1, <3>2
  <2> QED  BY <2>1, <2>2, <2>3
<1>7. \A c \in Cell : c \in Places(w \o x) \ Places(w) => c >= base  BY <1>5
<1>8. Means(w, w \o x, base)  BY <1>5, <1>6, <1>7, Zenon DEF Means
<1> QED  BY <1>8 DEF x, e

LEMMA SaysPlaces ==
  ASSUME NEW s \in Seq(CharSet), NEW x \in Nat, NEW y \in Nat
  PROVE  \A p \in Places(Says(s, x, y)) :
           p \in Nat /\ p >= Offset(x, y) /\ p < Offset(x, y) + Len(s)
<1> DEFINE w == Says(s, x, y)
<1>1. /\ Len(w) = Len(s) /\ Len(s) \in Nat
      /\ \A i \in 1 .. Len(s) : w[i] = <<Offset(x, y) + i - 1, s[i]>>
  BY SaysIs
<1>2. Offset(x, y) \in Nat  BY OffsetIs
<1> HIDE DEF w
<1> SUFFICES ASSUME NEW p \in Places(w)
             PROVE  p \in Nat /\ p >= Offset(x, y) /\ p < Offset(x, y) + Len(s)
  BY DEF w
<1>3. PICK i \in 1 .. Len(s) : p = w[i][1]  BY <1>1 DEF Places
<1>4. p = Offset(x, y) + i - 1  BY <1>1, <1>3
<1> QED  BY <1>1, <1>2, <1>4

(* How long a decimal number is.                                           *)
LEMMA DecimalIs ==
  ASSUME NEW n \in Nat, n < Power[10]
  PROVE  /\ Decimal(n) \in Seq(CharSet) /\ Len(Decimal(n)) \in 1 .. 10
         /\ n = 0 => Len(Decimal(n)) = 1
         /\ n # 0 => Len(Decimal(n)) = Len(LastFirst[n])
<1>1. itoa(n) = Decimal(n)  BY ItoaIsDecimal
<1>2. CASE n = 0
  <2>1. Decimal(n) = <<DigitChar(0)>>  BY <1>1, <1>2 DEF itoa
  <2>2. DigitChar(0) \in CharSet  BY DEF DigitSet, CharSet
  <2> DEFINE d == DigitChar(0)
  <2> HIDE DEF d
  <2>3. <<d>> \in Seq(CharSet) /\ Len(<<d>>) = 1  BY <2>2 DEF d
  <2>4. Decimal(n) \in Seq(CharSet) /\ Len(Decimal(n)) = 1
    BY <2>1, <2>3, Zenon DEF d
  <2> QED  BY <1>2, <2>4
<1>3. CASE n # 0
  <2> DEFINE t == LastFirst[n]
             len == Len(t)
  <2>1. /\ len \in Nat \ {0} /\ Power[len - 1] <= n /\ n < Power[len]
    BY <1>3, LoopYields DEF Yields
  <2>2. t \in Seq(DigitSet)  BY LastFirstIs
  <2> HIDE DEF t
  <2>3. len <= 10
    <3> HIDE DEF len
    <3> SUFFICES ASSUME 10 <= len - 1 PROVE FALSE  BY <2>1
    <3>1. Power[10] <= Power[len - 1]  BY <2>1, PowerGrows
    <3>2. Power[10] \in Nat /\ Power[len - 1] \in Nat  BY <2>1, PowerIs
    <3> QED  BY <2>1, <3>1, <3>2
  <2>4. Decimal(n) = Digits(n, len)
    <3> HIDE DEF len
    <3> QED  BY <2>1, <2>3, DecimalLength
  <2>5. Digits(n, len) \in Seq(CharSet) /\ Len(Digits(n, len)) = len
    <3> HIDE DEF len
    <3> QED  BY <2>1, DigitsIs
  <2>6. len \in 1 .. 10
    <3> HIDE DEF len
    <3> QED  BY <2>1, <2>3
  <2>7. Decimal(n) \in Seq(CharSet) /\ Len(Decimal(n)) = len
    BY <2>4, <2>5, Zenon
  <2>8. len = Len(LastFirst[n])  BY DEF t
  <2> HIDE DEF len
  <2> QED  BY <1>3, <2>6, <2>7, <2>8
<1> QED  BY <1>2, <1>3

LEMMA IntsFit ==
  ASSUME NEW n \in Nat, n < IntMod \div 2
  PROVE  n < Power[10] /\ AsInt(n) = n
<1>1. IntMod \in Nat  BY ScreenAssumption
<1>2. PICK k \in 1 .. 10 : IntMod \div 2 <= Power[k]  BY NumbersAssumption
<1>3. Power[k] <= Power[10] /\ Power[k] \in Nat /\ Power[10] \in Nat
  <2>1. k \in Nat /\ 10 \in Nat /\ k <= 10  OBVIOUS
  <2>2. Power[k] \in Nat /\ Power[10] \in Nat  BY <2>1, PowerIs
  <2>3. Power[k] <= Power[10]  BY <2>1, PowerGrows
  <2> QED  BY <2>2, <2>3
<1> DEFINE h == IntMod \div 2
<1>4. h \in Nat /\ 2 * h <= IntMod  BY <1>1
<1> HIDE DEF h
<1>5. n < h /\ h <= Power[k]  BY <1>2 DEF h
<1>6. (n + h) % IntMod = n + h
  <2>1. n + h \in 0 .. IntMod - 1 /\ IntMod \in Nat \ {0} /\ n + h = IntMod * 0 + (n + h)
    BY <1>1, <1>4, <1>5
  <2> QED  BY <2>1, DivisionUnique
<1> QED  BY <1>3, <1>4, <1>5, <1>6 DEF AsInt, h

-----------------------------------------------------------------------------
(* print_double means the fixed-point number.                              *)

Abs(n) == IF n < 0 THEN -n ELSE n
Sign(n) == IF n < 0 THEN <<"-">> ELSE << >>
Gap(q) == IF q = 0 THEN <<Blank>> ELSE << >>
Fraction(n) == Digits((Abs(n) * Power[Precision]) \div Denominator, Precision)

(* Five texts, one after the other, in the columns they begin at.          *)
SaidInTurn(u, s1, s2, s3, s4, s5, x2, x3, x4, x5, y) ==
  Says(u, 0, y) = Says(s1, 0, y) \o Says(s2, x2, y) \o Says(s3, x3, y)
                  \o Says(s4, x4, y) \o Says(s5, x5, y)

LEMMA FiveJoined ==
  ASSUME NEW k1 \in Nat, NEW k2 \in Nat, NEW k3 \in Nat, NEW k4 \in Nat, NEW k5 \in Nat,
         NEW s1 \in Texts(k1), NEW s2 \in Texts(k2), NEW s3 \in Texts(k3),
         NEW s4 \in Texts(k4), NEW s5 \in Texts(k5), NEW y \in Nat
  PROVE  /\ s1 \o s2 \o s3 \o s4 \o s5 \in Texts((((k1 + k2) + k3) + k4) + k5)
         /\ SaidInTurn(s1 \o s2 \o s3 \o s4 \o s5, s1, s2, s3, s4, s5,
                       k1, k1 + k2, (k1 + k2) + k3, ((k1 + k2) + k3) + k4, y)
<1> DEFINE u == s1 \o s2
           v == u \o s3
           w == v \o s4
<1>1. u \in Texts(k1 + k2) /\ Joined(u, s1, s2, k1) /\ k1 + k2 \in Nat
  BY SaysJoin
<1> HIDE DEF u
<1>2. v \in Texts((k1 + k2) + k3) /\ Joined(v, u, s3, k1 + k2)
      /\ (k1 + k2) + k3 \in Nat
  BY <1>1, SaysJoin
<1> HIDE DEF v
<1>3. w \in Texts(((k1 + k2) + k3) + k4) /\ Joined(w, v, s4, (k1 + k2) + k3)
      /\ ((k1 + k2) + k3) + k4 \in Nat
  BY <1>2, SaysJoin
<1> HIDE DEF w
<1>4. /\ w \o s5 \in Texts((((k1 + k2) + k3) + k4) + k5)
      /\ Joined(w \o s5, w, s5, ((k1 + k2) + k3) + k4)
  BY <1>3, SaysJoin
<1>5. 0 \in Nat /\ 0 + k1 = k1 /\ 0 + (k1 + k2) = k1 + k2
      /\ 0 + ((k1 + k2) + k3) = (k1 + k2) + k3
      /\ 0 + (((k1 + k2) + k3) + k4) = ((k1 + k2) + k3) + k4
  OBVIOUS
<1>6. /\ Says(u, 0, y) = Says(s1, 0, y) \o Says(s2, k1, y)
      /\ Says(v, 0, y) = Says(u, 0, y) \o Says(s3, k1 + k2, y)
      /\ Says(w, 0, y) = Says(v, 0, y) \o Says(s4, (k1 + k2) + k3, y)
      /\ Says(w \o s5, 0, y)
           = Says(w, 0, y) \o Says(s5, ((k1 + k2) + k3) + k4, y)
  <2>1. Says(u, 0, y) = Says(s1, 0, y) \o Says(s2, 0 + k1, y)
    BY <1>1, <1>5, Zenon DEF Joined
  <2>2. Says(v, 0, y) = Says(u, 0, y) \o Says(s3, 0 + (k1 + k2), y)
    BY <1>2, <1>5, Zenon DEF Joined
  <2>3. Says(w, 0, y) = Says(v, 0, y) \o Says(s4, 0 + ((k1 + k2) + k3), y)
    BY <1>3, <1>5, Zenon DEF Joined
  <2>4. Says(w \o s5, 0, y)
          = Says(w, 0, y) \o Says(s5, 0 + (((k1 + k2) + k3) + k4), y)
    BY <1>4, <1>5, Zenon DEF Joined
  <2> QED  BY <1>5, <2>1, <2>2, <2>3, <2>4, Zenon
<1> QED  BY <1>4, <1>6, Zenon DEF u, v, w, SaidInTurn

(* On an empty screen print_double leaves what the fixed-point number      *)
(* would: sign, integral part, point and every decimal, for any number     *)
(* whose integral part fits into an int, of any denominator and precision. *)
THEOREM DoubleMeans ==
  ASSUME NEW n \in Int, NEW y \in Nat, Abs(n) \div Denominator < IntMod \div 2
  PROVE  /\ Means(print_double(n, 0, y), Says(Fixed(n), 0, y), Offset(0, y))
         /\ \A p \in Places(Says(Fixed(n), 0, y)) : p < Offset(0, y) + 2 * Width
<1> DEFINE m == Abs(n)
           q == m \div Denominator
           k1 == IF n < 0 THEN 1 ELSE 0
           k2 == Len(Decimal(q))
           k3 == IF q = 0 THEN 1 ELSE 0
           s1 == Sign(n)
           s2 == Decimal(q)
           s3 == Gap(q)
           s4 == <<".">>
           s5 == Fraction(n)
<1>0. /\ Denominator \in Nat \ {0} /\ Precision \in Nat /\ Width \in Nat \ {0}
      /\ Precision + 12 <= 2 * Width
  BY ScreenAssumption, Sizes
<1>1. m \in Nat  BY DEF Abs
<1> HIDE DEF m
<1>2. q \in Nat /\ q < IntMod \div 2  BY <1>0, <1>1 DEF m
<1> HIDE DEF q
<1>3. q < Power[10] /\ AsInt(q) = q  BY <1>2, IntsFit
<1>4. /\ s2 \in Seq(CharSet) /\ k2 \in 1 .. 10 /\ itoa(q) = s2
      /\ q = 0 => k2 = 1
      /\ q # 0 => k2 = Len(LastFirst[q])
  BY <1>2, <1>3, DecimalIs, ItoaIsDecimal
<1>5. k1 \in 0 .. 1 /\ k3 \in 0 .. 1  OBVIOUS
<1>6. s1 \in Texts(k1)
  <2>1. "-" \in CharSet  BY DEF CharSet
  <2>2. <<"-">> \in Seq(CharSet) /\ Len(<<"-">>) = 1  BY <2>1
  <2>3. << >> \in Seq(CharSet) /\ Len(<< >>) = 0  OBVIOUS
  <2> QED  BY <2>2, <2>3 DEF Sign, Texts
<1>7. s3 \in Texts(k3)
  <2>1. Blank \in CharSet  BY DEF CharSet
  <2>2. <<Blank>> \in Seq(CharSet) /\ Len(<<Blank>>) = 1  BY <2>1
  <2>3. << >> \in Seq(CharSet) /\ Len(<< >>) = 0  OBVIOUS
  <2> HIDE DEF Blank
  <2> QED  BY <2>2, <2>3 DEF Gap, Texts
<1>8. s4 \in Texts(1) /\ "." \in CharSet
  <2>1. "." \in CharSet  BY DEF CharSet
  <2>2. <<".">> \in Seq(CharSet) /\ Len(<<".">>) = 1  BY <2>1
  <2> QED  BY <2>1, <2>2 DEF Texts
<1>9. s5 \in Texts(Precision)
  <2>1. m * Power[Precision] \in Nat  BY <1>0, <1>1, PowerIs, Products
  <2>2. (m * Power[Precision]) \div Denominator \in Nat  BY <1>0, <2>1
  <2> QED  BY <1>0, <2>2, DigitsIs DEF Fraction, Texts, m
<1>10. s2 \in Texts(k2)  BY <1>4 DEF Texts
<1>11. Fixed(n) = s1 \o s2 \o s3 \o s4 \o s5
  BY DEF Fixed, Sign, Gap, Fraction, Abs, m, q
<1> HIDE DEF s1, s2, s3, s4, s5, k1, k2, k3
<1> DEFINE point == (k1 + k2) + k3
<1>12. /\ k1 \in Nat /\ k2 \in Nat /\ k3 \in Nat /\ 1 \in Nat /\ Precision \in Nat
       /\ k1 + k2 \in Nat /\ point \in Nat /\ point + 1 \in Nat
  BY <1>0, <1>4, <1>5
<1>13. /\ Fixed(n) \in Texts((point + 1) + Precision)
       /\ Says(Fixed(n), 0, y)
            = Says(s1, 0, y) \o Says(s2, k1, y) \o Says(s3, k1 + k2, y)
              \o Says(s4, point, y) \o Says(s5, point + 1, y)
  <2>1. /\ s1 \o s2 \o s3 \o s4 \o s5 \in Texts((point + 1) + Precision)
        /\ SaidInTurn(s1 \o s2 \o s3 \o s4 \o s5, s1, s2, s3, s4, s5,
                      k1, k1 + k2, point, point + 1, y)
    BY <1>6, <1>7, <1>8, <1>9, <1>10, <1>12, FiveJoined, Zenon
  <2> QED  BY <1>11, <2>1, Zenon DEF SaidInTurn
<1>14. print_double(n, 0, y)
         = Says(s1, 0, y) \o Says(s2, k1, y) \o Says(s4, point, y)
           \o Says(s5, point + 1, y)
  <2>1. (IF n < 0 THEN putc("-", 0, y) ELSE << >>) = Says(s1, 0, y)
    <3>1. CASE n < 0
      <4>1. "-" \in CharSet /\ 0 \in Nat  BY DEF CharSet
      <4>2. putc("-", 0, y) = Says(<<"-">>, 0, y)  BY <4>1, PutcSays
      <4> QED  BY <3>1, <4>2 DEF s1, Sign
    <3>2. CASE ~ (n < 0)
      <4>1. Says(<< >>, 0, y) = << >>  BY DEF Says
      <4> QED  BY <3>2, <4>1 DEF s1, Sign
    <3> QED  BY <3>1, <3>2
  <2>2. print_int(AsInt(q), k1, y) = Says(s2, k1, y)
    <3>1. s2 \in Seq(CharSet) /\ Len(s2) = k2  BY <1>4 DEF k2, s2
    <3>2. k1 + Len(s2) <= 2 * Width  BY <1>0, <1>4, <1>5, <3>1
    <3>3. print(s2, k1, y) = Says(s2, k1, y)  BY <1>12, <3>1, <3>2, PrintSays
    <3> QED  BY <1>3, <1>4, <3>3, Zenon DEF print_int
  <2>3. putc(".", point, y) = Says(s4, point, y)
    <3> HIDE DEF point
    <3> QED  BY <1>8, <1>12, PutcSays DEF s4
  <2>4. [i \in 1 .. Precision |->
           <<Offset(point + i, y), Decimals(m % Denominator)[i]>>]
          = Says(s5, point + 1, y)
    <3>1. Decimals(m % Denominator) = s5
      BY <1>1, FractionIs DEF s5, Fraction, m
    <3>2. s5 \in Seq(CharSet) /\ Len(s5) = Precision  BY <1>9 DEF Texts
    <3> HIDE DEF point
    <3>3. \A i \in 1 .. Precision : Offset(point + i, y) = Offset(point + 1, y) + i - 1
      <4> TAKE i \in 1 .. Precision
      <4>1. i \in Nat  BY <1>0
      <4>2. /\ Offset(point + i, y) = Offset(point, y) + i
            /\ Offset(point + 1, y) = Offset(point, y) + 1
            /\ Offset(point, y) \in Nat
        <5>1. \A d \in Nat : Offset(point + d, y) = Offset(point, y) + d
          BY <1>12, OffsetIs
        <5>2. Offset(point, y) \in Nat  BY <1>12, OffsetIs
        <5> QED  BY <1>12, <4>1, <5>1, <5>2
      <4> QED  BY <4>1, <4>2
    <3>4. Says(s5, point + 1, y)
            = [i \in 1 .. Precision |-> <<Offset(point + 1, y) + i - 1, s5[i]>>]
      BY <3>2 DEF Says
    <3> QED  BY <3>1, <3>3, <3>4
  <2>5. /\ 0 + k1 = k1
        /\ point = k1 + (IF q = 0 THEN 2 ELSE Len(LastFirst[q]))
    <3>1. q = 0 => k3 = 1  BY DEF k3
    <3>2. q # 0 => k3 = 0  BY DEF k3
    <3>3. CASE q = 0  BY <1>4, <1>12, <3>1, <3>3
    <3>4. CASE q # 0
      <4>1. k2 = Len(LastFirst[q]) /\ k3 = 0  BY <1>4, <3>2, <3>4
      <4> QED  BY <1>12, <3>4, <4>1
    <3> QED  BY <3>3, <3>4
  <2> HIDE DEF point
  <2>6. print_double(n, 0, y)
          = (IF n < 0 THEN putc("-", 0, y) ELSE << >>)
            \o print_int(AsInt(q), 0 + k1, y)
            \o putc(".", 0 + k1 + (IF q = 0 THEN 2 ELSE Len(LastFirst[q])), y)
            \o [i \in 1 .. Precision |->
                  <<Offset(0 + k1 + (IF q = 0 THEN 2 ELSE Len(LastFirst[q])) + i, y),
                    Decimals(m % Denominator)[i]>>]
    BY Zenon DEF print_double, m, q, k1, Abs
  <2> QED  BY <2>1, <2>2, <2>3, <2>4, <2>5, <2>6, Zenon
<1> DEFINE a == Says(s1, 0, y) \o Says(s2, k1, y)
<1>15. /\ a \in Seq(Write)
       /\ \A p \in Places(a) : p < Offset(k1 + k2, y)
  <2>1. s1 \in Seq(CharSet) /\ Len(s1) = k1 /\ s2 \in Seq(CharSet) /\ Len(s2) = k2
    BY <1>6, <1>10 DEF Texts
  <2>2. /\ Says(s1, 0, y) \in Seq(Write)
        /\ \A p \in Places(Says(s1, 0, y)) : p \in Nat /\ p < Offset(0, y) + Len(s1)
    BY <2>1, SaysIs, SaysPlaces
  <2>3. /\ Says(s2, k1, y) \in Seq(Write)
        /\ \A p \in Places(Says(s2, k1, y)) : p \in Nat /\ p < Offset(k1, y) + Len(s2)
    BY <1>12, <2>1, SaysIs, SaysPlaces
  <2>4. Places(a) = Places(Says(s1, 0, y)) \cup Places(Says(s2, k1, y))
        /\ a \in Seq(Write)
    BY <2>2, <2>3, PlacesConcat, ConcatProperties
  <2>5. /\ Offset(k1 + k2, y) = Offset(k1, y) + k2 /\ Offset(k1, y) = Offset(0, y) + k1
        /\ Offset(0, y) \in Nat
    <3>1. \A d \in Nat : Offset(k1 + d, y) = Offset(k1, y) + d  BY <1>12, OffsetIs
    <3>2. \A d \in Nat : Offset(0 + d, y) = Offset(0, y) + d  BY OffsetIs
    <3>3. Offset(0, y) \in Nat  BY OffsetIs
    <3> QED  BY <1>12, <3>1, <3>2, <3>3
  <2>6. ASSUME NEW p \in Places(a) PROVE p < Offset(k1 + k2, y)
    <3>1. CASE p \in Places(Says(s1, 0, y))
      <4>1. p \in Nat /\ p < Offset(0, y) + Len(s1)  BY <2>2, <3>1
      <4> QED  BY <1>12, <2>1, <2>5, <4>1
    <3>2. CASE p \in Places(Says(s2, k1, y))
      <4>1. p \in Nat /\ p < Offset(k1, y) + Len(s2)  BY <2>3, <3>2
      <4> QED  BY <1>12, <2>1, <2>5, <4>1
    <3> QED  BY <2>4, <2>6, <3>1, <3>2
  <2> QED  BY <2>4, <2>6
<1> HIDE DEF a
<1> DEFINE b == Says(s3, k1 + k2, y)
<1>16. Means(a, a \o b, Offset(0, y))
  <2>1. CASE q = 0
    <3>1. s3 = <<Blank>>  BY <2>1 DEF s3, Gap
    <3>2. b = putc(Blank, k1 + k2, y)
      <4>1. Blank \in CharSet  BY DEF CharSet
      <4> QED  BY <1>12, <3>1, <4>1, PutcSays
    <3> DEFINE g == Offset(k1 + k2, y)
    <3>3. g \in Int /\ Offset(0, y) \in Int /\ g >= Offset(0, y)
      <4>1. \A d \in Nat : Offset(0 + d, y) = Offset(0, y) + d  BY OffsetIs
      <4>2. Offset(0, y) \in Nat /\ 0 + (k1 + k2) = k1 + k2
        <5>1. Offset(0, y) \in Nat  BY OffsetIs
        <5> QED  BY <1>12, <5>1
      <4>3. g = Offset(0, y) + (k1 + k2)  BY <1>12, <4>1, <4>2
      <4> QED  BY <1>12, <4>2, <4>3
    <3>4. b = <<<<g, Blank>>>>  BY <3>2 DEF putc
    <3> HIDE DEF g
    <3>5. g \notin Places(a)  BY <1>15, <3>3 DEF g
    <3> QED  BY <1>15, <3>3, <3>4, <3>5, MeansGap
  <2>2. CASE q # 0
    <3>1. s3 = << >>  BY <2>2 DEF s3, Gap
    <3>2. b = << >>  BY <3>1 DEF Says
    <3>3. a \o << >> = a  BY <1>15, ConcatEmptySeq
    <3>4. Means(a, a, Offset(0, y))  BY <1>15, MeansItself
    <3> QED  BY <3>2, <3>3, <3>4
  <2> QED  BY <2>1, <2>2
<1> HIDE DEF b
<1> DEFINE c == Says(s4, point, y)
           d == Says(s5, point + 1, y)
<1>17. c \in Seq(Write) /\ d \in Seq(Write)
  BY <1>8, <1>9, <1>12, SaysIs DEF Texts
<1> HIDE DEF c, d
<1>18. Means(a \o c, a \o b \o c, Offset(0, y))  BY <1>16, <1>17, MeansJoin
<1>19. Means(a \o c \o d, a \o b \o c \o d, Offset(0, y))
  BY <1>17, <1>18, MeansJoin
<1>20. Means(print_double(n, 0, y), Says(Fixed(n), 0, y), Offset(0, y))
  BY <1>13, <1>14, <1>19, Zenon DEF a, b, c, d
<1>21. ASSUME NEW p \in Places(Says(Fixed(n), 0, y))
       PROVE  p < Offset(0, y) + 2 * Width
  <2>1. Fixed(n) \in Seq(CharSet) /\ Len(Fixed(n)) = (point + 1) + Precision
    BY <1>13 DEF Texts
  <2>2. p \in Nat /\ p < Offset(0, y) + Len(Fixed(n)) /\ Offset(0, y) \in Nat
    BY <2>1, SaysPlaces, OffsetIs
  <2>3. point <= 11
    <3>1. CASE q = 0
      <4>1. k2 = 1  BY <1>4, <3>1
      <4> QED  BY <1>5, <4>1
    <3>2. CASE q # 0
      <4>1. k3 = 0  BY <3>2 DEF k3
      <4> QED  BY <1>4, <1>5, <4>1
    <3> QED  BY <3>1, <3>2
  <2> HIDE DEF point
  <2> QED  BY <1>0, <1>12, <2>1, <2>2, <2>3
<1> QED  BY <1>20, <1>21

-----------------------------------------------------------------------------
(* What is shown.  A text may leave a gap, so that it matters that there   *)
(* is nothing below the row of the cursor.                                 *)

RowStart(y) == Offset(0, y)

BelowBlank == \A c \in Cell : c >= RowStart(cursor_y + 1) => text[c] = Blank

OutputInv ==
  /\ cursor_x \in 0 .. Width - 1 /\ cursor_y \in Nat
  /\ BelowBlank /\ OutputShown

(* A step of the handler that says what it means.                          *)
HandlerSays ==
  \E writes, meant :
    /\ HandlerPaints(writes, meant)
    /\ Means(writes, meant, RowStart(cursor_y + 1))
    /\ \A p \in Places(meant) : p < RowStart(cursor_y' + 1)

LEMMA Rows ==
  ASSUME NEW y \in Nat
  PROVE  /\ RowStart(y) \in Nat /\ RowStart(y + 1) = RowStart(y) + Width
         /\ \A x \in 0 .. Width - 1 :
              /\ Offset(x, y) \in Nat /\ RowStart(y) <= Offset(x, y)
              /\ Offset(x, y) < RowStart(y + 1)
         /\ \A z \in Nat : y <= z => RowStart(y) <= RowStart(z)
<1>1. y * Width \in Nat /\ (y + 1) * Width = y * Width + Width /\ Width \in Nat
  BY Sizes, Products
<1>2. ASSUME NEW z \in Nat, y <= z PROVE y * Width <= z * Width
  <2>1. z - y \in Nat  BY <1>2
  <2>2. (z - y) * Width \in Nat  BY <1>1, <2>1, Products
  <2>3. z * Width = y * Width + (z - y) * Width  BY <1>1
  <2>4. z * Width \in Nat  BY <1>1, Products
  <2> QED  BY <1>1, <2>2, <2>3, <2>4
<1>3. \A z \in Nat : z * Width \in Nat /\ RowStart(z) = z * Width
  <2> TAKE z \in Nat
  <2>1. z * Width \in Nat  BY <1>1, Products
  <2> QED  BY <2>1 DEF RowStart, Offset
<1>4. \A z \in Nat : y <= z => RowStart(y) <= RowStart(z)
  BY <1>2, <1>3
<1>5. RowStart(y + 1) = RowStart(y) + Width /\ RowStart(y) \in Nat
  <2>1. y + 1 \in Nat  OBVIOUS
  <2> QED  BY <1>1, <1>3, <2>1
<1>6. ASSUME NEW x \in 0 .. Width - 1
      PROVE  /\ Offset(x, y) \in Nat /\ RowStart(y) <= Offset(x, y)
             /\ Offset(x, y) < RowStart(y + 1)
  <2>1. Offset(x, y) = RowStart(y) + x  BY <1>1, <1>3 DEF Offset
  <2> QED  BY <1>1, <1>5, <2>1
<1> QED  BY <1>4, <1>5, <1>6

LEMMA PaintsShown ==
  ASSUME OutputInv, HandlerSays,
         cursor_x' \in 0 .. Width - 1, cursor_y' \in Nat, cursor_y <= cursor_y'
  PROVE  OutputInv'
<1>1. PICK writes, meant :
        /\ HandlerPaints(writes, meant)
        /\ Means(writes, meant, RowStart(cursor_y + 1))
        /\ \A p \in Places(meant) : p < RowStart(cursor_y' + 1)
  BY DEF HandlerSays
<1> DEFINE p == Cursor
           q == Cursor'
           wipe == <<<<p, Blank>>>>
           bar == <<<<q, Bar>>>>
           clear == <<<<q, Blank>>>>
           all == wipe \o writes \o bar
<1>2. /\ screen' = Written(screen, wipe \o writes \o bar)
      /\ text' = Written(text, wipe \o meant \o clear)
      /\ stale' = stale \ Places(wipe \o writes \o bar)
  BY <1>1, Zenon DEF HandlerPaints
<1>3. writes \in Seq(Write) /\ meant \in Seq(Write)
      /\ Places(writes) \subseteq Places(meant)
  BY <1>1 DEF Means
<1>4. /\ p \in Nat /\ p < RowStart(cursor_y + 1)
      /\ q \in Nat /\ q < RowStart(cursor_y' + 1)
      /\ RowStart(cursor_y + 1) <= RowStart(cursor_y' + 1)
      /\ RowStart(cursor_y + 1) \in Nat /\ RowStart(cursor_y' + 1) \in Nat
  <2>1. cursor_x \in 0 .. Width - 1 /\ cursor_y \in Nat  BY DEF OutputInv
  <2>2. cursor_y + 1 \in Nat /\ cursor_y' + 1 \in Nat
        /\ cursor_y + 1 <= cursor_y' + 1
    <3>1. \A y, z \in Nat : y <= z => y + 1 \in Nat /\ z + 1 \in Nat /\ y + 1 <= z + 1
      OBVIOUS
    <3> QED  BY <2>1, <3>1, Zenon
  <2>3. Offset(cursor_x, cursor_y) \in Nat
        /\ Offset(cursor_x, cursor_y) < RowStart(cursor_y + 1)
    BY <2>1, Rows
  <2>4. Offset(cursor_x', cursor_y') \in Nat
        /\ Offset(cursor_x', cursor_y') < RowStart(cursor_y' + 1)
    BY Rows
  <2>5. RowStart(cursor_y + 1) <= RowStart(cursor_y' + 1)  BY <2>2, Rows
  <2>6. RowStart(cursor_y + 1) \in Nat /\ RowStart(cursor_y' + 1) \in Nat
    BY <2>2, Rows
  <2> QED  BY <2>3, <2>4, <2>5, <2>6 DEF Cursor
<1> HIDE DEF p, q
<1>5. /\ wipe \in Seq(Write) /\ bar \in Seq(Write) /\ clear \in Seq(Write)
      /\ Places(wipe) = {p} /\ Places(bar) = {q} /\ Places(clear) = {q}
  <2>1. /\ <<p, Blank>> \in Write /\ <<q, Bar>> \in Write /\ <<q, Blank>> \in Write
    BY <1>4 DEF Write, CharSet
  <2>2. \A e \in Write : <<e>> \in Seq(Write) /\ Places(<<e>>) = {e[1]}
    BY PlacesOne
  <2>3. /\ <<p, Blank>>[1] = p /\ <<q, Bar>>[1] = q /\ <<q, Blank>>[1] = q
    OBVIOUS
  <2> QED  BY <2>1, <2>2, <2>3, Zenon
<1>6. ASSUME NEW c \in Cell
      PROVE  Written(screen, wipe)[c] = (IF c = p THEN Blank ELSE screen[c])
             /\ Written(text, wipe)[c] = (IF c = p THEN Blank ELSE text[c])
  <2> DEFINE e == <<p, Blank>>
  <2>1. e[1] = p /\ e[2] = Blank  OBVIOUS
  <2> HIDE DEF e
  <2>2. /\ Written(screen, <<e>>)[c] = (IF c = e[1] THEN e[2] ELSE screen[c])
        /\ Written(text, <<e>>)[c] = (IF c = e[1] THEN e[2] ELSE text[c])
    BY WrittenOne
  <2>3. <<e>> = wipe  BY DEF e
  <2> HIDE DEF wipe
  <2> QED  BY <2>1, <2>2, <2>3
<1> HIDE DEF wipe, bar, clear
<1>7. /\ wipe \o writes \in Seq(Write) /\ wipe \o meant \in Seq(Write)
      /\ Places(wipe \o writes \o bar) = {p} \cup Places(writes) \cup {q}
  <2>1. wipe \o writes \in Seq(Write) /\ wipe \o meant \in Seq(Write)
        /\ Places(wipe \o writes) = Places(wipe) \cup Places(writes)
    BY <1>3, <1>5, ConcatProperties, PlacesConcat
  <2> DEFINE u == wipe \o writes
  <2>2. u \in Seq(Write)  BY <2>1
  <2> HIDE DEF u
  <2>3. Places(u \o bar) = Places(u) \cup Places(bar)
    BY <1>5, <2>2, PlacesConcat
  <2> QED  BY <1>5, <2>1, <2>3 DEF u
<1>8. ASSUME NEW c \in Cell, c # q
      PROVE  /\ screen'[c] = Written(Written(screen, wipe), writes)[c]
             /\ text'[c] = Written(Written(text, wipe), meant)[c]
  <2> DEFINE u == wipe \o writes
             v == wipe \o meant
             a == Written(screen, u)
             b == Written(text, v)
  <2>1. u \in Seq(Write) /\ v \in Seq(Write)  BY <1>7
  <2>2. a[c] = Written(Written(screen, wipe), writes)[c]
    BY <1>3, <1>5, WrittenConcat
  <2>3. b[c] = Written(Written(text, wipe), meant)[c]
    BY <1>3, <1>5, WrittenConcat
  <2> HIDE DEF u, v
  <2>4. Written(screen, u \o bar)[c] = Written(a, bar)[c]
    BY <1>5, <2>1, WrittenConcat
  <2>5. Written(text, v \o clear)[c] = Written(b, clear)[c]
    BY <1>5, <2>1, WrittenConcat
  <2> HIDE DEF a, b
  <2>6. Written(a, bar)[c] = a[c] /\ Written(b, clear)[c] = b[c]
    BY <1>5, <1>8, Untouched
  <2>7. screen' = Written(screen, u \o bar) /\ text' = Written(text, v \o clear)
    BY <1>2 DEF u, v
  <2> QED  BY <2>2, <2>3, <2>4, <2>5, <2>6, <2>7
<1>9. ASSUME NEW c \in Cell
      PROVE  /\ Written(clear_screen, writes)[c] = Written(clear_screen, meant)[c]
             /\ c \in Places(meant) \ Places(writes) => c >= RowStart(cursor_y + 1)
  BY <1>1, Zenon DEF Means
<1>10. \A c \in Cell : c >= RowStart(cursor_y + 1) => text[c] = Blank
  BY Zenon DEF OutputInv, BelowBlank
<1>11. ASSUME NEW c \in Cell, c \notin ClockCells, c \notin stale', c # q
       PROVE  screen'[c] = text'[c]
  <2> DEFINE a == Written(screen, wipe)
             b == Written(text, wipe)
  <2>1. screen'[c] = Written(a, writes)[c] /\ text'[c] = Written(b, meant)[c]
    BY <1>8, <1>11
  <2>2. a[c] = (IF c = p THEN Blank ELSE screen[c])
        /\ b[c] = (IF c = p THEN Blank ELSE text[c])
    BY <1>6
  <2> HIDE DEF a, b
  <2>3. CASE c \in Places(writes)
    <3>1. Written(a, writes)[c] = Written(clear_screen, writes)[c]
      BY <2>3, WrittenAnywhere
    <3>2. Written(b, meant)[c] = Written(clear_screen, meant)[c]
      BY <1>3, <2>3, WrittenAnywhere
    <3> QED  BY <1>9, <2>1, <3>1, <3>2
  <2>4. CASE c \notin Places(writes)
    <3>1. Written(a, writes)[c] = a[c]  BY <2>4, Untouched
    <3>2. c # p => screen[c] = text[c]
      <4>1. c # p => c \notin stale  BY <1>2, <1>7, <1>11, <2>4
      <4>2. c # p /\ c \notin stale => screen[c] = text[c]
        BY <1>11 DEF OutputInv, OutputShown, p
      <4> QED  BY <4>1, <4>2
    <3>3. CASE c \notin Places(meant)
      <4>1. Written(b, meant)[c] = b[c]  BY <3>3, Untouched
      <4> QED  BY <2>1, <2>2, <3>1, <3>2, <4>1
    <3>4. CASE c \in Places(meant)
      <4>1. c >= RowStart(cursor_y + 1)  BY <1>9, <2>4, <3>4
      <4>2. c # p /\ text[c] = Blank
        <5>1. c \in Int  BY DEF Cell
        <5> QED  BY <1>4, <1>10, <4>1, <5>1
      <4>3. Written(b, meant)[c] = Written(clear_screen, meant)[c]
        BY <3>4, WrittenAnywhere
      <4>4. Written(clear_screen, writes)[c] = Blank
        <5>1. Written(clear_screen, writes)[c] = clear_screen[c]
          BY <2>4, Untouched
        <5> QED  BY <5>1 DEF clear_screen
      <4> QED  BY <1>9, <2>1, <2>2, <3>1, <3>2, <4>2, <4>3, <4>4
    <3> QED  BY <3>3, <3>4
  <2> QED  BY <2>3, <2>4
<1>12. ASSUME NEW c \in Cell, c >= RowStart(cursor_y' + 1)
       PROVE  text'[c] = Blank
  <2>1. c \in Int  BY DEF Cell
  <2>2. c # q /\ c # p /\ c >= RowStart(cursor_y + 1)  BY <1>4, <1>12, <2>1
  <2>3. c \notin Places(meant)
    <3> SUFFICES ASSUME c \in Places(meant) PROVE FALSE  OBVIOUS
    <3>1. c < RowStart(cursor_y' + 1)  BY <1>1
    <3> QED  BY <1>4, <1>12, <2>1, <3>1
  <2> DEFINE b == Written(text, wipe)
  <2>4. text'[c] = Written(b, meant)[c]  BY <1>8, <2>2
  <2>5. b[c] = text[c]  BY <1>6, <2>2
  <2> HIDE DEF b
  <2>6. Written(b, meant)[c] = b[c]  BY <2>3, Untouched
  <2> QED  BY <1>10, <2>2, <2>4, <2>5, <2>6
<1>13. BelowBlank'  BY <1>12 DEF BelowBlank
<1>14. OutputShown'
  <2>1. q = Cursor'  BY DEF q
  <2> QED  BY <1>11, <2>1, Zenon DEF OutputShown
<1> QED  BY <1>13, <1>14 DEF OutputInv

LEMMA WordIs ==
  ASSUME NEW n \in Nat
  PROVE  Word(n) \in Seq(CharSet) /\ Len(Word(n)) = n
<1>1. Letter \in CharSet  BY DEF CharSet
<1> HIDE DEF Letter
<1> QED  BY <1>1 DEF Word

(* A text that fits into its row and the next.                             *)
LEMMA SaysFits ==
  ASSUME NEW s \in Seq(CharSet), NEW x \in Nat, NEW y \in Nat, x + Len(s) <= 2 * Width
  PROVE  /\ print(s, x, y) = Says(s, x, y) /\ Says(s, x, y) \in Seq(Write)
         /\ \A p \in Places(Says(s, x, y)) : p < RowStart(y) + 2 * Width
<1>1. print(s, x, y) = Says(s, x, y)  BY PrintSays
<1>2. Says(s, x, y) \in Seq(Write)  BY SaysIs
<1>3. ASSUME NEW p \in Places(Says(s, x, y)) PROVE p < RowStart(y) + 2 * Width
  <2>1. p \in Nat /\ p < Offset(x, y) + Len(s)  BY SaysPlaces
  <2>2. Offset(x, y) = RowStart(y) + x /\ RowStart(y) \in Nat
    <3>1. \A n \in Nat : Offset(0 + n, y) = Offset(0, y) + n  BY OffsetIs
    <3>2. Offset(0, y) \in Nat /\ 0 + x = x  BY OffsetIs
    <3> QED  BY <3>1, <3>2 DEF RowStart
  <2>3. Len(s) \in Nat /\ Width \in Nat  BY Sizes
  <2> QED  BY <2>1, <2>2, <2>3
<1> QED  BY <1>1, <1>2, <1>3

(* A command that says what it means in the row after the cursor's and in  *)
(* the one after that, and then the prompt.                                *)
EnterSays ==
  \E rows \in 1 .. 2 : \E writes, meant :
    /\ Enter(rows, writes, meant)
    /\ Means(writes, meant, RowStart(Row))
    /\ \A p \in Places(meant) : p < RowStart(Row) + 2 * Width

LEMMA EnterShown == OutputInv /\ EnterSays => OutputInv'
<1> SUFFICES ASSUME OutputInv, EnterSays PROVE OutputInv'  OBVIOUS
<1>1. PICK rows \in 1 .. 2 : \E writes, meant :
        /\ Enter(rows, writes, meant)
        /\ Means(writes, meant, RowStart(Row))
        /\ \A p \in Places(meant) : p < RowStart(Row) + 2 * Width
  BY DEF EnterSays
<1>2. PICK writes, meant :
        /\ Enter(rows, writes, meant)
        /\ Means(writes, meant, RowStart(Row))
        /\ \A p \in Places(meant) : p < RowStart(Row) + 2 * Width
  BY <1>1
<1>3. cursor_y \in Nat  BY DEF OutputInv
<1>4. /\ cursor_x' = 1 /\ cursor_y' = cursor_y + rows + 1
      /\ HandlerPaints(writes \o putc(">", 0, cursor_y'),
                       meant \o <<<<Offset(0, cursor_y'), ">">>>>)
  BY <1>2, Zenon DEF Enter
<1>5. cursor_x' \in 0 .. Width - 1 /\ cursor_y' \in Nat /\ cursor_y <= cursor_y'
      /\ Row \in Nat /\ Row + 1 \in Nat /\ cursor_y' + 1 \in Nat
      /\ (Row + 1) + 1 <= cursor_y' + 1 /\ (Row + 1) + 1 \in Nat
      /\ Row <= cursor_y' /\ cursor_y' <= cursor_y' + 1
  BY <1>3, <1>4, Sizes DEF Row
<1> DEFINE e == <<Offset(0, cursor_y'), ">">>
           x == <<e>>
<1>6. Offset(0, cursor_y') \in Nat /\ Offset(0, cursor_y') < RowStart(cursor_y' + 1)
  <2>1. 0 \in 0 .. Width - 1  BY Sizes
  <2> QED  BY <1>5, <2>1, Rows
<1>7. x \in Seq(Write) /\ Places(x) = {Offset(0, cursor_y')}
  <2>1. e \in Write /\ e[1] = Offset(0, cursor_y')  BY <1>6 DEF Write, CharSet
  <2> HIDE DEF e
  <2>2. x \in Seq(Write)  BY <2>1
  <2>3. Places(x) = {e[1]}  BY PlacesOne
  <2> QED  BY <2>1, <2>2, <2>3
<1>8. x = putc(">", 0, cursor_y')  BY DEF putc
<1> HIDE DEF x
<1>9. Means(writes \o x, meant \o x, RowStart(Row))  BY <1>2, <1>7, MeansJoin
<1>10. ASSUME NEW p \in Places(meant \o x) PROVE p < RowStart(cursor_y' + 1)
  <2>1. meant \in Seq(Write)  BY <1>2 DEF Means
  <2>2. Places(meant \o x) = Places(meant) \cup Places(x)
    BY <1>7, <2>1, PlacesConcat
  <2>3. CASE p \in Places(x)  BY <1>6, <1>7, <2>3
  <2>4. CASE p \in Places(meant)
    <3>1. p < RowStart(Row) + 2 * Width  BY <1>2, <2>4
    <3>2. /\ RowStart(Row + 1) = RowStart(Row) + Width /\ RowStart(Row) \in Nat
          /\ RowStart((Row + 1) + 1) = RowStart(Row + 1) + Width
          /\ RowStart((Row + 1) + 1) <= RowStart(cursor_y' + 1)
      BY <1>5, Rows
    <3>3. RowStart(cursor_y' + 1) \in Nat /\ Width \in Nat  BY <1>5, Rows, Sizes
    <3>4. p \in Int
      <4>1. PICK k \in 1 .. Len(meant) : p = meant[k][1]  BY <2>4 DEF Places
      <4>2. meant[k] \in Write  BY <2>1, <4>1
      <4> QED  BY <4>1, <4>2 DEF Write
    <3> QED  BY <3>1, <3>2, <3>3, <3>4
  <2> QED  BY <1>10, <2>2, <2>3, <2>4
<1>11. HandlerSays
  <2>1. HandlerPaints(writes \o x, meant \o x)  BY <1>4, <1>8, Zenon DEF putc
  <2>2. RowStart(Row) = RowStart(cursor_y + 1)  BY DEF Row
  <2> QED  BY <1>9, <1>10, <2>1, <2>2, Zenon DEF HandlerSays
<1> QED  BY <1>5, <1>11, PaintsShown

LEMMA TimeCommandSays == OutputInv /\ TimeCommand => EnterSays
<1> SUFFICES ASSUME OutputInv, TimeCommand PROVE EnterSays  OBVIOUS
<1> DEFINE a == Says(Word(TimeCol - 1), 0, Row)
<1>1. Row \in Nat /\ TimeCol \in Nat /\ TimeCol - 1 \in Nat /\ Width \in Nat
      /\ 0 + (TimeCol - 1) <= 2 * Width /\ TimeCol + 8 <= Width
      /\ TimeCol + 8 <= 2 * Width
  BY Sizes, ScreenAssumption DEF OutputInv, Row
<1>2. /\ print(Word(TimeCol - 1), 0, Row) = a /\ a \in Seq(Write)
      /\ \A p \in Places(a) : p < RowStart(Row) + 2 * Width
  <2>1. Word(TimeCol - 1) \in Seq(CharSet) /\ Len(Word(TimeCol - 1)) = TimeCol - 1
    BY <1>1, WordIs
  <2>2. 0 + Len(Word(TimeCol - 1)) <= 2 * Width  BY <1>1, <2>1
  <2> QED  BY <1>1, <2>1, <2>2, SaysFits
<1>3. PICK t \in Clocks :
        Enter(1, print(Word(TimeCol - 1), 0, Row) \o print_formatted_time(t, TimeCol, Row),
              a \o Says(Time(t), TimeCol, Row))
  BY DEF TimeCommand
<1> DEFINE b == Says(Time(t), TimeCol, Row)
<1>4. t \in TimeRange  BY ClocksInRange
<1>5. print_formatted_time(t, TimeCol, Row) = b
  BY <1>1, <1>4, FormattedTimeSays
<1>6. b \in Seq(Write) /\ \A p \in Places(b) : p < RowStart(Row) + 2 * Width
  <2>1. Time(t) \in Seq(CharSet) /\ Len(Time(t)) = 8  BY <1>4, TimeIs
  <2>2. TimeCol + Len(Time(t)) <= 2 * Width  BY <1>1, <2>1
  <2> QED  BY <1>1, <2>1, <2>2, SaysFits
<1>7. Enter(1, a \o b, a \o b)  BY <1>2, <1>3, <1>5
<1> HIDE DEF a, b
<1>8. a \o b \in Seq(Write) /\ Places(a \o b) = Places(a) \cup Places(b)
  BY <1>2, <1>6, ConcatProperties, PlacesConcat
<1>9. Means(a \o b, a \o b, RowStart(Row))  BY <1>8, MeansItself
<1>10. \A p \in Places(a \o b) : p < RowStart(Row) + 2 * Width
  BY <1>2, <1>6, <1>8
<1>11. 1 \in 1 .. 2  OBVIOUS
<1> QED  BY <1>7, <1>9, <1>10, <1>11, Zenon DEF EnterSays

LEMMA FreeCommandSays == OutputInv /\ FreeCommand => EnterSays
<1> SUFFICES ASSUME OutputInv, FreeCommand PROVE EnterSays  OBVIOUS
<1> DEFINE a == Says(Word(FreeCol), 0, Row)
           d == Says(Word(1), UnitCol, Row)
<1>1. Row \in Nat /\ FreeCol \in Nat /\ UnitCol \in Nat /\ Width \in Nat
      /\ FreeCol + 10 <= 2 * Width /\ 0 + FreeCol <= 2 * Width
      /\ UnitCol + 1 <= 2 * Width
  BY Sizes, ScreenAssumption DEF OutputInv, Row
<1>2. /\ print(Word(FreeCol), 0, Row) = a /\ a \in Seq(Write)
      /\ \A p \in Places(a) : p < RowStart(Row) + 2 * Width
  <2>1. Word(FreeCol) \in Seq(CharSet) /\ Len(Word(FreeCol)) = FreeCol
    BY <1>1, WordIs
  <2>2. 0 + Len(Word(FreeCol)) <= 2 * Width  BY <1>1, <2>1
  <2> QED  BY <1>1, <2>1, <2>2, SaysFits
<1>3. /\ print(Word(1), UnitCol, Row) = d /\ d \in Seq(Write)
      /\ \A p \in Places(d) : p < RowStart(Row) + 2 * Width
  <2>1. Word(1) \in Seq(CharSet) /\ Len(Word(1)) = 1  BY WordIs
  <2>2. UnitCol + Len(Word(1)) <= 2 * Width  BY <1>1, <2>1
  <2> QED  BY <1>1, <2>1, <2>2, SaysFits
<1>4. PICK n \in Frees :
        Enter(1, print(Word(FreeCol), 0, Row) \o print_int(n, FreeCol, Row)
                 \o print(Word(1), UnitCol, Row),
              a \o Says(Decimal(n), FreeCol, Row) \o d)
  BY DEF FreeCommand
<1> DEFINE b == Says(Decimal(n), FreeCol, Row)
<1>5. n \in Nat /\ n < IntMod \div 2
  <2>1. IntMod \in Nat  BY ScreenAssumption
  <2> QED  BY <2>1, NumbersAssumption
<1>6. /\ print_int(n, FreeCol, Row) = b /\ b \in Seq(Write)
      /\ \A p \in Places(b) : p < RowStart(Row) + 2 * Width
  <2>1. n < Power[10]  BY <1>5, IntsFit
  <2>2. Decimal(n) \in Seq(CharSet) /\ Len(Decimal(n)) \in 1 .. 10
        /\ itoa(n) = Decimal(n)
    BY <1>5, <2>1, DecimalIs, ItoaIsDecimal
  <2>3. FreeCol + Len(Decimal(n)) <= 2 * Width
    <3> DEFINE k == Len(Decimal(n))
    <3>1. k \in 1 .. 10  BY <2>2
    <3> HIDE DEF k
    <3>2. FreeCol + k <= 2 * Width  BY <1>1, <3>1
    <3> QED  BY <3>2 DEF k
  <2>4. /\ print(Decimal(n), FreeCol, Row) = b /\ b \in Seq(Write)
        /\ \A p \in Places(b) : p < RowStart(Row) + 2 * Width
    BY <1>1, <2>2, <2>3, SaysFits
  <2> QED  BY <2>2, <2>4, Zenon DEF print_int
<1>7. Enter(1, a \o b \o d, a \o b \o d)  BY <1>2, <1>3, <1>4, <1>6
<1> HIDE DEF a, b, d
<1>8. a \o b \in Seq(Write) /\ Places(a \o b) = Places(a) \cup Places(b)
  BY <1>2, <1>6, ConcatProperties, PlacesConcat
<1> DEFINE u == a \o b
<1>9. u \in Seq(Write)  BY <1>8
<1> HIDE DEF u
<1>10. u \o d \in Seq(Write) /\ Places(u \o d) = Places(u) \cup Places(d)
  BY <1>3, <1>9, ConcatProperties, PlacesConcat
<1>11. Means(u \o d, u \o d, RowStart(Row))  BY <1>10, MeansItself
<1>12. \A p \in Places(u \o d) : p < RowStart(Row) + 2 * Width
  BY <1>2, <1>3, <1>6, <1>8, <1>10 DEF u
<1>13. 1 \in 1 .. 2  OBVIOUS
<1>14. Enter(1, u \o d, u \o d)  BY <1>7 DEF u
<1> QED  BY <1>11, <1>12, <1>13, <1>14, Zenon DEF EnterSays

LEMMA StellarPrintsSays ==
  ASSUME ValuesFit, OutputInv, StellarPrints
  PROVE  EnterSays
<1>1. Row \in Nat  BY DEF OutputInv, Row
<1>2. PICK n \in Values : Enter(2, print_double(n, 0, Row), Says(Fixed(n), 0, Row))
  BY DEF StellarPrints
<1>3. n \in Int /\ Abs(n) \div Denominator < IntMod \div 2
  BY DEF ValuesFit, Abs
<1>4. /\ Means(print_double(n, 0, Row), Says(Fixed(n), 0, Row), Offset(0, Row))
      /\ \A p \in Places(Says(Fixed(n), 0, Row)) : p < Offset(0, Row) + 2 * Width
  BY <1>1, <1>3, DoubleMeans
<1>5. 2 \in 1 .. 2  OBVIOUS
<1> QED  BY <1>2, <1>4, <1>5, Zenon DEF EnterSays, RowStart

LEMMA TypeLetterShown == OutputInv /\ TypeLetter => OutputInv'
<1> SUFFICES ASSUME OutputInv, TypeLetter PROVE OutputInv'  OBVIOUS
<1> DEFINE w == <<<<Cursor, "b">>>>
<1>1. HandlerPaints(putc("b", cursor_x, cursor_y), w)  BY DEF TypeLetter
<1>2. putc("b", cursor_x, cursor_y) = w  BY DEF putc, Cursor
<1>3. cursor_x \in 0 .. Width - 1 /\ cursor_y \in Nat  BY DEF OutputInv
<1>4. cursor_x' \in 0 .. Width - 1 /\ cursor_y' \in Nat /\ cursor_y <= cursor_y'
      /\ cursor_y + 1 \in Nat /\ cursor_y' + 1 \in Nat
      /\ cursor_y + 1 <= cursor_y' + 1
  <2>1. (cursor_x' = 0 /\ cursor_y' = cursor_y + 1)
        \/ (cursor_x + 1 < Width /\ cursor_x' = cursor_x + 1 /\ cursor_y' = cursor_y)
    BY <1>3, Sizes DEF TypeLetter
  <2> QED  BY <1>3, <2>1, Sizes
<1>5. Cursor \in Nat /\ Cursor < RowStart(cursor_y + 1)  BY <1>3, Rows DEF Cursor
<1>6. w \in Seq(Write) /\ Places(w) = {Cursor}
  <2> DEFINE e == <<Cursor, "b">>
  <2>1. e \in Write /\ e[1] = Cursor  BY <1>5 DEF Write, CharSet
  <2> HIDE DEF e
  <2>2. <<e>> \in Seq(Write) /\ Places(<<e>>) = {e[1]}  BY <2>1, PlacesOne
  <2> QED  BY <2>1, <2>2 DEF e
<1> HIDE DEF w
<1>7. Means(w, w, RowStart(cursor_y + 1))  BY <1>6, MeansItself
<1>8. \A p \in Places(w) : p < RowStart(cursor_y' + 1)
  <2>1. /\ RowStart(cursor_y + 1) <= RowStart(cursor_y' + 1)
        /\ RowStart(cursor_y + 1) \in Nat /\ RowStart(cursor_y' + 1) \in Nat
    BY <1>4, Rows
  <2> QED  BY <1>5, <1>6, <2>1
<1>9. HandlerSays  BY <1>1, <1>2, <1>7, <1>8, Zenon DEF HandlerSays
<1> QED  BY <1>4, <1>9, PaintsShown

LEMMA EraseShown == OutputInv /\ Erase => OutputInv'
<1> SUFFICES ASSUME OutputInv, Erase PROVE OutputInv'  OBVIOUS
<1> DEFINE w == IF cursor_x > 0 THEN putc(Blank, cursor_x', cursor_y) ELSE << >>
<1>1. HandlerPaints(w, w) /\ cursor_y' = cursor_y
      /\ cursor_x' = (IF cursor_x > 0 THEN cursor_x - 1 ELSE 0)
  BY Zenon DEF Erase
<1>2. cursor_x \in 0 .. Width - 1 /\ cursor_y \in Nat  BY DEF OutputInv
<1>3. cursor_x' \in 0 .. Width - 1 /\ cursor_y' \in Nat /\ cursor_y <= cursor_y'
      /\ cursor_y + 1 \in Nat
  BY <1>1, <1>2, Sizes
<1> DEFINE o == Offset(cursor_x', cursor_y)
<1>4. o \in Nat /\ o < RowStart(cursor_y + 1)  BY <1>2, <1>3, Rows
<1> HIDE DEF o
<1>5. w \in Seq(Write) /\ Places(w) \subseteq {o}
  <2> DEFINE e == <<o, Blank>>
  <2>1. e \in Write /\ e[1] = o  BY <1>4 DEF Write, CharSet
  <2> HIDE DEF e
  <2>2. <<e>> \in Seq(Write) /\ Places(<<e>>) = {e[1]}  BY <2>1, PlacesOne
  <2>3. putc(Blank, cursor_x', cursor_y) = <<e>>  BY DEF putc, e, o
  <2>4. << >> \in Seq(Write) /\ Places(<< >>) = {}  BY DEF Places
  <2> QED  BY <2>1, <2>2, <2>3, <2>4
<1> HIDE DEF w
<1>6. Means(w, w, RowStart(cursor_y + 1))  BY <1>5, MeansItself
<1>7. \A p \in Places(w) : p < RowStart(cursor_y' + 1)  BY <1>1, <1>4, <1>5
<1>8. HandlerSays  BY <1>1, <1>6, <1>7, Zenon DEF HandlerSays
<1> QED  BY <1>3, <1>8, PaintsShown

LEMMA ClearShown == OutputInv /\ ClearCommand => OutputInv'
<1> SUFFICES ASSUME OutputInv, ClearCommand PROVE OutputInv'  OBVIOUS
<1> DEFINE o == Offset(0, 1)
           e1 == <<Offset(NameLength + 2, 1), ">">>
           e2 == <<Offset(0, 2), ">">>
           a == <<<<o, ">">>>>
           b == <<<<o, "$">>>>
           x == Says(Word(NameLength), 2, 1)
           d == <<e1>>
           f == <<e2>>
           q == Cursor'
           bar == <<<<q, Bar>>>>
<1>1. /\ cursor_x' = 1 /\ cursor_y' = 2 /\ stale' = {}
      /\ screen' = Written(clear_screen,
                     ((((putc(">", 0, 1) \o putc("$", 0, 1))
                        \o print(Word(NameLength), 2, 1))
                       \o putc(">", NameLength + 2, 1)) \o putc(">", 0, 2)) \o bar)
      /\ text' = Written(clear_screen, (b \o x) \o <<e1, e2>>)
  BY Zenon DEF ClearCommand
<1>2. putc(">", 0, 1) = a /\ putc("$", 0, 1) = b /\ putc(">", NameLength + 2, 1) = d
      /\ putc(">", 0, 2) = f
  BY DEF putc
<1>3. /\ 1 \in Nat /\ 2 \in Nat /\ 3 \in Nat /\ NameLength \in Nat /\ Width \in Nat
      /\ 0 \in 0 .. Width - 1 /\ 1 \in 0 .. Width - 1
      /\ NameLength + 2 \in 0 .. Width - 1
  BY Sizes
<1>4. /\ RowStart(1) \in Nat /\ RowStart(2) = RowStart(1) + Width
      /\ RowStart(3) = RowStart(2) + Width
      /\ o \in Nat /\ o < RowStart(2)
      /\ Offset(NameLength + 2, 1) \in Nat /\ Offset(NameLength + 2, 1) < RowStart(2)
      /\ Offset(0, 2) \in Nat /\ Offset(0, 2) < RowStart(3)
  <2>1. 1 + 1 = 2 /\ 2 + 1 = 3  OBVIOUS
  <2>2. RowStart(1) \in Nat /\ RowStart(1 + 1) = RowStart(1) + Width
        /\ RowStart(2 + 1) = RowStart(2) + Width
    BY <1>3, Rows
  <2>3. /\ o \in Nat /\ o < RowStart(1 + 1)
        /\ Offset(NameLength + 2, 1) \in Nat
        /\ Offset(NameLength + 2, 1) < RowStart(1 + 1)
        /\ Offset(0, 2) \in Nat /\ Offset(0, 2) < RowStart(2 + 1)
    BY <1>3, Rows
  <2> QED  BY <2>1, <2>2, <2>3
<1>5. q \in Nat /\ q < RowStart(3)
  <2>1. q = Offset(1, 2)  BY <1>1 DEF Cursor
  <2>2. 2 + 1 = 3  OBVIOUS
  <2>3. Offset(1, 2) \in Nat /\ Offset(1, 2) < RowStart(2 + 1)  BY <1>3, Rows
  <2> QED  BY <2>1, <2>2, <2>3
<1>6. /\ print(Word(NameLength), 2, 1) = x /\ x \in Seq(Write)
      /\ \A p \in Places(x) : p < RowStart(1) + 2 * Width
  <2>1. Word(NameLength) \in Seq(CharSet) /\ Len(Word(NameLength)) = NameLength
    BY <1>3, WordIs
  <2>2. 2 + Len(Word(NameLength)) <= 2 * Width  BY <2>1, Sizes
  <2> QED  BY <1>3, <2>1, <2>2, SaysFits
<1> HIDE DEF x, q
<1>7. /\ a \in Seq(Write) /\ b \in Seq(Write) /\ d \in Seq(Write) /\ f \in Seq(Write)
      /\ bar \in Seq(Write)
      /\ Places(a) = {o} /\ Places(b) = {o} /\ Places(d) = {Offset(NameLength + 2, 1)}
      /\ Places(f) = {Offset(0, 2)} /\ Places(bar) = {q}
  <2>1. /\ <<o, ">">> \in Write /\ <<o, "$">> \in Write /\ e1 \in Write /\ e2 \in Write
        /\ <<q, Bar>> \in Write
    BY <1>4, <1>5 DEF Write, CharSet
  <2>2. \A e \in Write : <<e>> \in Seq(Write) /\ Places(<<e>>) = {e[1]}
    BY PlacesOne
  <2>3. /\ <<o, ">">>[1] = o /\ <<o, "$">>[1] = o
        /\ e1[1] = Offset(NameLength + 2, 1) /\ e2[1] = Offset(0, 2)
        /\ <<q, Bar>>[1] = q
    OBVIOUS
  <2> HIDE DEF e1, e2, o
  <2> QED  BY <2>1, <2>2, <2>3, Zenon
<1>8. <<e1, e2>> = d \o f
  OBVIOUS
<1> DEFINE u == a \o b
<1>9. u \in Seq(Write) /\ Places(u) = {o}
  <2> HIDE DEF a, b
  <2>1. Places(u) = Places(a) \cup Places(b)  BY <1>7, PlacesConcat
  <2> QED  BY <1>7, <2>1, ConcatProperties
<1>10. Means(u, b, 0)
  <2>1. \A c \in Cell : Written(clear_screen, u)[c] = Written(clear_screen, b)[c]
    <3> TAKE c \in Cell
    <3> DEFINE v == Written(clear_screen, a)
    <3> HIDE DEF a, b
    <3>1. Written(clear_screen, u)[c] = Written(v, b)[c]  BY <1>7, WrittenConcat
    <3>2. CASE c = o
      <4>1. Written(v, b)[c] = Written(clear_screen, b)[c]
        BY <1>7, <3>2, WrittenAnywhere
      <4> QED  BY <3>1, <4>1
    <3>3. CASE c # o
      <4>1. /\ Written(v, b)[c] = v[c] /\ v[c] = clear_screen[c]
            /\ Written(clear_screen, b)[c] = clear_screen[c]
        BY <1>7, <3>3, Untouched
      <4> QED  BY <3>1, <4>1
    <3> QED  BY <3>2, <3>3
  <2> HIDE DEF u, b
  <2> QED  BY <1>7, <1>9, <2>1 DEF Means
<1> HIDE DEF a, b, u, d, f, bar, e1, e2, o
<1> DEFINE m == b \o x \o d \o f
           w == u \o x \o d \o f
<1>11. Means(w, m, 0)
  <2>1. Means(u \o x, b \o x, 0)  BY <1>6, <1>10, MeansJoin
  <2>2. Means(u \o x \o d, b \o x \o d, 0)  BY <1>7, <2>1, MeansJoin
  <2> QED  BY <1>7, <2>2, MeansJoin
<1>12. (b \o x) \o <<e1, e2>> = m
  <2> DEFINE z == b \o x
  <2>1. z \in Seq(Write) /\ d \in Seq(Write) /\ f \in Seq(Write)
    BY <1>6, <1>7, ConcatProperties
  <2> HIDE DEF z
  <2>2. \A r, s, t \in Seq(Write) : (r \o s) \o t = r \o (s \o t)
    BY ConcatAssociative
  <2>3. (z \o d) \o f = z \o (d \o f)  BY <2>1, <2>2, ZenonT(60)
  <2> QED  BY <1>8, <2>3, Zenon DEF z
<1>13. screen' = Written(clear_screen, w \o bar) /\ text' = Written(clear_screen, m)
  BY <1>1, <1>2, <1>6, <1>12, Zenon DEF u
<1>14. \A p \in Places(m) : p \in Int /\ p < RowStart(3)
  <2> DEFINE z == b \o x
             t == z \o d
  <2>1. z \in Seq(Write) /\ Places(z) = Places(b) \cup Places(x)
    BY <1>6, <1>7, ConcatProperties, PlacesConcat
  <2> HIDE DEF z
  <2>2. t \in Seq(Write) /\ Places(t) = Places(z) \cup Places(d)
    BY <1>7, <2>1, ConcatProperties, PlacesConcat
  <2> HIDE DEF t
  <2>3. Places(t \o f) = Places(t) \cup Places(f)  BY <1>7, <2>2, PlacesConcat
  <2>4. t \o f = m  BY DEF t, z
  <2>5. ASSUME NEW p \in Places(x) PROVE p \in Int /\ p < RowStart(3)
    <3>1. p < RowStart(1) + 2 * Width  BY <1>6, <2>5
    <3>2. p \in Int
      <4>1. PICK k \in 1 .. Len(x) : p = x[k][1]  BY <2>5 DEF Places
      <4>2. x[k] \in Write  BY <1>6, <4>1
      <4> QED  BY <4>1, <4>2 DEF Write
    <3> QED  BY <1>3, <1>4, <3>1, <3>2
  <2>6. /\ o \in Int /\ o < RowStart(3)
        /\ Offset(NameLength + 2, 1) \in Int /\ Offset(NameLength + 2, 1) < RowStart(3)
        /\ Offset(0, 2) \in Int /\ Offset(0, 2) < RowStart(3)
    BY <1>3, <1>4
  <2> HIDE DEF m
  <2> QED  BY <1>7, <2>1, <2>2, <2>3, <2>4, <2>5, <2>6
<1>15. w \in Seq(Write) /\ Places(w) \subseteq Places(m)  BY <1>11 DEF Means
<1> HIDE DEF w, m
<1>16. ASSUME NEW c \in Cell, c # q PROVE screen'[c] = text'[c]
  <2> DEFINE v == Written(clear_screen, w)
  <2>1. screen'[c] = Written(v, bar)[c]
    <3>1. w \in Seq(Write) /\ bar \in Seq(Write)  BY <1>7, <1>15
    <3>2. Written(clear_screen, w \o bar)[c] = Written(v, bar)[c]
      BY <3>1, WrittenConcat
    <3> QED  BY <1>13, <3>2
  <2> HIDE DEF v
  <2>2. Written(v, bar)[c] = v[c]  BY <1>7, <1>16, Untouched
  <2>3. v[c] = Written(clear_screen, m)[c]  BY <1>11 DEF Means, v
  <2> QED  BY <1>13, <2>1, <2>2, <2>3
<1>17. ASSUME NEW c \in Cell, c >= RowStart(3) PROVE text'[c] = Blank
  <2>1. c \in Int /\ RowStart(3) \in Int  BY <1>3, <1>4 DEF Cell
  <2>2. c \notin Places(m)  BY <1>14, <1>17, <2>1
  <2>3. text'[c] = clear_screen[c]  BY <1>13, <2>2, Untouched
  <2> QED  BY <2>3 DEF clear_screen
<1>18. cursor_x' \in 0 .. Width - 1 /\ cursor_y' \in Nat /\ cursor_y' + 1 = 3
  BY <1>1, <1>3
<1>19. BelowBlank'  BY <1>17, <1>18 DEF BelowBlank
<1>20. OutputShown'
  <2>1. q = Cursor'  BY DEF q
  <2> QED  BY <1>16, <2>1, Zenon DEF OutputShown
<1> QED  BY <1>18, <1>19, <1>20 DEF OutputInv

LEMMA OutputInitially == Init => OutputInv
<1> SUFFICES ASSUME Init PROVE OutputInv  OBVIOUS
<1>1. cursor_x = 2 /\ cursor_y = 2 /\ text = screen  BY DEF Init
<1>2. cursor_x \in 0 .. Width - 1 /\ cursor_y \in Nat  BY <1>1, Sizes
<1>3. screen = Written(clear_screen, putc(">", 0, 2))  BY DEF Init
<1>4. Places(putc(">", 0, 2)) = {Offset(0, 2)}
  <2> DEFINE e == <<Offset(0, 2), ">">>
  <2>1. putc(">", 0, 2) = <<e>> /\ e[1] = Offset(0, 2)  BY DEF putc
  <2> HIDE DEF e
  <2>2. Places(<<e>>) = {e[1]}  BY PlacesOne
  <2> QED  BY <2>1, <2>2
<1>5. RowStart(cursor_y + 1) \in Nat /\ Offset(0, 2) \in Nat
      /\ Offset(0, 2) < RowStart(cursor_y + 1)
  <2>1. 0 \in 0 .. Width - 1 /\ cursor_y + 1 \in Nat  BY <1>1, Sizes
  <2> QED  BY <1>1, <1>2, <2>1, Rows
<1>6. ASSUME NEW c \in Cell, c >= RowStart(cursor_y + 1) PROVE text[c] = Blank
  <2>1. c \in Int  BY DEF Cell
  <2>2. c \notin Places(putc(">", 0, 2))  BY <1>4, <1>5, <1>6, <2>1
  <2>3. text[c] = clear_screen[c]  BY <1>1, <1>3, <2>2, Untouched
  <2> QED  BY <2>3 DEF clear_screen
<1>7. BelowBlank  BY <1>6 DEF BelowBlank
<1>8. OutputShown  BY <1>1 DEF OutputShown
<1> QED  BY <1>2, <1>7, <1>8 DEF OutputInv

(* A cell of the clock, or one with a cursor that has gone.                *)
LEMMA PaintClockShown == ClockInv /\ OutputInv /\ PaintClock => OutputInv'
<1> SUFFICES ASSUME ClockInv, OutputInv, PaintClock PROVE OutputInv'  OBVIOUS
<1> DEFINE e == Head(todo)
<1>1. /\ screen' = Written(screen, <<e>>) /\ stale' = stale \ {e[1]}
      /\ UNCHANGED <<text, cursor_x, cursor_y>> /\ todo # << >>
  BY DEF PaintClock, lineVars
<1>2. e[1] \in ClockCells
  <2> DEFINE n == Len(todo)
  <2>1. todo \in Seq(Write) /\ n <= 8  BY Zenon DEF ClockInv
  <2>2. n \in Nat /\ n # 0 /\ e = todo[1]  BY <1>1, <2>1, EmptySeq
  <2>3. todo[1] = <<Place(8 - n + 1), Time(hms)[8 - n + 1]>>
    <3>1. 1 \in 1 .. n
      <4> HIDE DEF n
      <4> QED  BY <2>2
    <3> QED  BY <3>1 DEF ClockInv
  <2> HIDE DEF n, e
  <2>4. 8 - n + 1 \in 1 .. 8  BY <2>1, <2>2
  <2>5. Place(8 - n + 1) \in ClockCells  BY <2>4, PlaceIs
  <2> QED  BY <2>2, <2>3, <2>5
<1> HIDE DEF e
<1>3. ASSUME NEW c \in Cell, c \notin ClockCells, c \notin stale', c # Cursor
      PROVE  screen'[c] = text[c]
  <2>1. c # e[1] /\ c \notin stale  BY <1>1, <1>2, <1>3
  <2>2. Places(<<e>>) = {e[1]}  BY PlacesOne
  <2>3. Written(screen, <<e>>)[c] = screen[c]  BY <2>1, <2>2, Untouched
  <2>4. screen[c] = text[c]  BY <1>3, <2>1 DEF OutputInv, OutputShown
  <2> QED  BY <1>1, <2>3, <2>4
<1>4. Cursor' = Cursor /\ BelowBlank' = BelowBlank
  BY <1>1 DEF Cursor, BelowBlank
<1>5. OutputShown'  BY <1>1, <1>3, <1>4, Zenon DEF OutputShown
<1> QED  BY <1>1, <1>4, <1>5, Zenon DEF OutputInv

LEMMA DrawShown == OutputInv /\ draw_cursor => OutputInv'
<1> SUFFICES ASSUME OutputInv, draw_cursor PROVE OutputInv'  OBVIOUS
<1> DEFINE place == Offset(arg[1], arg[2])
           e == <<place, IF show THEN Bar ELSE Blank>>
<1>1. /\ screen' = Written(screen, <<e>>)
      /\ stale' = IF place = Cursor THEN stale ELSE stale \cup {place}
      /\ UNCHANGED <<text, cursor_x, cursor_y>> /\ e[1] = place
  BY DEF draw_cursor, lineVars
<1> HIDE DEF e, place
<1>2. ASSUME NEW c \in Cell, c \notin ClockCells, c \notin stale', c # Cursor
      PROVE  screen'[c] = text[c]
  <2>1. c # e[1] /\ c \notin stale  BY <1>1, <1>2
  <2>2. Places(<<e>>) = {e[1]}  BY PlacesOne
  <2>3. Written(screen, <<e>>)[c] = screen[c]  BY <2>1, <2>2, Untouched
  <2>4. screen[c] = text[c]  BY <1>2, <2>1 DEF OutputInv, OutputShown
  <2> QED  BY <1>1, <2>3, <2>4
<1>3. Cursor' = Cursor /\ BelowBlank' = BelowBlank
  BY <1>1 DEF Cursor, BelowBlank
<1>4. OutputShown'  BY <1>1, <1>2, <1>3, Zenon DEF OutputShown
<1> QED  BY <1>1, <1>3, <1>4, Zenon DEF OutputInv

(* The screen says what the handler means it to say, whatever main() was   *)
(* doing when the handler came: outside the clock, but for the cursor and  *)
(* for the cells where main() drew a cursor that had moved on, as long as  *)
(* what programs print fits into an int.                                   *)
THEOREM OutputIsShown ==
  ASSUME ValuesFit
  PROVE  Spec => []OutputShown
<1> DEFINE Inv == ClockInv /\ OutputInv
<1>1. Init => Inv  BY ClockInitially, OutputInitially
<1>2. Inv /\ [Next]_screenVars => Inv'
  <2> SUFFICES ASSUME ClockInv, OutputInv, [Next]_screenVars PROVE Inv'  OBVIOUS
  <2>1. ClockInv'  BY ClockStep
  <2>2. OutputInv'
    <3>1. CASE GetTime \/ Blink \/ ReadArgs \/ UNCHANGED screenVars
      <4>1. UNCHANGED <<screen, text, cursor_x, cursor_y, stale>>
        BY <3>1 DEF GetTime, Blink, ReadArgs, screenVars, lineVars
      <4> QED  BY <4>1 DEF OutputInv, OutputShown, BelowBlank, Cursor
    <3>2. CASE PaintClock  BY <3>2, PaintClockShown
    <3>3. CASE draw_cursor  BY <3>3, DrawShown
    <3>4. CASE TypeLetter  BY <3>4, TypeLetterShown
    <3>5. CASE Erase  BY <3>5, EraseShown
    <3>6. CASE TimeCommand  BY <3>6, TimeCommandSays, EnterShown
    <3>7. CASE FreeCommand  BY <3>7, FreeCommandSays, EnterShown
    <3>8. CASE StellarPrints  BY <3>8, StellarPrintsSays, EnterShown
    <3>9. CASE ClearCommand  BY <3>9, ClearShown
    <3> QED  BY <3>1, <3>2, <3>3, <3>4, <3>5, <3>6, <3>7, <3>8, <3>9
             DEF Next, Main, Handler
  <2> QED  BY <2>1, <2>2
<1>3. Inv => OutputShown  BY DEF OutputInv
<1> QED  BY <1>1, <1>2, <1>3, PTL DEF Spec
=============================================================================
