---------------------------- MODULE MallocProofs -----------------------------
(***************************************************************************)
(* Proofs about Malloc for any sizes of header, page and address space,    *)
(* any widths of the types and whatever callers ask for, as long as no sum *)
(* wraps.  The blocks are a partition of the mapped memory; and, as long   *)
(* as no block is so large that an int cannot hold its size, what callers  *)
(* have fits and realloc() copies within bounds.                           *)
(***************************************************************************)
EXTENDS Malloc, WellFoundedInduction, TLAPS

-----------------------------------------------------------------------------
(* Induction, by the least number that is not in a set. *)

LEMMA Induction ==
  ASSUME NEW S \in SUBSET Nat, 0 \in S, \A k \in S : k + 1 \in S
  PROVE  S = Nat
<1> DEFINE R == {ss \in Nat \X Nat : ss[1] < ss[2]}
           T == Nat \ S
<1>1. IsWellFoundedOn(R, Nat)
  BY NatLessThanWellFounded DEF OpToRel
<1>2. \A x, y \in Nat : y < x => <<y, x>> \in R
  OBVIOUS
<1> HIDE DEF R
<1> SUFFICES ASSUME T # {} PROVE FALSE
  OBVIOUS
<1>3. PICK x \in T : \A y \in T : ~(<<y, x>> \in R)
  BY <1>1, WFMin
<1>4. x - 1 \in Nat /\ x \in Nat /\ x - 1 < x
  OBVIOUS
<1>5. <<x - 1, x>> \in R
  BY <1>2, <1>4
<1>6. x - 1 \in S
  BY <1>3, <1>4, <1>5
<1>7. (x - 1) + 1 = x
  BY <1>4
<1> QED
  BY <1>6, <1>7

(* The least of a set of numbers. *)
LEMMA MinExists ==
  ASSUME NEW S \in SUBSET Nat, S # {}
  PROVE  Min(S) \in S
<1> DEFINE R == {ss \in Nat \X Nat : ss[1] < ss[2]}
<1>1. IsWellFoundedOn(R, Nat)
  BY NatLessThanWellFounded DEF OpToRel
<1>2. \A x, y \in Nat : y < x => <<y, x>> \in R
  OBVIOUS
<1> HIDE DEF R
<1>3. PICK x \in S : \A y \in S : ~(<<y, x>> \in R)
  BY <1>1, WFMin
<1>4. \A y \in S : x <= y
  <2>1. \A y \in S : y \in Nat /\ x \in Nat /\ ~(y < x)
    BY <1>2, <1>3
  <2> QED
    BY <2>1
<1> QED
  BY <1>4 DEF Min

(* The larger of two numbers. *)
LEMMA MaxOfTwo ==
  ASSUME NEW x \in Int, NEW y \in Int
  PROVE  Max({x, y}) = IF x >= y THEN x ELSE y
<1>1. \E m \in {x, y} : \A z \in {x, y} : m >= z
  OBVIOUS
<1>2. Max({x, y}) \in {x, y} /\ \A z \in {x, y} : Max({x, y}) >= z
  BY <1>1 DEF Max
<1> QED
  BY <1>2

-----------------------------------------------------------------------------
(* Powers of two. *)

(* What the recursion computes up to n. *)
Approx(n) == {f \in [0 .. n -> Nat] : \A k \in 0 .. n : f[k] = IF k = 0 THEN 1 ELSE 2 * f[k - 1]}

LEMMA ApproxExists == \A n \in Nat : Approx(n) # {}
<1> DEFINE S == {n \in Nat : Approx(n) # {}}
<1>1. 0 \in S
  <2>1. [k \in 0 .. 0 |-> 1] \in Approx(0)
    BY DEF Approx
  <2> QED
    BY <2>1
<1>2. ASSUME NEW n \in S
      PROVE  n + 1 \in S
  <2>1. PICK f \in Approx(n) : TRUE
    OBVIOUS
  <2> DEFINE g == [k \in 0 .. n + 1 |-> IF k = n + 1 THEN 2 * f[n] ELSE f[k]]
  <2>2. f \in [0 .. n -> Nat] /\ \A k \in 0 .. n : f[k] = IF k = 0 THEN 1 ELSE 2 * f[k - 1]
    BY <2>1 DEF Approx
  <2>3. g \in [0 .. n + 1 -> Nat]
    BY <2>2
  <2>4. ASSUME NEW k \in 0 .. n + 1
        PROVE  g[k] = IF k = 0 THEN 1 ELSE 2 * g[k - 1]
    <3>1. CASE k = n + 1
      BY <3>1
    <3>2. CASE k # n + 1
      <4>1. k \in 0 .. n /\ g[k] = f[k] /\ (k # 0 => k - 1 \in 0 .. n + 1 /\ g[k - 1] = f[k - 1])
        BY <3>2
      <4> QED
        BY <2>2, <4>1
    <3> QED
      BY <3>1, <3>2
  <2>5. g \in Approx(n + 1)
    BY <2>3, <2>4 DEF Approx
  <2> QED
    BY <2>5
<1>3. S \in SUBSET Nat
  OBVIOUS
<1> HIDE DEF S
<1>4. S = Nat
  BY <1>1, <1>2, <1>3, Induction
<1> QED
  BY <1>4 DEF S

LEMMA ApproxAgree ==
  ASSUME NEW m \in Nat, NEW n \in Nat, NEW f \in Approx(m), NEW g \in Approx(n)
  PROVE  \A k \in Nat : k <= m /\ k <= n => f[k] = g[k]
<1> DEFINE S == {k \in Nat : k <= m /\ k <= n => f[k] = g[k]}
<1>1. /\ \A k \in 0 .. m : f[k] = IF k = 0 THEN 1 ELSE 2 * f[k - 1]
      /\ \A k \in 0 .. n : g[k] = IF k = 0 THEN 1 ELSE 2 * g[k - 1]
  BY DEF Approx
<1>2. 0 \in S
  BY <1>1
<1>3. ASSUME NEW k \in S
      PROVE  k + 1 \in S
  <2> SUFFICES ASSUME k + 1 <= m, k + 1 <= n
               PROVE  f[k + 1] = g[k + 1]
    OBVIOUS
  <2>1. f[k] = g[k] /\ k + 1 # 0 /\ (k + 1) - 1 = k
    OBVIOUS
  <2>2. f[k + 1] = 2 * f[k] /\ g[k + 1] = 2 * g[k]
    BY <1>1, <2>1
  <2> QED
    BY <2>1, <2>2
<1>4. S \in SUBSET Nat
  OBVIOUS
<1> HIDE DEF S
<1>5. S = Nat
  BY <1>2, <1>3, <1>4, Induction
<1> QED
  BY <1>5 DEF S

(* The equations of Pow2 have a solution, so it is one. *)
LEMMA Pow2Def ==
  /\ \A k \in Nat : Pow2[k] \in Nat
  /\ Pow2[0] = 1
  /\ \A k \in Nat : Pow2[k + 1] = 2 * Pow2[k]
<1> DEFINE a(n) == CHOOSE f : f \in Approx(n)
           h == [n \in Nat |-> a(n)[n]]
           D(f) == f = [k \in Nat |-> IF k = 0 THEN 1 ELSE 2 * f[k - 1]]
<1>1. \A n \in Nat : a(n) \in Approx(n)
  BY ApproxExists
<1> HIDE DEF a
<1>2. ASSUME NEW n \in Nat
      PROVE  h[n] = IF n = 0 THEN 1 ELSE 2 * h[n - 1]
  <2>1. CASE n = 0
    BY <1>1, <2>1 DEF Approx
  <2>2. CASE n # 0
    <3>1. n - 1 \in Nat /\ a(n)[n] = 2 * a(n)[n - 1]
      BY <1>1, <2>2 DEF Approx
    <3>2. a(n)[n - 1] = a(n - 1)[n - 1]
      BY <1>1, <3>1, ApproxAgree
    <3> QED
      BY <2>2, <3>1, <3>2
  <2> QED
    BY <2>1, <2>2
<1>3. D(h)
  BY <1>2
<1>4. Pow2 = CHOOSE f : D(f)
  BY DEF Pow2
<1> HIDE DEF h
<1>5. D(Pow2)
  BY <1>3, <1>4
<1>6. \A k \in Nat : Pow2[k] = IF k = 0 THEN 1 ELSE 2 * Pow2[k - 1]
  BY <1>5
<1>7. Pow2[0] = 1
  BY <1>6
<1>8. ASSUME NEW k \in Nat
      PROVE  Pow2[k + 1] = 2 * Pow2[k]
  <2>1. k + 1 \in Nat /\ k + 1 # 0 /\ (k + 1) - 1 = k
    OBVIOUS
  <2> QED
    BY <1>6, <2>1
<1> DEFINE S == {k \in Nat : Pow2[k] \in Nat}
<1>9. S \in SUBSET Nat /\ 0 \in S /\ \A k \in S : k + 1 \in S
  BY <1>7, <1>8
<1> HIDE DEF S
<1>10. S = Nat
  BY <1>9, Induction
<1>11. \A k \in Nat : Pow2[k] \in Nat
  BY <1>10 DEF S
<1> QED
  BY <1>7, <1>8, <1>11

LEMMA Pow2Positive == \A k \in Nat : Pow2[k] \in Nat /\ Pow2[k] >= 1
<1> DEFINE S == {k \in Nat : Pow2[k] >= 1}
<1>1. S \in SUBSET Nat /\ 0 \in S
  BY Pow2Def
<1>2. ASSUME NEW k \in S
      PROVE  k + 1 \in S
  <2>1. Pow2[k] \in Nat /\ Pow2[k] >= 1 /\ Pow2[k + 1] = 2 * Pow2[k]
    BY Pow2Def
  <2> QED
    BY <2>1
<1> HIDE DEF S
<1>3. S = Nat
  BY <1>1, <1>2, Induction
<1> QED
  BY <1>3, Pow2Def DEF S

(* a divides x. *)
Divides(a, x) == \E c \in Nat : x = a * c

(* The smaller of two powers divides the larger. *)
LEMMA Pow2Divides ==
  ASSUME NEW j \in Nat, NEW d \in Nat
  PROVE  Divides(Pow2[j], Pow2[j + d]) /\ (d > 0 => Pow2[j] < Pow2[j + d])
<1> DEFINE S == {n \in Nat : /\ Divides(Pow2[j], Pow2[j + n])
                             /\ n > 0 => Pow2[j] < Pow2[j + n]}
<1>1. S \in SUBSET Nat
  OBVIOUS
<1>2. 0 \in S
  <2>1. Pow2[j] \in Nat /\ j + 0 = j
    BY Pow2Def
  <2>2. Pow2[j] = Pow2[j] * 1
    BY <2>1
  <2>3. Divides(Pow2[j], Pow2[j + 0])
    BY <2>1, <2>2 DEF Divides
  <2> QED
    BY <2>3
<1>3. ASSUME NEW n \in S
      PROVE  n + 1 \in S
  <2>1. PICK c \in Nat : Pow2[j + n] = Pow2[j] * c
    BY DEF Divides
  <2>2. j + (n + 1) = (j + n) + 1 /\ j + n \in Nat
    OBVIOUS
  <2>3. /\ Pow2[j + (n + 1)] = 2 * Pow2[j + n] /\ Pow2[j] \in Nat /\ Pow2[j + n] \in Nat
        /\ Pow2[j] >= 1 /\ Pow2[j + n] >= 1
    BY <2>2, Pow2Def, Pow2Positive
  <2>4. 2 * (Pow2[j] * c) = Pow2[j] * (2 * c)
    BY <2>3
  <2>5. Divides(Pow2[j], Pow2[j + (n + 1)])
    BY <2>1, <2>3, <2>4 DEF Divides
  <2>6. Pow2[j] < Pow2[j + (n + 1)]
    <3>1. CASE n = 0
      BY <2>3, <3>1
    <3>2. CASE n # 0
      BY <2>3, <3>2
    <3> QED
      BY <3>1, <3>2
  <2> QED
    BY <2>5, <2>6
<1> HIDE DEF S
<1>4. S = Nat
  BY <1>1, <1>2, <1>3, Induction
<1> QED
  BY <1>4 DEF S

(* Powers are ordered as their exponents, and by divisibility. *)
LEMMA Pow2Ordered ==
  ASSUME NEW j \in Nat, NEW k \in Nat
  PROVE  /\ Pow2[j] < Pow2[k] <=> j < k
         /\ Pow2[j] <= Pow2[k] => Divides(Pow2[j], Pow2[k])
<1>1. Pow2[j] \in Nat /\ Pow2[k] \in Nat
  BY Pow2Def
<1>2. CASE j < k
  <2>1. k - j \in Nat /\ k - j > 0 /\ j + (k - j) = k
    BY <1>2
  <2> QED
    BY <1>2, <2>1, Pow2Divides
<1>3. CASE k < j
  <2>1. j - k \in Nat /\ j - k > 0 /\ k + (j - k) = j
    BY <1>3
  <2>2. Pow2[k] < Pow2[j]
    BY <2>1, Pow2Divides
  <2> QED
    BY <1>1, <1>3, <2>2
<1>4. CASE j = k
  <2>1. Divides(Pow2[j], Pow2[j + 0]) /\ j + 0 = k
    BY <1>4, Pow2Divides
  <2> QED
    BY <1>1, <1>4, <2>1
<1> QED
  BY <1>2, <1>3, <1>4

-----------------------------------------------------------------------------
(* Rounding. *)

Positive == Nat \ {0}

LEMMA RoundUpIs ==
  ASSUME NEW x \in Nat, NEW a \in Positive
  PROVE  /\ RoundUp(x, a) \in Nat /\ x <= RoundUp(x, a) /\ RoundUp(x, a) < x + a
         /\ Divides(a, RoundUp(x, a))
<1> DEFINE y == x + a - 1
           q == y \div a
<1>1. y \in Nat /\ a \in Nat /\ a > 0
  BY DEF Positive
<1>2. q \in Nat /\ q * a <= y /\ y < q * a + a
  BY <1>1
<1> HIDE DEF y, q
<1>3. RoundUp(x, a) = q * a /\ y = x + a - 1
  BY DEF RoundUp, q, y
<1>4. q * a = a * q /\ q * a \in Nat
  BY <1>1, <1>2
<1>5. Divides(a, RoundUp(x, a))
  BY <1>2, <1>3, <1>4 DEF Divides
<1> QED
  BY <1>1, <1>2, <1>3, <1>4, <1>5

(* Multiples are at least their divisor apart. *)
LEMMA Gap ==
  ASSUME NEW a \in Positive, NEW x \in Nat, NEW y \in Nat, Divides(a, x), Divides(a, y)
  PROVE  /\ x < y + a => x <= y
         /\ Divides(a, x + y)
         /\ x % a = 0
         /\ x > 0 => a <= x
<1>1. PICK c \in Nat : x = a * c
  BY DEF Divides
<1>2. PICK d \in Nat : y = a * d
  BY DEF Divides
<1>3. a \in Nat /\ a > 0
  BY DEF Positive
<1>4. ASSUME x < y + a
      PROVE  x <= y
  <2>1. a * c < a * (d + 1)
    BY <1>1, <1>2, <1>3, <1>4
  <2>2. c < d + 1
    <3>1. ASSUME c >= d + 1
          PROVE  FALSE
      <4>1. a * c >= a * (d + 1)
        BY <1>3, <3>1
      <4> QED
        BY <1>3, <2>1, <4>1
    <3> QED
      BY <3>1
  <2>3. c <= d
    BY <2>2
  <2>4. a * c <= a * d
    BY <1>3, <2>3
  <2> QED
    BY <1>1, <1>2, <2>4
<1>5. x + y = a * (c + d) /\ c + d \in Nat
  BY <1>1, <1>2, <1>3
<1>6. x % a = 0
  <2>1. a * c = c * a
    BY <1>3
  <2>2. (c * a) % a = 0
    BY <1>3
  <2> QED
    BY <1>1, <2>1, <2>2
<1>7. ASSUME x > 0
      PROVE  a <= x
  <2>1. c # 0
    BY <1>1, <1>3, <1>7
  <2>2. a * 1 <= a * c
    BY <1>3, <2>1
  <2> QED
    BY <1>1, <1>3, <2>2
<1> QED
  BY <1>4, <1>5, <1>6, <1>7 DEF Divides

LEMMA DividesTrans ==
  ASSUME NEW a \in Nat, NEW b \in Nat, NEW x \in Nat, Divides(a, b), Divides(b, x)
  PROVE  Divides(a, x)
<1>1. PICK c \in Nat : b = a * c
  BY DEF Divides
<1>2. PICK d \in Nat : x = b * d
  BY DEF Divides
<1>3. (a * c) * d = a * (c * d) /\ c * d \in Nat
  OBVIOUS
<1> QED
  BY <1>1, <1>2, <1>3 DEF Divides

-----------------------------------------------------------------------------
(* Sizes. *)

IsPower(a) == \E k \in Nat : a = Pow2[k]

LEMMA Powers ==
  ASSUME NEW a, IsPower(a), NEW b, IsPower(b)
  PROVE  a \in Positive /\ a \in Nat /\ (a <= b => Divides(a, b))
  BY Pow2Positive, Pow2Ordered DEF IsPower, Positive

LEMMA Constants ==
  /\ IsPower(Overhead) /\ IsPower(MINALIGN) /\ IsPower(PAGESZ)
  /\ Overhead <= PAGESZ /\ NPages \in Nat
  /\ \A a \in PowersOfTwo : IsPower(a)
  /\ Pow2[SIZEBITS] \in Positive /\ Pow2[INTBITS] \in Positive
<1>1. SIZEBITS \in Nat /\ INTBITS \in Nat
  BY MallocAssumption
<1>2. \A a \in PowersOfTwo : IsPower(a)
  BY <1>1 DEF PowersOfTwo, IsPower
<1>3. Pow2[SIZEBITS] \in Positive /\ Pow2[INTBITS] \in Positive
  BY <1>1, Pow2Positive DEF Positive
<1> QED
  BY <1>2, <1>3, MallocAssumption

LEMMA Blocks ==
  ASSUME NEW b \in Bucket
  PROVE  /\ b \in Nat /\ b + MINSHIFT \in Nat /\ b + MINSHIFT < INTBITS
         /\ IsPower(BlockSize(b)) /\ BlockSize(b) \in Positive /\ BlockSize(b) \in Nat
<1>1. b \in Nat /\ b + MINSHIFT \in Nat /\ b + MINSHIFT < INTBITS
  BY MallocAssumption DEF Bucket
<1>2. IsPower(BlockSize(b))
  BY <1>1 DEF IsPower, BlockSize
<1> QED
  BY <1>1, <1>2, Powers

(* What the address of a block is a multiple of: mmap() knows only pages. *)
Unit(b) == IF BlockSize(b) <= PAGESZ THEN BlockSize(b) ELSE PAGESZ

LEMMA Units ==
  ASSUME NEW b \in Bucket
  PROVE  /\ IsPower(Unit(b)) /\ Divides(Unit(b), PAGESZ)
         /\ CoreSize(b) = IF BlockSize(b) <= PAGESZ THEN PAGESZ ELSE BlockSize(b)
         /\ CoreSize(b) \in Positive /\ CoreSize(b) \in Nat
         /\ Divides(BlockSize(b), CoreSize(b)) /\ Divides(PAGESZ, CoreSize(b))
<1>1. IsPower(BlockSize(b)) /\ IsPower(PAGESZ) /\ BlockSize(b) \in Positive /\ PAGESZ \in Positive
  BY Blocks, Constants, Powers
<1>2. BlockSize(b) \in Nat /\ PAGESZ \in Nat
  BY <1>1 DEF Positive
<1>3. CoreSize(b) = IF BlockSize(b) <= PAGESZ THEN PAGESZ ELSE BlockSize(b)
  BY <1>2, MaxOfTwo DEF CoreSize
<1>4. IsPower(CoreSize(b)) /\ CoreSize(b) \in Positive /\ CoreSize(b) \in Nat
  BY <1>1, <1>2, <1>3
<1>5. Divides(BlockSize(b), CoreSize(b)) /\ Divides(PAGESZ, CoreSize(b))
  <2>1. BlockSize(b) <= CoreSize(b) /\ PAGESZ <= CoreSize(b)
    BY <1>2, <1>3
  <2> QED
    BY <1>1, <1>4, <2>1, Powers
<1>6. IsPower(Unit(b)) /\ Unit(b) <= PAGESZ
  BY <1>1, <1>2 DEF Unit
<1>7. Divides(Unit(b), PAGESZ)
  BY <1>1, <1>6, Powers
<1> QED
  BY <1>3, <1>4, <1>5, <1>6, <1>7

(* The padding that aligned_alloc() reserves suffices wherever the block is,
   also when it asks for more than the block's address is a multiple of. *)
LEMMA PadBound ==
  ASSUME NEW b \in Bucket, NEW op \in Nat, Divides(Unit(b), op),
         NEW a, IsPower(a), a <= BlockSize(b)
  PROVE  LET rv == RoundUp(op + Overhead, a)
         IN  /\ rv \in Nat /\ Divides(a, rv)
             /\ Overhead <= rv - op /\ rv - op <= RoundUp(Overhead, a)
<1> DEFINE rv == RoundUp(op + Overhead, a)
           R  == RoundUp(Overhead, a)
<1>1. /\ IsPower(Overhead) /\ IsPower(PAGESZ) /\ IsPower(Unit(b)) /\ IsPower(BlockSize(b))
      /\ Overhead <= PAGESZ
  BY Constants, Units, Blocks
<1>2. /\ Overhead \in Nat /\ Overhead > 0 /\ a \in Positive /\ a \in Nat /\ a > 0
      /\ PAGESZ \in Positive /\ PAGESZ \in Nat /\ Unit(b) \in Nat /\ BlockSize(b) \in Nat
  BY <1>1, Powers DEF Positive
<1>3. op + Overhead \in Nat
  BY <1>2
<1>4. rv \in Nat /\ op + Overhead <= rv /\ rv < op + Overhead + a /\ Divides(a, rv)
  BY <1>2, <1>3, RoundUpIs
<1>5. R \in Nat /\ Overhead <= R /\ Divides(a, R)
  BY <1>2, RoundUpIs
<1> HIDE DEF rv, R
<1>6. CASE a <= Unit(b)
  <2>1. Divides(a, op)
    BY <1>1, <1>2, <1>6, Powers, DividesTrans
  <2>2. Divides(a, op + R) /\ op + R \in Nat
    BY <1>2, <1>5, <2>1, Gap
  <2>3. rv < (op + R) + a
    BY <1>2, <1>4, <1>5
  <2>4. rv <= op + R
    BY <1>2, <1>4, <2>2, <2>3, Gap
  <2> QED
    BY <1>2, <1>4, <1>5, <2>4 DEF rv, R
<1>7. CASE ~(a <= Unit(b))
  <2>1. Unit(b) = PAGESZ /\ PAGESZ <= a
    BY <1>2, <1>7 DEF Unit
  <2>2. Divides(PAGESZ, a)
    BY <1>1, <2>1, Powers
  <2>3. Divides(PAGESZ, rv)
    BY <1>2, <1>4, <2>2, DividesTrans
  <2>4. Divides(PAGESZ, op + a) /\ op + a \in Nat
    BY <1>2, <2>1, <2>2, Gap
  <2>5. rv < (op + a) + PAGESZ
    BY <1>1, <1>2, <1>4
  <2>6. rv <= op + a
    BY <1>2, <1>4, <2>3, <2>4, <2>5, Gap
  <2>7. a <= R
    BY <1>2, <1>5, Gap
  <2> QED
    BY <1>2, <1>4, <1>5, <2>6, <2>7 DEF rv, R
<1> QED
  BY <1>6, <1>7

-----------------------------------------------------------------------------
(* A partition of the bytes M into two families of spans, of the free blocks F
   and of the blocks in use L; what happens to it when a block changes sides
   and when memory is added. *)

Parts(F, FS, L, LS, M) ==
    /\ \A f, g \in F : f # g => FS[f] \cap FS[g] = {}
    /\ \A k, l \in L : k # l => LS[k] \cap LS[l] = {}
    /\ \A f \in F, l \in L : FS[f] \cap LS[l] = {}
    /\ \A f \in F : FS[f] \subseteq M
    /\ \A l \in L : LS[l] \subseteq M
    /\ \A x \in M : (\E f \in F : x \in FS[f]) \/ (\E l \in L : x \in LS[l])

LEMMA TakeParts ==
  ASSUME NEW F, NEW FS, NEW L, NEW LS, NEW M, Parts(F, FS, L, LS, M),
         NEW f0 \in F, NEW l0, l0 \notin L,
         NEW E, NEW ES, NEW phi \in [E -> F \ {f0}],
         \A f \in E : ES[f] = FS[phi[f]],
         \A f, g \in E : phi[f] = phi[g] => f = g,
         \A f \in F \ {f0} : \E e \in E : phi[e] = f,
         NEW KS, \A l \in L : KS[l] = LS[l], KS[l0] = FS[f0]
  PROVE  Parts(E, ES, L \cup {l0}, KS, M)
<1>0. \A f \in E : phi[f] \in F /\ phi[f] # f0
  OBVIOUS
<1>1. \A f, g \in E : f # g => ES[f] \cap ES[g] = {}
  BY DEF Parts
<1>2. \A k, l \in L \cup {l0} : k # l => KS[k] \cap KS[l] = {}
  <2>1. \A k \in L : KS[k] \cap KS[l0] = {}
    BY DEF Parts
  <2>2. \A k \in L : KS[l0] \cap KS[k] = {}
    BY <2>1
  <2>3. \A k, l \in L : k # l => KS[k] \cap KS[l] = {}
    BY DEF Parts
  <2> QED
    BY <2>1, <2>2, <2>3
<1>3. \A f \in E, l \in L \cup {l0} : ES[f] \cap KS[l] = {}
  <2>1. \A f \in E, l \in L : ES[f] \cap KS[l] = {}
    BY <1>0 DEF Parts
  <2>2. \A f \in E : ES[f] \cap KS[l0] = {}
    BY <1>0 DEF Parts
  <2> QED
    BY <2>1, <2>2
<1>4. \A f \in E : ES[f] \subseteq M
  BY <1>0 DEF Parts
<1>5. \A l \in L \cup {l0} : KS[l] \subseteq M
  BY DEF Parts
<1>6. ASSUME NEW x \in M
      PROVE  (\E f \in E : x \in ES[f]) \/ (\E l \in L \cup {l0} : x \in KS[l])
  <2>1. (\E f \in F : x \in FS[f]) \/ (\E l \in L : x \in LS[l])
    BY DEF Parts
  <2>2. CASE x \in FS[f0]
    BY <2>2
  <2>3. CASE \E f \in F \ {f0} : x \in FS[f]
    <3>1. PICK f \in F \ {f0} : x \in FS[f]
      BY <2>3
    <3>2. PICK e \in E : phi[e] = f
      BY <3>1
    <3> QED
      BY <3>1, <3>2
  <2>4. CASE \E l \in L : x \in LS[l]
    BY <2>4
  <2> QED
    BY <2>1, <2>2, <2>3, <2>4
<1> QED
  BY <1>1, <1>2, <1>3, <1>4, <1>5, <1>6 DEF Parts

LEMMA GiveParts ==
  ASSUME NEW F, NEW FS, NEW L, NEW LS, NEW M, Parts(F, FS, L, LS, M),
         NEW l0 \in L, NEW E, NEW e0 \in E, NEW ES, NEW D, D = E \ {e0}, NEW phi \in [D -> F],
         \A f \in D : ES[f] = FS[phi[f]],
         \A f, g \in D : phi[f] = phi[g] => f = g,
         \A f \in F : \E e \in D : phi[e] = f,
         ES[e0] = LS[l0],
         NEW KS, \A l \in L \ {l0} : KS[l] = LS[l]
  PROVE  Parts(E, ES, L \ {l0}, KS, M)
<1>0. \A f \in D : phi[f] \in F
  OBVIOUS
<1>1. \A f, g \in E : f # g => ES[f] \cap ES[g] = {}
  <2>1. \A f \in D : ES[f] \cap ES[e0] = {}
    BY <1>0 DEF Parts
  <2>2. \A f \in D : ES[e0] \cap ES[f] = {}
    BY <2>1
  <2>3. \A f, g \in D : f # g => ES[f] \cap ES[g] = {}
    BY <1>0 DEF Parts
  <2> QED
    BY <2>1, <2>2, <2>3
<1>2. \A k, l \in L \ {l0} : k # l => KS[k] \cap KS[l] = {}
  BY DEF Parts
<1>3. \A f \in E, l \in L \ {l0} : ES[f] \cap KS[l] = {}
  <2>1. \A f \in D, l \in L \ {l0} : ES[f] \cap KS[l] = {}
    BY <1>0 DEF Parts
  <2>2. \A l \in L \ {l0} : ES[e0] \cap KS[l] = {}
    BY DEF Parts
  <2> QED
    BY <2>1, <2>2
<1>4. \A f \in E : ES[f] \subseteq M
  BY <1>0 DEF Parts
<1>5. \A l \in L \ {l0} : KS[l] \subseteq M
  BY DEF Parts
<1>6. ASSUME NEW x \in M
      PROVE  (\E f \in E : x \in ES[f]) \/ (\E l \in L \ {l0} : x \in KS[l])
  <2>1. (\E f \in F : x \in FS[f]) \/ (\E l \in L : x \in LS[l])
    BY DEF Parts
  <2>2. CASE x \in LS[l0]
    BY <2>2
  <2>3. CASE \E f \in F : x \in FS[f]
    <3>1. PICK f \in F : x \in FS[f]
      BY <2>3
    <3>2. PICK e \in D : phi[e] = f
      BY <3>1
    <3> QED
      BY <3>1, <3>2
  <2>4. CASE \E l \in L \ {l0} : x \in LS[l]
    BY <2>4
  <2> QED
    BY <2>1, <2>2, <2>3, <2>4
<1> QED
  BY <1>1, <1>2, <1>3, <1>4, <1>5, <1>6 DEF Parts

LEMMA GrowParts ==
  ASSUME NEW F, NEW FS, NEW L, NEW LS, NEW M, Parts(F, FS, L, LS, M),
         NEW N, N \cap M = {}, NEW G, NEW ES,
         \A f \in F : ES[f] = FS[f],
         \A f, g \in G : f # g => ES[f] \cap ES[g] = {},
         \A g \in G : ES[g] \subseteq N,
         \A x \in N : \E g \in G : x \in ES[g]
  PROVE  Parts(F \cup G, ES, L, LS, M \cup N)
<1>1. \A f \in F : ES[f] \subseteq M
  BY DEF Parts
<1>2. \A l \in L : LS[l] \subseteq M
  BY DEF Parts
<1>3. \A f, g \in F \cup G : f # g => ES[f] \cap ES[g] = {}
  <2>1. \A f, g \in F : f # g => ES[f] \cap ES[g] = {}
    BY DEF Parts
  <2>2. \A f \in F, g \in G : ES[f] \cap ES[g] = {} /\ ES[g] \cap ES[f] = {}
    BY <1>1
  <2> QED
    BY <2>1, <2>2
<1>4. \A f \in F \cup G, l \in L : ES[f] \cap LS[l] = {}
  <2>1. \A f \in F, l \in L : ES[f] \cap LS[l] = {}
    BY DEF Parts
  <2>2. \A f \in G, l \in L : ES[f] \cap LS[l] = {}
    BY <1>2
  <2> QED
    BY <2>1, <2>2
<1>5. \A f \in F \cup G : ES[f] \subseteq M \cup N
  BY <1>1
<1>6. \A l \in L : LS[l] \subseteq M \cup N
  BY <1>2
<1>7. \A x \in M \cup N : (\E f \in F \cup G : x \in ES[f]) \/ (\E l \in L : x \in LS[l])
  <2>1. \A x \in M : (\E f \in F : x \in ES[f]) \/ (\E l \in L : x \in LS[l])
    BY DEF Parts
  <2> QED
    BY <2>1
<1>8. \A k, l \in L : k # l => LS[k] \cap LS[l] = {}
  BY DEF Parts
<1> QED
  BY <1>3, <1>4, <1>5, <1>6, <1>7, <1>8 DEF Parts

-----------------------------------------------------------------------------
(* The heap, as a function of the free lists nf, the pages mp and the pointers
   in use lv: an operation may change it more than once in a step. *)

FreeAt(nf) == {f \in Bucket \X Nat : f[2] \in DOMAIN nf[f[1]]}
FreeSpan(nf) == [f \in FreeAt(nf) |-> Bytes(nf[f[1]][f[2]], BlockSize(f[1]))]
LiveSpan(lv) == [cp \in DOMAIN lv |-> Bytes(cp - lv[cp].alignpad, BlockSize(lv[cp].index))]
Memory(mp) == {x \in Int : \E p \in mp : p * PAGESZ <= x /\ x < p * PAGESZ + PAGESZ}

(* A block as morecore() makes them: of a bucket that memory suffices for, and
   aligned as its size or the page size allows. *)
IsBlock(b, op) ==
    /\ b \in Bucket /\ op \in Nat /\ Divides(Unit(b), op)
    /\ BlockSize(b) <= NPages * PAGESZ
    /\ op + BlockSize(b) <= (NPages + 1) * PAGESZ

(* The header is inside the block. *)
IsLive(cp, blk) ==
    /\ cp \in Nat /\ blk.alignpad \in Nat
    /\ IsBlock(blk.index, cp - blk.alignpad)
    /\ Overhead <= blk.alignpad /\ blk.alignpad <= BlockSize(blk.index)

HeapOK(nf, mp, lv) ==
    /\ nf \in [Bucket -> Seq(Nat)]
    /\ mp \subseteq 1 .. NPages
    /\ \A b \in Bucket : \A i \in DOMAIN nf[b] : IsBlock(b, nf[b][i])
    /\ \A cp \in DOMAIN lv : IsLive(cp, lv[cp])
    /\ Parts(FreeAt(nf), FreeSpan(nf), DOMAIN lv, LiveSpan(lv), Memory(mp))

LEMMA InBytes ==
  ASSUME NEW x, NEW addr \in Int, NEW len \in Int
  PROVE  x \in Bytes(addr, len) <=> x \in Int /\ addr <= x /\ x < addr + len
  BY DEF Bytes

(* The properties in terms of the state. *)
LEMMA PartitionFromHeap == HeapOK(nextf, mapped, live) => HeapPartition
<1> SUFFICES ASSUME HeapOK(nextf, mapped, live) PROVE HeapPartition
  OBVIOUS
<1>1. Parts(FreeAt(nextf), FreeSpan(nextf), DOMAIN live, LiveSpan(live), Memory(mapped))
  BY DEF HeapOK
<1>2. FreeBlocks = FreeAt(nextf)
  <2>1. \A b \in Bucket : DOMAIN nextf[b] \subseteq Nat
    BY DEF HeapOK
  <2>2. ASSUME NEW f \in FreeBlocks
        PROVE  f \in FreeAt(nextf)
    <3>1. PICK b \in Bucket : f \in {<<b, i>> : i \in DOMAIN nextf[b]}
      BY DEF FreeBlocks
    <3>2. PICK i \in DOMAIN nextf[b] : f = <<b, i>>
      BY <3>1
    <3> QED
      BY <2>1, <3>2 DEF FreeAt
  <2>3. ASSUME NEW f \in FreeAt(nextf)
        PROVE  f \in FreeBlocks
    <3>1. f[1] \in Bucket /\ f[2] \in DOMAIN nextf[f[1]] /\ f = <<f[1], f[2]>>
      BY DEF FreeAt
    <3>2. f \in {<<f[1], j>> : j \in DOMAIN nextf[f[1]]}
      BY <3>1
    <3> QED
      BY <3>1, <3>2 DEF FreeBlocks
  <2> QED
    BY <2>2, <2>3
<1>3. \A f \in FreeBlocks : FreeBytes(f) = FreeSpan(nextf)[f]
  BY <1>2 DEF FreeBytes, FreeSpan
<1>4. \A cp \in DOMAIN live : LiveBytes(cp) = LiveSpan(live)[cp]
  BY DEF LiveBytes, LiveSpan
<1>5. MappedBytes = Memory(mapped)
  <2>1. PAGESZ \in Int /\ \A p \in mapped : p \in Int
    BY Constants, Powers DEF HeapOK
  <2>2. \A p \in mapped : \A x : x \in Bytes(p * PAGESZ, PAGESZ) <=>
                                x \in Int /\ p * PAGESZ <= x /\ x < p * PAGESZ + PAGESZ
    BY <2>1, InBytes
  <2>3. ASSUME NEW x \in MappedBytes
        PROVE  x \in Memory(mapped)
    <3>1. PICK p \in mapped : x \in Bytes(p * PAGESZ, PAGESZ)
      BY DEF MappedBytes
    <3> QED
      BY <2>2, <3>1 DEF Memory
  <2>4. ASSUME NEW x \in Memory(mapped)
        PROVE  x \in MappedBytes
    <3>1. PICK p \in mapped : x \in Bytes(p * PAGESZ, PAGESZ)
      BY <2>2 DEF Memory
    <3> QED
      BY <3>1 DEF MappedBytes
  <2> QED
    BY <2>3, <2>4
<1> DEFINE FU == UNION {FreeBytes(f) : f \in FreeBlocks}
           LU == UNION {LiveBytes(cp) : cp \in DOMAIN live}
<1>6. FU \cup LU = MappedBytes
  <2>1. ASSUME NEW x \in FU
        PROVE  \E f \in FreeBlocks : x \in FreeBytes(f)
    OBVIOUS
  <2>2. ASSUME NEW x \in LU
        PROVE  \E cp \in DOMAIN live : x \in LiveBytes(cp)
    OBVIOUS
  <2>3. ASSUME NEW f \in FreeBlocks, NEW x \in FreeBytes(f)
        PROVE  x \in FU
    OBVIOUS
  <2>4. ASSUME NEW cp \in DOMAIN live, NEW x \in LiveBytes(cp)
        PROVE  x \in LU
    OBVIOUS
  <2> HIDE DEF FU, LU
  <2>5. \A f \in FreeBlocks : FreeBytes(f) \subseteq MappedBytes
    BY <1>1, <1>2, <1>3, <1>5 DEF Parts
  <2>6. \A cp \in DOMAIN live : LiveBytes(cp) \subseteq MappedBytes
    BY <1>1, <1>4, <1>5 DEF Parts
  <2>7. \A x \in MappedBytes : \/ \E f \in FreeBlocks : x \in FreeBytes(f)
                               \/ \E cp \in DOMAIN live : x \in LiveBytes(cp)
    BY <1>1, <1>2, <1>3, <1>4, <1>5 DEF Parts
  <2>8. FU \cup LU \subseteq MappedBytes
    BY <2>1, <2>2, <2>5, <2>6
  <2>9. MappedBytes \subseteq FU \cup LU
    BY <2>3, <2>4, <2>7
  <2> QED
    BY <2>8, <2>9
<1>7. \A f, g \in FreeBlocks : f # g => FreeBytes(f) \cap FreeBytes(g) = {}
  BY <1>1, <1>2, <1>3 DEF Parts
<1>8. \A cp, cq \in DOMAIN live : cp # cq => LiveBytes(cp) \cap LiveBytes(cq) = {}
  <2>1. \A cp, cq \in DOMAIN live : cp # cq => LiveSpan(live)[cp] \cap LiveSpan(live)[cq] = {}
    BY <1>1 DEF Parts
  <2> QED
    BY <1>4, <2>1
<1>9. \A f \in FreeBlocks, cp \in DOMAIN live : FreeBytes(f) \cap LiveBytes(cp) = {}
  BY <1>1, <1>2, <1>3, <1>4 DEF Parts
<1> QED
  BY <1>6, <1>7, <1>8, <1>9 DEF HeapPartition

(* What the set of free blocks is. *)
LEMMA FreeAtIs ==
  ASSUME NEW nf \in [Bucket -> Seq(Nat)]
  PROVE  /\ \A f \in FreeAt(nf) : /\ f = <<f[1], f[2]>> /\ f[1] \in Bucket /\ f[2] \in Nat
                                  /\ f[2] \in 1 .. Len(nf[f[1]])
         /\ \A b \in Bucket : \A i \in 1 .. Len(nf[b]) : <<b, i>> \in FreeAt(nf)
<1>1. \A b \in Bucket : DOMAIN nf[b] = 1 .. Len(nf[b]) /\ Len(nf[b]) \in Nat
  OBVIOUS
<1> QED
  BY <1>1 DEF FreeAt

(* lw has the pointer cp to the block b at op in addition to those of lv. *)
Adds(lv, lw, cp, op, b) ==
    /\ DOMAIN lw = DOMAIN lv \cup {cp}
    /\ \A c \in DOMAIN lv : c # cp => lw[c] = lv[c]
    /\ lw[cp].alignpad = cp - op /\ lw[cp].index = b

(* The head of a free list goes to a caller. *)
LEMMA TakeKeepsHeap ==
  ASSUME NEW nf, NEW mp, NEW lv, HeapOK(nf, mp, lv),
         NEW b \in Bucket, nf[b] # <<>>, NEW op, op = Head(nf[b]),
         NEW a, IsPower(a), a <= BlockSize(b), RoundUp(Overhead, a) <= BlockSize(b),
         NEW cp, cp = RoundUp(op + Overhead, a),
         NEW mf, mf = [nf EXCEPT ![b] = Tail(@)],
         NEW lw, Adds(lv, lw, cp, op, b)
  PROVE  HeapOK(mf, mp, lw) /\ cp \notin DOMAIN lv
<1>0. /\ DOMAIN lw = DOMAIN lv \cup {cp}
      /\ \A c \in DOMAIN lv : c # cp => lw[c] = lv[c]
      /\ lw[cp].alignpad = cp - op /\ lw[cp].index = b
  BY DEF Adds
<1> USE <1>0
<1>1. /\ nf \in [Bucket -> Seq(Nat)] /\ mp \subseteq 1 .. NPages
      /\ \A c \in Bucket : \A i \in DOMAIN nf[c] : IsBlock(c, nf[c][i])
      /\ \A c \in DOMAIN lv : IsLive(c, lv[c])
      /\ Parts(FreeAt(nf), FreeSpan(nf), DOMAIN lv, LiveSpan(lv), Memory(mp))
  BY DEF HeapOK
<1>2. /\ nf[b] \in Seq(Nat) /\ Len(nf[b]) \in Nat /\ Len(nf[b]) >= 1
      /\ DOMAIN nf[b] = 1 .. Len(nf[b]) /\ op = nf[b][1]
      /\ Tail(nf[b]) \in Seq(Nat) /\ Len(Tail(nf[b])) = Len(nf[b]) - 1
      /\ \A i \in 1 .. Len(nf[b]) - 1 : Tail(nf[b])[i] = nf[b][i + 1]
  BY <1>1
<1>3. IsBlock(b, op)
  BY <1>1, <1>2
<1>4. op \in Nat /\ Divides(Unit(b), op)
  BY <1>3 DEF IsBlock
<1>5. /\ Overhead \in Nat /\ Overhead > 0 /\ BlockSize(b) \in Nat /\ RoundUp(Overhead, a) \in Nat
  <2>1. a \in Positive /\ Overhead \in Positive /\ BlockSize(b) \in Nat
    BY Constants, Powers, Blocks
  <2>2. Overhead \in Nat /\ Overhead > 0
    BY <2>1 DEF Positive
  <2> QED
    BY <2>1, <2>2, RoundUpIs
<1>6. cp \in Nat /\ Overhead <= cp - op /\ cp - op <= RoundUp(Overhead, a)
  BY <1>4, PadBound
<1>7. IsLive(cp, lw[cp])
  <2>1. cp - (cp - op) = op /\ cp - op \in Nat /\ cp - op <= BlockSize(b)
    BY <1>4, <1>5, <1>6
  <2> QED
    BY <1>3, <1>6, <2>1 DEF IsLive
<1>8. cp - 1 \in Bytes(op, BlockSize(b))
  <2>1. cp - 1 \in Int /\ op <= cp - 1 /\ cp - 1 < op + BlockSize(b)
    BY <1>4, <1>5, <1>6
  <2> QED
    BY <1>4, <1>5, <2>1, InBytes
<1>9. <<b, 1>> \in FreeAt(nf) /\ FreeSpan(nf)[<<b, 1>>] = Bytes(op, BlockSize(b))
  <2>1. 1 \in 1 .. Len(nf[b])
    BY <1>2
  <2>2. <<b, 1>> \in FreeAt(nf)
    BY <1>1, <2>1, FreeAtIs
  <2> QED
    BY <1>2, <2>2 DEF FreeSpan
<1>10. cp \notin DOMAIN lv
  <2> SUFFICES ASSUME cp \in DOMAIN lv PROVE FALSE
    OBVIOUS
  <2>1. IsLive(cp, lv[cp])
    BY <1>1
  <2>2. /\ lv[cp].index \in Bucket /\ lv[cp].alignpad \in Nat
        /\ Overhead <= lv[cp].alignpad /\ lv[cp].alignpad <= BlockSize(lv[cp].index)
    BY <2>1 DEF IsLive, IsBlock
  <2>3. BlockSize(lv[cp].index) \in Nat
    BY <2>2, Blocks
  <2>4. cp - 1 \in Bytes(cp - lv[cp].alignpad, BlockSize(lv[cp].index))
    <3>1. /\ cp - 1 \in Int /\ cp - lv[cp].alignpad \in Int /\ cp - lv[cp].alignpad <= cp - 1
          /\ cp - 1 < cp - lv[cp].alignpad + BlockSize(lv[cp].index)
      BY <1>5, <1>6, <2>2, <2>3
    <3> QED
      BY <2>3, <3>1, InBytes
  <2>5. cp - 1 \in LiveSpan(lv)[cp]
    BY <2>4 DEF LiveSpan
  <2>6. FreeSpan(nf)[<<b, 1>>] \cap LiveSpan(lv)[cp] = {}
    BY <1>1, <1>9 DEF Parts
  <2> QED
    BY <1>8, <1>9, <2>5, <2>6
<1>11. mf \in [Bucket -> Seq(Nat)] /\ mf[b] = Tail(nf[b]) /\ \A c \in Bucket : c # b => mf[c] = nf[c]
  BY <1>1, <1>2
<1>12. ASSUME NEW c \in Bucket, NEW i \in DOMAIN mf[c]
       PROVE  IsBlock(c, mf[c][i])
  <2>1. CASE c # b
    BY <1>1, <1>11, <2>1
  <2>2. CASE c = b
    <3>1. i \in 1 .. Len(nf[b]) - 1
      BY <1>2, <1>11, <2>2
    <3>2. i + 1 \in DOMAIN nf[b] /\ mf[c][i] = nf[b][i + 1]
      BY <1>2, <1>11, <2>2, <3>1
    <3> QED
      BY <1>1, <2>2, <3>2
  <2> QED
    BY <2>1, <2>2
<1>13. \A c \in DOMAIN lw : IsLive(c, lw[c])
  BY <1>1, <1>7
<1> DEFINE phi == [f \in FreeAt(mf) |-> IF f[1] = b THEN <<b, f[2] + 1>> ELSE f]
<1>14. ASSUME NEW f \in FreeAt(mf)
       PROVE  /\ f = <<f[1], f[2]>> /\ f[1] \in Bucket /\ f[2] \in Nat
              /\ f[1] = b => f[2] \in 1 .. Len(nf[b]) - 1
              /\ f[1] # b => f[2] \in 1 .. Len(nf[f[1]])
  BY <1>2, <1>11, FreeAtIs
<1>15. ASSUME NEW f \in FreeAt(mf)
       PROVE  /\ phi[f] \in FreeAt(nf) \ {<<b, 1>>}
              /\ FreeSpan(mf)[f] = FreeSpan(nf)[phi[f]]
  <2>1. CASE f[1] = b
    <3>0. f[2] \in 1 .. Len(nf[b]) - 1
      BY <1>14, <2>1
    <3>1. phi[f] = <<b, f[2] + 1>> /\ f[2] + 1 \in 1 .. Len(nf[b]) /\ f[2] + 1 # 1
      BY <1>2, <2>1, <3>0
    <3>2. phi[f] \in FreeAt(nf) /\ phi[f] # <<b, 1>>
      BY <1>1, <3>1, FreeAtIs
    <3>3. mf[f[1]][f[2]] = nf[b][f[2] + 1]
      BY <1>2, <1>11, <1>14, <2>1
    <3>4. phi[f][1] = b /\ phi[f][2] = f[2] + 1
      BY <3>1
    <3> HIDE DEF phi
    <3>5. FreeSpan(mf)[f] = Bytes(mf[f[1]][f[2]], BlockSize(f[1]))
      BY DEF FreeSpan
    <3>6. FreeSpan(nf)[phi[f]] = Bytes(nf[phi[f][1]][phi[f][2]], BlockSize(phi[f][1]))
      BY <3>2 DEF FreeSpan
    <3> QED
      BY <2>1, <3>2, <3>3, <3>4, <3>5, <3>6
  <2>2. CASE f[1] # b
    <3>1. phi[f] = f /\ <<f[1], f[2]>> \in FreeAt(nf)
      BY <1>1, <1>14, <2>2, FreeAtIs
    <3>2. f \in FreeAt(nf) /\ f # <<b, 1>>
      BY ONLY <1>14, <2>2, <3>1
    <3> HIDE DEF phi
    <3>3. FreeSpan(mf)[f] = Bytes(mf[f[1]][f[2]], BlockSize(f[1]))
      BY DEF FreeSpan
    <3>4. FreeSpan(nf)[f] = Bytes(nf[f[1]][f[2]], BlockSize(f[1]))
      BY <3>2 DEF FreeSpan
    <3>5. mf[f[1]] = nf[f[1]]
      BY <1>11, <1>14, <2>2
    <3> QED
      BY ONLY <3>1, <3>2, <3>3, <3>4, <3>5
  <2> QED
    BY <2>1, <2>2
<1>16. phi \in [FreeAt(mf) -> FreeAt(nf) \ {<<b, 1>>}]
  BY <1>15
<1>17. ASSUME NEW f \in FreeAt(mf), NEW g \in FreeAt(mf), phi[f] = phi[g]
       PROVE  f = g
  <2>1. /\ f = <<f[1], f[2]>> /\ f[2] \in Nat /\ g = <<g[1], g[2]>> /\ g[2] \in Nat
    BY <1>14
  <2>2. phi[f] = (IF f[1] = b THEN <<b, f[2] + 1>> ELSE f) /\ phi[g] = (IF g[1] = b THEN <<b, g[2] + 1>> ELSE g)
    OBVIOUS
  <2> HIDE DEF phi
  <2>3. phi[f][1] = f[1] /\ phi[g][1] = g[1]
    BY <2>2
  <2>4. CASE f[1] = b
    <3>0. <<b, f[2] + 1>> = <<b, g[2] + 1>>
      BY <1>17, <2>2, <2>3, <2>4
    <3>1. f[2] + 1 = g[2] + 1
      BY <3>0
    <3> QED
      BY <1>17, <2>1, <2>3, <2>4, <3>1
  <2>5. CASE f[1] # b
    BY <1>17, <2>2, <2>3, <2>5
  <2> QED
    BY <2>4, <2>5
<1>18. ASSUME NEW f \in FreeAt(nf) \ {<<b, 1>>}
       PROVE  \E e \in FreeAt(mf) : phi[e] = f
  <2>1. /\ f = <<f[1], f[2]>> /\ f[1] \in Bucket /\ f[2] \in Nat /\ f[2] \in 1 .. Len(nf[f[1]])
    BY <1>1, FreeAtIs
  <2>2. CASE f[1] = b
    <3>1. f[2] # 1
      BY <2>1, <2>2
    <3>2. f[2] - 1 \in 1 .. Len(mf[b])
      BY <1>2, <1>11, <2>1, <2>2, <3>1
    <3>3. <<b, f[2] - 1>> \in FreeAt(mf)
      BY <1>11, <3>2, FreeAtIs
    <3>4. phi[<<b, f[2] - 1>>] = <<b, (f[2] - 1) + 1>> /\ (f[2] - 1) + 1 = f[2]
      BY <2>1, <3>3
    <3> QED
      BY <2>1, <2>2, <3>3, <3>4
  <2>3. CASE f[1] # b
    <3>1. <<f[1], f[2]>> \in FreeAt(mf)
      BY <1>11, <2>1, <2>3, FreeAtIs
    <3>2. f \in FreeAt(mf)
      BY <2>1, <3>1
    <3> QED
      BY <2>3, <3>2
  <2> QED
    BY <2>2, <2>3
<1> HIDE DEF phi
<1>19. /\ \A l \in DOMAIN lv : LiveSpan(lw)[l] = LiveSpan(lv)[l]
       /\ LiveSpan(lw)[cp] = FreeSpan(nf)[<<b, 1>>]
  <2>1. cp - (cp - op) = op
    BY <1>4, <1>6
  <2> QED
    BY <1>9, <1>10, <2>1 DEF LiveSpan
<1>20. Parts(FreeAt(mf), FreeSpan(mf), DOMAIN lv \cup {cp}, LiveSpan(lw), Memory(mp))
  <2> DEFINE F == FreeAt(nf)
             FS == FreeSpan(nf)
             E == FreeAt(mf)
             ES == FreeSpan(mf)
             LS == LiveSpan(lv)
             KS == LiveSpan(lw)
             L == DOMAIN lv
             M == Memory(mp)
             f0 == <<b, 1>>
  <2>1. Parts(F, FS, L, LS, M) /\ cp \notin L /\ f0 \in F /\ phi \in [E -> F \ {f0}]
    BY <1>1, <1>9, <1>10, <1>16
  <2>2. \A f \in E : ES[f] = FS[phi[f]]
    BY <1>15
  <2>3. \A f, g \in E : phi[f] = phi[g] => f = g
    BY <1>17
  <2>4. \A f \in F \ {f0} : \E e \in E : phi[e] = f
    BY <1>18
  <2>5. (\A l \in L : KS[l] = LS[l]) /\ KS[cp] = FS[f0]
    BY <1>19
  <2> HIDE DEF F, FS, E, ES, LS, KS, L, M, f0
  <2>6. Parts(E, ES, L \cup {cp}, KS, M)
    BY ONLY <2>1, <2>2, <2>3, <2>4, <2>5, TakeParts
  <2> QED
    BY <2>6 DEF E, ES, KS, L, M
<1> QED
  BY <1>1, <1>10, <1>11, <1>12, <1>13, <1>20 DEF HeapOK

(* lw has the pointers of lv but for cp. *)
Drops(lv, lw, cp) == DOMAIN lw = DOMAIN lv \ {cp} /\ \A c \in DOMAIN lw : lw[c] = lv[c]

(* A block goes back to the front of its list. *)
LEMMA GiveKeepsHeap ==
  ASSUME NEW nf, NEW mp, NEW lv, HeapOK(nf, mp, lv),
         NEW cp \in DOMAIN lv, NEW b, b = lv[cp].index, NEW op, op = cp - lv[cp].alignpad,
         NEW mf, mf = [nf EXCEPT ![b] = <<op>> \o @],
         NEW lw, Drops(lv, lw, cp)
  PROVE  HeapOK(mf, mp, lw)
<1>0. DOMAIN lw = DOMAIN lv \ {cp} /\ \A c \in DOMAIN lw : lw[c] = lv[c]
  BY DEF Drops
<1> USE <1>0
<1>1. /\ nf \in [Bucket -> Seq(Nat)] /\ mp \subseteq 1 .. NPages
      /\ \A c \in Bucket : \A i \in DOMAIN nf[c] : IsBlock(c, nf[c][i])
      /\ \A c \in DOMAIN lv : IsLive(c, lv[c])
      /\ Parts(FreeAt(nf), FreeSpan(nf), DOMAIN lv, LiveSpan(lv), Memory(mp))
  BY DEF HeapOK
<1>2. IsBlock(b, op) /\ b \in Bucket /\ op \in Nat
  BY <1>1 DEF IsLive, IsBlock
<1>3. /\ nf[b] \in Seq(Nat) /\ Len(nf[b]) \in Nat
      /\ DOMAIN nf[b] = 1 .. Len(nf[b])
      /\ <<op>> \o nf[b] \in Seq(Nat) /\ Len(<<op>> \o nf[b]) = Len(nf[b]) + 1
      /\ (<<op>> \o nf[b])[1] = op
      /\ \A i \in 2 .. Len(nf[b]) + 1 : (<<op>> \o nf[b])[i] = nf[b][i - 1]
  BY <1>1, <1>2
<1>4. /\ mf \in [Bucket -> Seq(Nat)] /\ \A c \in Bucket : c # b => mf[c] = nf[c]
      /\ mf[b] = <<op>> \o nf[b]
  BY <1>1, <1>2, <1>3
<1>5. ASSUME NEW c \in Bucket, NEW i \in DOMAIN mf[c]
      PROVE  IsBlock(c, mf[c][i])
  <2>1. CASE c # b
    BY <1>1, <1>4, <2>1
  <2>2. CASE c = b
    <3>1. i \in 1 .. Len(nf[b]) + 1
      BY <1>3, <1>4, <2>2
    <3>2. CASE i = 1
      BY <1>2, <1>3, <1>4, <2>2, <3>2
    <3>3. CASE i # 1
      <4>1. i - 1 \in DOMAIN nf[b] /\ i \in 2 .. Len(nf[b]) + 1
        BY <1>3, <3>1, <3>3
      <4>2. mf[c][i] = nf[b][i - 1]
        BY <1>3, <1>4, <2>2, <4>1
      <4> QED
        BY <1>1, <1>2, <2>2, <4>1, <4>2
    <3> QED
      BY <3>2, <3>3
  <2> QED
    BY <2>1, <2>2
<1>6. \A c \in DOMAIN lw : IsLive(c, lw[c])
  BY <1>1
<1> DEFINE F == FreeAt(nf)
           FS == FreeSpan(nf)
           E == FreeAt(mf)
           ES == FreeSpan(mf)
           LS == LiveSpan(lv)
           KS == LiveSpan(lw)
           e0 == <<b, 1>>
           D == E \ {e0}
           phi == [f \in D |-> IF f[1] = b THEN <<b, f[2] - 1>> ELSE f]
<1>7. e0 \in E /\ ES[e0] = LS[cp]
  <2>1. 1 \in 1 .. Len(mf[b])
    BY <1>3, <1>4
  <2>2. e0 \in E
    BY <1>2, <1>4, <2>1, FreeAtIs
  <2> QED
    BY <1>3, <1>4, <2>2 DEF FreeSpan, LiveSpan
<1>8. ASSUME NEW f \in E \ {e0}
      PROVE  /\ f = <<f[1], f[2]>> /\ f[1] \in Bucket /\ f[2] \in Nat
             /\ f[1] = b => f[2] \in 2 .. Len(nf[b]) + 1
             /\ f[1] # b => f[2] \in 1 .. Len(nf[f[1]])
  <2>1. f = <<f[1], f[2]>> /\ f[1] \in Bucket /\ f[2] \in Nat /\ f[2] \in 1 .. Len(mf[f[1]])
    BY <1>4, FreeAtIs
  <2>2. ASSUME f[1] = b
        PROVE  f[2] # 1
    BY <2>1, <2>2
  <2> QED
    BY <1>3, <1>4, <2>1, <2>2
<1>9. ASSUME NEW f \in E \ {e0}
      PROVE  phi[f] \in F /\ ES[f] = FS[phi[f]]
  <2>1. CASE f[1] = b
    <3>1. f[2] \in 2 .. Len(nf[b]) + 1
      BY <1>8, <2>1
    <3>2. phi[f] = <<b, f[2] - 1>> /\ f[2] - 1 \in 1 .. Len(nf[b])
      BY <1>3, <2>1, <3>1
    <3>3. phi[f] \in F
      BY <1>1, <1>2, <3>2, FreeAtIs
    <3>4. mf[f[1]][f[2]] = nf[b][f[2] - 1]
      BY <1>3, <1>4, <2>1, <3>1
    <3>5. phi[f][1] = b /\ phi[f][2] = f[2] - 1
      BY <3>2
    <3> HIDE DEF phi
    <3>6. ES[f] = Bytes(mf[f[1]][f[2]], BlockSize(f[1]))
      BY DEF FreeSpan
    <3>7. FS[phi[f]] = Bytes(nf[phi[f][1]][phi[f][2]], BlockSize(phi[f][1]))
      BY <3>3 DEF FreeSpan
    <3> HIDE DEF F, FS, E, ES
    <3> QED
      BY <2>1, <3>3, <3>4, <3>5, <3>6, <3>7
  <2>2. CASE f[1] # b
    <3>1. phi[f] = f /\ <<f[1], f[2]>> \in F
      BY <1>1, <1>8, <2>2, FreeAtIs
    <3>2. f \in F
      BY <1>8, <3>1
    <3> HIDE DEF phi
    <3> QED
      BY <1>4, <1>8, <2>2, <3>1, <3>2 DEF FreeSpan
  <2> QED
    BY <2>1, <2>2
<1>10. phi \in [D -> F] /\ D = E \ {e0}
  BY <1>9
<1>11. ASSUME NEW f \in E \ {e0}, NEW g \in E \ {e0}, phi[f] = phi[g]
       PROVE  f = g
  <2>1. /\ f = <<f[1], f[2]>> /\ f[2] \in Nat /\ g = <<g[1], g[2]>> /\ g[2] \in Nat
    BY <1>8
  <2>2. /\ phi[f] = (IF f[1] = b THEN <<b, f[2] - 1>> ELSE f)
        /\ phi[g] = (IF g[1] = b THEN <<b, g[2] - 1>> ELSE g)
    OBVIOUS
  <2> HIDE DEF phi
  <2>3. phi[f][1] = f[1] /\ phi[g][1] = g[1]
    BY <2>2
  <2>4. CASE f[1] = b
    <3>1. <<b, f[2] - 1>> = <<b, g[2] - 1>>
      BY <1>11, <2>2, <2>3, <2>4
    <3>2. f[2] - 1 = g[2] - 1
      BY <3>1
    <3>3. f[2] = g[2]
      BY <2>1, <3>2
    <3> QED
      BY <1>11, <2>1, <2>3, <2>4, <3>3
  <2>5. CASE f[1] # b
    BY <1>11, <2>2, <2>3, <2>5
  <2> QED
    BY <2>4, <2>5
<1>12. ASSUME NEW f \in F
       PROVE  \E e \in E \ {e0} : phi[e] = f
  <2>1. /\ f = <<f[1], f[2]>> /\ f[1] \in Bucket /\ f[2] \in Nat /\ f[2] \in 1 .. Len(nf[f[1]])
    BY <1>1, FreeAtIs
  <2>2. CASE f[1] = b
    <3>1. f[2] + 1 \in 1 .. Len(mf[b]) /\ f[2] + 1 # 1
      BY <1>3, <1>4, <2>1, <2>2
    <3>2. <<b, f[2] + 1>> \in E
      BY <1>2, <1>4, <3>1, FreeAtIs
    <3>3. <<b, f[2] + 1>> # e0
      BY <3>1
    <3>4. phi[<<b, f[2] + 1>>] = <<b, (f[2] + 1) - 1>> /\ (f[2] + 1) - 1 = f[2]
      BY <2>1, <3>2, <3>3
    <3> QED
      BY <2>1, <2>2, <3>2, <3>3, <3>4
  <2>3. CASE f[1] # b
    <3>1. <<f[1], f[2]>> \in E
      BY <1>4, <2>1, <2>3, FreeAtIs
    <3>2. f \in E /\ f # e0
      BY <2>1, <2>3, <3>1
    <3> QED
      BY <2>3, <3>2
  <2> QED
    BY <2>2, <2>3
<1>13. \A l \in DOMAIN lv \ {cp} : KS[l] = LS[l]
  BY DEF LiveSpan
<1> DEFINE L == DOMAIN lv
<1>14. /\ Parts(F, FS, L, LS, Memory(mp)) /\ cp \in L /\ \A l \in L \ {cp} : KS[l] = LS[l]
       /\ L \ {cp} = DOMAIN lw
  BY <1>1, <1>13
<1> HIDE DEF phi, D, F, FS, E, ES, LS, KS, e0, L
<1>15. Parts(E, ES, L \ {cp}, KS, Memory(mp))
  <2>1. \A f \in D : ES[f] = FS[phi[f]]
    BY <1>9, <1>10
  <2>2. \A f, g \in D : phi[f] = phi[g] => f = g
    BY <1>10, <1>11
  <2>3. \A f \in F : \E e \in D : phi[e] = f
    BY <1>10, <1>12
  <2> QED
    BY ONLY <1>7, <1>10, <1>14, <2>1, <2>2, <2>3, GiveParts
<1>16. Parts(FreeAt(mf), FreeSpan(mf), DOMAIN lw, LiveSpan(lw), Memory(mp))
  BY <1>14, <1>15 DEF E, ES, KS
<1> QED
  BY <1>1, <1>4, <1>5, <1>6, <1>16 DEF HeapOK

LEMMA Multiples ==
  ASSUME NEW a \in Positive, NEW c \in Int, NEW d \in Int
  PROVE  /\ c * a \in Int
         /\ c < d => c * a + a <= d * a
         /\ c * a < d * a => c < d
         /\ c >= 0 => c * a >= 0
<1>1. a \in Int /\ a > 0
  BY DEF Positive
<1>2. ASSUME c < d
      PROVE  c * a + a <= d * a
  <2>1. d - c >= 1
    BY <1>2
  <2>2. (d - c) * a >= a
    BY <1>1, <2>1
  <2>3. (d - c) * a = d * a - c * a
    BY <1>1
  <2> QED
    BY <1>1, <2>2, <2>3
<1>3. ASSUME c >= d
      PROVE  c * a >= d * a
  BY <1>1, <1>3
<1>4. c * a \in Int /\ d * a \in Int
  BY <1>1
<1>5. c * a < d * a => c < d
  BY <1>3, <1>4
<1>6. c >= 0 => c * a >= 0
  BY <1>1
<1> QED
  BY <1>2, <1>4, <1>5, <1>6

(* The blocks that morecore() cuts. *)
LEMMA CutIs ==
  ASSUME NEW b \in Bucket, NEW p \in Nat
  PROVE  \E n \in Positive :
            /\ CoreSize(b) = n * BlockSize(b)
            /\ Cut(p * PAGESZ, b) \in Seq(Nat) /\ Len(Cut(p * PAGESZ, b)) = n
            /\ \A i \in 1 .. n :
                  /\ Cut(p * PAGESZ, b)[i] = p * PAGESZ + (i - 1) * BlockSize(b)
                  /\ Divides(Unit(b), Cut(p * PAGESZ, b)[i])
<1> DEFINE A == p * PAGESZ
           bs == BlockSize(b)
           C == CoreSize(b)
           n == C \div bs
<1>1. /\ bs \in Nat /\ bs > 0 /\ bs \in Positive /\ C \in Nat /\ C > 0
      /\ Divides(bs, C) /\ PAGESZ \in Nat /\ PAGESZ \in Positive
  BY Blocks, Units, Constants, Powers DEF Positive
<1>2. A \in Nat /\ A = PAGESZ * p
  BY <1>1
<1>3. PICK c \in Nat : C = bs * c
  BY <1>1 DEF Divides
<1>4. n \in Nat /\ n * bs <= C /\ C < n * bs + bs
  BY <1>1
<1>5. C = c * bs
  BY <1>1, <1>3
<1>6. n = c
  <2> HIDE DEF n, C, bs
  <2>1. c * bs < (n + 1) * bs /\ n * bs < (c + 1) * bs
    BY <1>1, <1>4, <1>5
  <2>2. n + 1 \in Int /\ c + 1 \in Int /\ n \in Int /\ c \in Int
    BY <1>4
  <2>3. c < n + 1 /\ n < c + 1
    BY <1>1, <2>1, <2>2, Multiples
  <2> QED
    BY <1>4, <2>3
<1>7. n \in Positive /\ C = n * bs
  <2> HIDE DEF C, n, bs
  <2> QED
    BY <1>1, <1>5, <1>6 DEF Positive
<1>8. Cut(A, b) = [i \in 1 .. n |-> A + (i - 1) * bs]
  BY DEF Cut
<1> HIDE DEF A, bs, C, n
<1>9. ASSUME NEW i \in 1 .. n
      PROVE  A + (i - 1) * bs \in Nat
  BY <1>1, <1>2, <1>4
<1>10. Cut(A, b) \in Seq(Nat) /\ Len(Cut(A, b)) = n
  <2> DEFINE s == [i \in 1 .. n |-> A + (i - 1) * bs]
  <2>1. s \in [1 .. n -> Nat]
    BY <1>9
  <2> HIDE DEF s
  <2>2. s \in Seq(Nat) /\ Len(s) = n
    BY <1>4, <2>1
  <2> QED
    BY <1>8, <2>2 DEF s
<1>11. ASSUME NEW i \in 1 .. n
       PROVE  Divides(Unit(b), A + (i - 1) * bs)
  <2>1. Divides(Unit(b), PAGESZ) /\ IsPower(Unit(b))
    BY Units
  <2>2. Unit(b) \in Positive /\ Unit(b) \in Nat
    BY <2>1, Powers
  <2>3. Divides(PAGESZ, A)
    BY <1>2 DEF Divides
  <2>4. Divides(Unit(b), A)
    BY <1>1, <1>2, <2>1, <2>2, <2>3, DividesTrans
  <2>5. CASE bs <= PAGESZ
    <3>1. Unit(b) = bs
      BY <2>5 DEF Unit, bs
    <3>2. (i - 1) * bs = bs * (i - 1) /\ i - 1 \in Nat /\ (i - 1) * bs \in Nat
      BY <1>1, <1>4
    <3>3. Divides(bs, (i - 1) * bs)
      BY <3>2 DEF Divides
    <3> QED
      BY <1>2, <2>2, <2>4, <3>1, <3>2, <3>3, Gap
  <2>6. CASE ~(bs <= PAGESZ)
    <3>1. C = bs
      BY <2>6, Units DEF C, bs
    <3>2. n = 1
      <4>1. n * bs < (1 + 1) * bs
        BY <1>1, <1>7, <3>1
      <4>2. n < 1 + 1
        BY <1>1, <1>4, <4>1, Multiples
      <4> QED
        BY <1>4, <1>7, <4>2 DEF Positive
    <3>3. i = 1
      BY <3>2
    <3>4. A + (i - 1) * bs = A
      BY <1>1, <1>2, <3>3
    <3> QED
      BY <2>4, <3>4
  <2> QED
    BY <2>5, <2>6
<1>12. \A i \in 1 .. n : Cut(A, b)[i] = A + (i - 1) * bs
  BY <1>8
<1> QED
  BY <1>7, <1>10, <1>11, <1>12 DEF A, bs, C

(* The pages that mmap() returns are the bytes from its address on. *)
LEMMA NewMemory ==
  ASSUME NEW p \in 1 .. NPages, NEW C \in Nat, Divides(PAGESZ, C),
         (p - 1) * PAGESZ + C <= NPages * PAGESZ,
         NEW mp \in SUBSET (1 .. NPages), PagesAt(p * PAGESZ, C) \cap mp = {}
  PROVE  /\ Memory(mp \cup PagesAt(p * PAGESZ, C)) = Memory(mp) \cup Bytes(p * PAGESZ, C)
         /\ Bytes(p * PAGESZ, C) \cap Memory(mp) = {}
<1> DEFINE PS == PAGESZ
           P == PagesAt(p * PS, C)
           N == Bytes(p * PS, C)
<1>1. PS \in Positive /\ PS \in Int /\ PS > 0 /\ NPages \in Nat
  BY Constants, Powers DEF Positive
<1>2. PICK m \in Nat : C = PAGESZ * m
  BY DEF Divides
<1> HIDE DEF PS
<1>3. p \in Int /\ NPages \in Int /\ m \in Int
  BY <1>1
<1>4. C = m * PS /\ p * PS + C = (p + m) * PS
  BY <1>1, <1>2, <1>3 DEF PS
<1>5. p + m <= NPages + 1
  <2>1. (p - 1) * PS + C = (p + m) * PS - PS /\ (NPages + 2) * PS = NPages * PS + 2 * PS
    BY <1>1, <1>3, <1>4
  <2>2. (p + m) * PS \in Int /\ NPages * PS \in Int
    BY <1>1, <1>3
  <2>3. (p - 1) * PS + C <= NPages * PS
    BY DEF PS
  <2>4. (p + m) * PS < (NPages + 2) * PS
    BY <1>1, <2>1, <2>2, <2>3
  <2>5. p + m \in Int /\ NPages + 2 \in Int
    BY <1>3
  <2>6. p + m < NPages + 2
    BY <1>1, <2>4, <2>5, Multiples
  <2> QED
    BY <1>3, <2>6
<1>6. \A q : q \in P <=> q \in 1 .. NPages /\ p * PS <= q * PS /\ q * PS < p * PS + C
  BY DEF PagesAt, PS
<1>7. \A q : q \in P <=> q \in 1 .. NPages /\ p <= q /\ q < p + m
  <2>1. ASSUME NEW q \in 1 .. NPages
        PROVE  (p * PS <= q * PS <=> p <= q) /\ (q * PS < p * PS + C <=> q < p + m)
    <3>1. q \in Int /\ p + m \in Int
      BY <1>3
    <3>2. /\ q < p => q * PS + PS <= p * PS
          /\ p < q => p * PS + PS <= q * PS
          /\ q < p + m => q * PS + PS <= (p + m) * PS
          /\ q * PS < (p + m) * PS => q < p + m
      BY <1>1, <1>3, <3>1, Multiples
    <3>3. p * PS \in Int /\ q * PS \in Int /\ (p + m) * PS \in Int
      BY <1>1, <1>3, <3>1
    <3>4. p = q => p * PS = q * PS
      OBVIOUS
    <3> QED
      BY <1>1, <1>3, <1>4, <3>1, <3>2, <3>3, <3>4
  <2> QED
    BY <1>6, <2>1
<1>8. ASSUME NEW x \in Int, NEW q \in Int, q * PS <= x, x < q * PS + PS
      PROVE  x \in N <=> p <= q /\ q < p + m
  <2>1. q * PS \in Int /\ p * PS \in Int /\ (p + m) * PS \in Int /\ p + m \in Int
    BY <1>1, <1>3
  <2>2. x \in N <=> p * PS <= x /\ x < (p + m) * PS
    BY <1>4, <2>1, InBytes
  <2>3. /\ q < p => q * PS + PS <= p * PS
        /\ p < q => p * PS + PS <= q * PS
        /\ q < p + m => q * PS + PS <= (p + m) * PS
        /\ q * PS < (p + m) * PS => q < p + m
    BY <1>1, <1>3, <2>1, Multiples
  <2>4. p = q => p * PS = q * PS
    OBVIOUS
  <2> QED
    BY <1>1, <1>3, <1>8, <2>1, <2>2, <2>3, <2>4
<1>9. \A mq : Memory(mq) = {x \in Int : \E q \in mq : q * PS <= x /\ x < q * PS + PS}
  BY DEF Memory, PS
<1>10. ASSUME NEW x \in N
       PROVE  x \in Memory(P) /\ x \notin Memory(mp)
  <2>1. x \in Int
    BY <1>1, <1>3, InBytes
  <2>2. PICK q \in Int : q * PS <= x /\ x < q * PS + PS
    <3> DEFINE q == x \div PS
    <3>1. q \in Int /\ q * PS <= x /\ x < q * PS + PS
      BY <1>1, <2>1
    <3> QED
      BY <3>1
  <2>3. p <= q /\ q < p + m
    BY <1>8, <2>1, <2>2
  <2>4. q \in P
    BY <1>3, <1>5, <1>7, <2>3
  <2>5. x \in Memory(P)
    BY <1>9, <2>1, <2>2, <2>4
  <2>6. ASSUME x \in Memory(mp)
        PROVE  FALSE
    <3>1. PICK r \in mp : r * PS <= x /\ x < r * PS + PS
      BY <1>9, <2>6
    <3>2. r \in Int /\ r \in 1 .. NPages
      BY <1>3
    <3>3. p <= r /\ r < p + m
      BY <1>8, <2>1, <3>1, <3>2
    <3>4. r \in P
      BY <1>7, <3>2, <3>3
    <3> QED
      BY <3>1, <3>4 DEF PS
  <2> QED
    BY <2>5, <2>6
<1>11. ASSUME NEW x \in Memory(P)
       PROVE  x \in N
  <2>1. PICK q \in P : q * PS <= x /\ x < q * PS + PS
    BY <1>9
  <2>2. x \in Int /\ q \in Int /\ p <= q /\ q < p + m
    BY <1>3, <1>7, <1>9
  <2> QED
    BY <1>8, <2>1, <2>2
<1>12. Memory(mp \cup P) = Memory(mp) \cup Memory(P)
  BY DEF Memory
<1> QED
  BY <1>10, <1>11, <1>12 DEF PS

(* The cuts are a partition of the new memory. *)
LEMMA CutsPartition ==
  ASSUME NEW A \in Int, NEW bs \in Positive, NEW n \in Nat
  PROVE  /\ \A i, j \in 1 .. n : i # j =>
               Bytes(A + (i - 1) * bs, bs) \cap Bytes(A + (j - 1) * bs, bs) = {}
         /\ \A i \in 1 .. n : \A x \in Bytes(A + (i - 1) * bs, bs) :
               x \in Int /\ A <= x /\ x < A + n * bs
         /\ \A x \in Int : A <= x /\ x < A + n * bs =>
               \E i \in 1 .. n : x \in Bytes(A + (i - 1) * bs, bs)
<1>1. bs \in Int /\ bs > 0
  BY DEF Positive
<1>2. \A i \in 1 .. n : (i - 1) * bs \in Int /\ i \in Int /\ i - 1 \in Int
  BY <1>1
<1>3. \A i \in 1 .. n : \A x : x \in Bytes(A + (i - 1) * bs, bs) <=>
         x \in Int /\ A + (i - 1) * bs <= x /\ x < A + (i - 1) * bs + bs
  BY <1>1, <1>2, InBytes
<1>4. ASSUME NEW i \in 1 .. n, NEW j \in 1 .. n, i < j
      PROVE  Bytes(A + (i - 1) * bs, bs) \cap Bytes(A + (j - 1) * bs, bs) = {}
  <2>1. i - 1 < j - 1
    BY <1>2, <1>4
  <2>2. (i - 1) * bs + bs <= (j - 1) * bs
    BY <1>2, <2>1, Multiples
  <2>3. A + (i - 1) * bs + bs <= A + (j - 1) * bs
    BY <1>1, <1>2, <2>2
  <2>4. ASSUME NEW x \in Int, x < A + (i - 1) * bs + bs, A + (j - 1) * bs <= x
        PROVE  FALSE
    BY <1>1, <1>2, <2>3, <2>4
  <2> QED
    BY <1>3, <2>4
<1>5. ASSUME NEW i \in 1 .. n, NEW j \in 1 .. n, i # j
      PROVE  Bytes(A + (i - 1) * bs, bs) \cap Bytes(A + (j - 1) * bs, bs) = {}
  <2>1. i < j \/ j < i
    BY <1>2, <1>5
  <2> QED
    BY <1>4, <2>1
<1>6. ASSUME NEW i \in 1 .. n, NEW x \in Bytes(A + (i - 1) * bs, bs)
      PROVE  x \in Int /\ A <= x /\ x < A + n * bs
  <2>1. i - 1 < n /\ i - 1 >= 0 /\ n \in Int
    BY <1>2
  <2>2. (i - 1) * bs + bs <= n * bs /\ (i - 1) * bs >= 0 /\ n * bs \in Int
    BY <1>2, <2>1, Multiples
  <2>3. x \in Int /\ A + (i - 1) * bs <= x /\ x < A + (i - 1) * bs + bs
    BY <1>3
  <2> QED
    BY <1>1, <1>2, <2>2, <2>3
<1>7. ASSUME NEW x \in Int, A <= x, x < A + n * bs
      PROVE  \E i \in 1 .. n : x \in Bytes(A + (i - 1) * bs, bs)
  <2> DEFINE y == x - A
             q == y \div bs
  <2>1. y \in Nat /\ q \in Nat /\ q * bs <= y /\ y < q * bs + bs
    BY <1>1, <1>7
  <2>2. n * bs \in Int
    BY <1>1
  <2> HIDE DEF q
  <2>3. q * bs < n * bs /\ q \in Int /\ n \in Int
    BY <1>1, <1>7, <2>1, <2>2
  <2>4. q < n
    BY <2>3, Multiples
  <2>5. q + 1 \in 1 .. n /\ (q + 1) - 1 = q
    BY <2>1, <2>4
  <2>6. q * bs \in Int
    BY <1>1, <2>1
  <2>7. A + q * bs <= x /\ x < A + q * bs + bs
    BY <1>1, <2>1, <2>6
  <2>8. x \in Bytes(A + ((q + 1) - 1) * bs, bs)
    BY <1>3, <2>5, <2>7
  <2> QED
    BY <2>5, <2>8
<1> QED
  BY <1>5, <1>6, <1>7

(* morecore() adds blocks of one bucket and the pages they make up. *)
LEMMA CoreKeepsHeap ==
  ASSUME NEW nf, NEW mp, NEW lv, HeapOK(nf, mp, lv),
         NEW b \in Bucket, nf[b] = <<>>, NEW p \in 1 .. NPages,
         (p - 1) * PAGESZ + CoreSize(b) <= NPages * PAGESZ,
         PagesAt(p * PAGESZ, CoreSize(b)) \cap mp = {},
         NEW mf, mf = [nf EXCEPT ![b] = Cut(p * PAGESZ, b)],
         NEW mq, mq = mp \cup PagesAt(p * PAGESZ, CoreSize(b))
  PROVE  HeapOK(mf, mq, lv) /\ mf[b] # <<>>
<1> DEFINE A == p * PAGESZ
           C == CoreSize(b)
           bs == BlockSize(b)
           N == Bytes(A, C)
           G == {b} \X (1 .. Len(mf[b]))
<1>1. /\ nf \in [Bucket -> Seq(Nat)] /\ mp \subseteq 1 .. NPages
      /\ \A c \in Bucket : \A i \in DOMAIN nf[c] : IsBlock(c, nf[c][i])
      /\ \A c \in DOMAIN lv : IsLive(c, lv[c])
      /\ Parts(FreeAt(nf), FreeSpan(nf), DOMAIN lv, LiveSpan(lv), Memory(mp))
  BY DEF HeapOK
<1>2. p \in Nat /\ NPages \in Nat /\ PAGESZ \in Positive /\ PAGESZ \in Nat
  BY Constants, Powers
<1>3. PICK n \in Positive :
            /\ C = n * bs
            /\ Cut(A, b) \in Seq(Nat) /\ Len(Cut(A, b)) = n
            /\ \A i \in 1 .. n :
                  /\ Cut(A, b)[i] = A + (i - 1) * bs
                  /\ Divides(Unit(b), Cut(A, b)[i])
  BY <1>2, CutIs
<1>4. /\ bs \in Positive /\ bs \in Nat /\ C \in Nat /\ Divides(PAGESZ, C) /\ A \in Nat /\ n \in Nat /\ n >= 1
  BY <1>2, Blocks, Units DEF Positive
<1>5. /\ Memory(mq) = Memory(mp) \cup N /\ N \cap Memory(mp) = {}
  <2> HIDE DEF C
  <2>2. mp \in SUBSET (1 .. NPages) /\ (p - 1) * PAGESZ + C <= NPages * PAGESZ
    BY <1>1 DEF C
  <2>3. PagesAt(p * PAGESZ, C) \cap mp = {} /\ mq = mp \cup PagesAt(p * PAGESZ, C)
    BY DEF C
  <2>4. C \in Nat /\ Divides(PAGESZ, C)
    BY <1>4
  <2> QED
    BY <2>2, <2>3, <2>4, NewMemory
<1>6. /\ mf \in [Bucket -> Seq(Nat)] /\ mf[b] = Cut(A, b) /\ Len(mf[b]) = n
      /\ \A c \in Bucket : c # b => mf[c] = nf[c]
      /\ mf[b] # <<>>
  <2>1. mf[b] = Cut(A, b) /\ mf \in [Bucket -> Seq(Nat)] /\ \A c \in Bucket : c # b => mf[c] = nf[c]
    BY <1>1, <1>3
  <2>2. Len(mf[b]) = n
    BY <1>3, <2>1
  <2>3. Len(<<>>) = 0
    OBVIOUS
  <2> QED
    BY <1>4, <2>1, <2>2, <2>3
<1> HIDE DEF C, A, bs
<1>7. ASSUME NEW i \in 1 .. n
      PROVE  /\ mf[b][i] = A + (i - 1) * bs /\ mf[b][i] \in Nat
             /\ IsBlock(b, mf[b][i])
  <2>1. mf[b][i] = A + (i - 1) * bs /\ Divides(Unit(b), mf[b][i])
    BY <1>3, <1>6
  <2>2. i - 1 \in Int /\ i - 1 < n /\ i - 1 >= 0 /\ 0 < n /\ n \in Int /\ 0 \in Int
    BY <1>4
  <2>3. (i - 1) * bs + bs <= n * bs /\ (i - 1) * bs >= 0 /\ (i - 1) * bs \in Int /\ 0 * bs + bs <= n * bs
    BY <1>4, <2>2, Multiples
  <2>4. mf[b][i] \in Nat /\ mf[b][i] + bs <= A + C
    <3> DEFINE y == (i - 1) * bs
               w == n * bs
    <3>1. y \in Int /\ y >= 0 /\ y + bs <= w /\ C = w /\ mf[b][i] = A + y
      BY <1>3, <2>1, <2>3
    <3> HIDE DEF y, w
    <3> QED
      BY <1>4, <3>1
  <2>5. /\ (p - 1) * PAGESZ = A - PAGESZ /\ (NPages + 1) * PAGESZ = NPages * PAGESZ + PAGESZ
        /\ NPages * PAGESZ \in Nat /\ (p - 1) * PAGESZ >= 0
    <3>1. p - 1 \in Nat
      BY <1>2
    <3>2. (p - 1) * PAGESZ >= 0
      BY <1>2, <3>1
    <3>3. (p - 1) * PAGESZ = A - PAGESZ
      BY <1>2 DEF A
    <3>4. (NPages + 1) * PAGESZ = NPages * PAGESZ + PAGESZ /\ NPages * PAGESZ \in Nat
      BY <1>2
    <3> QED
      BY <3>2, <3>3, <3>4
  <2>6. (p - 1) * PAGESZ + C <= NPages * PAGESZ
    BY DEF C
  <2>7. A + C <= (NPages + 1) * PAGESZ
    BY <1>2, <1>4, <2>5, <2>6
  <2>8. bs <= C
    BY <1>3, <1>4, <2>3
  <2>9. bs <= NPages * PAGESZ
    BY <1>2, <1>4, <2>5, <2>6, <2>8
  <2>10. mf[b][i] + bs <= (NPages + 1) * PAGESZ
    <3> DEFINE t == (NPages + 1) * PAGESZ
    <3>1. t \in Int /\ A + C <= t
      BY <1>2, <2>5, <2>7
    <3> HIDE DEF t
    <3>2. mf[b][i] + bs <= t
      BY <1>4, <2>4, <3>1
    <3> QED
      BY <3>2 DEF t
  <2> QED
    BY <2>1, <2>4, <2>9, <2>10 DEF IsBlock, bs
<1>8. ASSUME NEW c \in Bucket, NEW i \in DOMAIN mf[c]
      PROVE  IsBlock(c, mf[c][i])
  <2>1. CASE c # b
    BY <1>1, <1>6, <2>1
  <2>2. CASE c = b
    <3>1. i \in 1 .. n
      BY <1>6, <2>2
    <3> QED
      BY <1>7, <2>2, <3>1
  <2> QED
    BY <2>1, <2>2
<1>9. FreeAt(mf) = FreeAt(nf) \cup G
  <2>1. ASSUME NEW f \in FreeAt(mf)
        PROVE  f \in FreeAt(nf) \cup G
    <3>1. f = <<f[1], f[2]>> /\ f[1] \in Bucket /\ f[2] \in 1 .. Len(mf[f[1]])
      BY <1>6, FreeAtIs
    <3>2. CASE f[1] = b
      BY <3>1, <3>2
    <3>3. CASE f[1] # b
      <4>1. f[2] \in 1 .. Len(nf[f[1]])
        BY <1>6, <3>1, <3>3
      <4>2. <<f[1], f[2]>> \in FreeAt(nf)
        BY <1>1, <3>1, <4>1, FreeAtIs
      <4> QED
        BY <3>1, <4>2
    <3> QED
      BY <3>2, <3>3
  <2>2. ASSUME NEW f \in FreeAt(nf)
        PROVE  f \in FreeAt(mf) /\ f[1] # b
    <3>1. f = <<f[1], f[2]>> /\ f[1] \in Bucket /\ f[2] \in 1 .. Len(nf[f[1]])
      BY <1>1, FreeAtIs
    <3>2. f[1] # b
      <4>1. Len(<<>>) = 0
        OBVIOUS
      <4>2. ASSUME f[1] = b PROVE FALSE
        BY <3>1, <4>1, <4>2
      <4> QED
        BY <4>2
    <3>3. <<f[1], f[2]>> \in FreeAt(mf)
      BY <1>6, <3>1, <3>2, FreeAtIs
    <3> QED
      BY <3>1, <3>2, <3>3
  <2>3. ASSUME NEW f \in G
        PROVE  f \in FreeAt(mf)
    <3>1. f = <<b, f[2]>> /\ f[2] \in 1 .. Len(mf[b])
      OBVIOUS
    <3>2. <<b, f[2]>> \in FreeAt(mf)
      BY <1>6, <3>1, FreeAtIs
    <3> QED
      BY <3>1, <3>2
  <2> QED
    BY <2>1, <2>2, <2>3
<1>10. \A f \in FreeAt(nf) : FreeSpan(mf)[f] = FreeSpan(nf)[f]
  <2>1. ASSUME NEW f \in FreeAt(nf)
        PROVE  f[1] \in Bucket /\ f[1] # b
    <3>1. f[1] \in Bucket /\ f[2] \in 1 .. Len(nf[f[1]])
      BY <1>1, FreeAtIs
    <3>2. Len(<<>>) = 0
      OBVIOUS
    <3>3. ASSUME f[1] = b PROVE FALSE
      BY <3>1, <3>2, <3>3
    <3> QED
      BY <3>1, <3>3
  <2>2. ASSUME NEW f \in FreeAt(nf)
        PROVE  FreeSpan(mf)[f] = FreeSpan(nf)[f]
    <3>1. f \in FreeAt(mf) /\ mf[f[1]] = nf[f[1]]
      BY <1>6, <1>9, <2>1
    <3>2. FreeSpan(mf)[f] = Bytes(mf[f[1]][f[2]], BlockSize(f[1]))
      BY <3>1 DEF FreeSpan
    <3>3. FreeSpan(nf)[f] = Bytes(nf[f[1]][f[2]], BlockSize(f[1]))
      BY DEF FreeSpan
    <3> QED
      BY <3>1, <3>2, <3>3
  <2> QED
    BY <2>2
<1>11. ASSUME NEW g \in G
       PROVE  /\ g = <<b, g[2]>> /\ g[2] \in 1 .. n
              /\ FreeSpan(mf)[g] = Bytes(A + (g[2] - 1) * bs, bs)
  <2>0. g = <<b, g[2]>> /\ g[2] \in 1 .. Len(mf[b]) /\ g[1] = b
    OBVIOUS
  <2>1. g = <<b, g[2]>> /\ g[2] \in 1 .. n /\ g \in FreeAt(mf) /\ g[1] = b
    <3> HIDE DEF G
    <3> QED
      BY <1>6, <1>9, <2>0
  <2>2. FreeSpan(mf)[g] = Bytes(mf[g[1]][g[2]], BlockSize(g[1]))
    BY <2>1 DEF FreeSpan
  <2>3. mf[b][g[2]] = A + (g[2] - 1) * bs
    BY <1>7, <2>1
  <2>4. FreeSpan(mf)[g] = Bytes(mf[b][g[2]], bs)
    BY <2>1, <2>2 DEF bs
  <2> HIDE DEF G
  <2> QED
    BY <2>1, <2>3, <2>4
<1>12. /\ \A i, j \in 1 .. n : i # j =>
             Bytes(A + (i - 1) * bs, bs) \cap Bytes(A + (j - 1) * bs, bs) = {}
       /\ \A i \in 1 .. n : \A x \in Bytes(A + (i - 1) * bs, bs) : x \in N
       /\ \A x \in N : \E i \in 1 .. n : x \in Bytes(A + (i - 1) * bs, bs)
  <2>1. A \in Int /\ n * bs \in Int
    BY <1>4
  <2>2. \A x : x \in N <=> x \in Int /\ A <= x /\ x < A + n * bs
    BY <1>3, <2>1, InBytes
  <2> HIDE DEF N
  <2> QED
    BY <1>4, <2>1, <2>2, CutsPartition
<1> HIDE DEF N
<1>13. \A f, g \in G : f # g => FreeSpan(mf)[f] \cap FreeSpan(mf)[g] = {}
  <2>1. ASSUME NEW f \in G, NEW g \in G, f # g
        PROVE  FreeSpan(mf)[f] \cap FreeSpan(mf)[g] = {}
    <3>1. /\ f = <<b, f[2]>> /\ f[2] \in 1 .. n /\ FreeSpan(mf)[f] = Bytes(A + (f[2] - 1) * bs, bs)
          /\ g = <<b, g[2]>> /\ g[2] \in 1 .. n /\ FreeSpan(mf)[g] = Bytes(A + (g[2] - 1) * bs, bs)
      BY <1>11
    <3>2. f[2] # g[2]
      BY <2>1, <3>1
    <3> HIDE DEF G
    <3> QED
      BY <1>12, <3>1, <3>2
  <2> QED
    BY <2>1
<1>14. \A g \in G : FreeSpan(mf)[g] \subseteq N
  <2> HIDE DEF G
  <2>1. ASSUME NEW g \in G, NEW x \in FreeSpan(mf)[g]
        PROVE  x \in N
    <3>1. g[2] \in 1 .. n /\ FreeSpan(mf)[g] = Bytes(A + (g[2] - 1) * bs, bs)
      BY <1>11
    <3>2. \A y \in Bytes(A + (g[2] - 1) * bs, bs) : y \in N
      BY <1>12, <3>1
    <3> QED
      BY <3>1, <3>2
  <2> QED
    BY <2>1
<1>15. \A x \in N : \E g \in G : x \in FreeSpan(mf)[g]
  <2>1. ASSUME NEW x \in N
        PROVE  \E g \in G : x \in FreeSpan(mf)[g]
    <3>1. PICK i \in 1 .. n : x \in Bytes(A + (i - 1) * bs, bs)
      BY <1>12
    <3>2. <<b, i>> \in G /\ <<b, i>>[2] = i
      BY <1>6
    <3> HIDE DEF G
    <3>3. FreeSpan(mf)[<<b, i>>] = Bytes(A + (i - 1) * bs, bs)
      BY <1>11, <3>2
    <3> QED
      BY <3>1, <3>2, <3>3
  <2> QED
    BY <2>1
<1>16. Parts(FreeAt(mf), FreeSpan(mf), DOMAIN lv, LiveSpan(lv), Memory(mq))
  <2> DEFINE F == FreeAt(nf)
             FS == FreeSpan(nf)
             ES == FreeSpan(mf)
             LS == LiveSpan(lv)
             L == DOMAIN lv
             M == Memory(mp)
  <2>1. Parts(F, FS, L, LS, M) /\ N \cap M = {} /\ \A f \in F : ES[f] = FS[f]
    BY <1>1, <1>5, <1>10
  <2>2. /\ \A f, g \in G : f # g => ES[f] \cap ES[g] = {}
        /\ \A g \in G : ES[g] \subseteq N
        /\ \A x \in N : \E g \in G : x \in ES[g]
    BY <1>13, <1>14, <1>15
  <2> HIDE DEF F, FS, ES, LS, L, M, G
  <2>3. Parts(F \cup G, ES, L, LS, M \cup N)
    BY <2>1, <2>2, GrowParts
  <2> QED
    BY <1>5, <1>9, <2>3 DEF F, ES, L, LS, M
<1>17. mq \subseteq 1 .. NPages
  BY <1>1 DEF PagesAt
<1> QED
  BY <1>1, <1>6, <1>8, <1>16, <1>17 DEF HeapOK

-----------------------------------------------------------------------------
(* aligned_alloc(). *)

(* What is asked for, the header and the padding are together less than what
   a size_t holds; malloc.c does not test it. *)
NoWrap ==
    \A align \in Align \cup {0}, nbytes \in Size :
        align = 0 \/ align \in PowersOfTwo =>
            nbytes + RoundUp(Overhead, AtLeast(align)) < Pow2[SIZEBITS]

LEMMA SmallMod ==
  ASSUME NEW x \in Nat, NEW m \in Positive, x < m
  PROVE  x % m = x
<1>1. m \in Nat /\ m > 0
  BY DEF Positive
<1> QED
  BY <1>1

LEMMA AtLeastIs ==
  ASSUME NEW align \in Nat, align = 0 \/ align \in PowersOfTwo
  PROVE  IsPower(AtLeast(align))
<1>1. IsPower(MINALIGN) /\ MINALIGN \in Positive
  BY Constants, Powers
<1>2. MINALIGN \in Nat /\ MINALIGN > 0
  BY <1>1 DEF Positive
<1>3. align # 0 => IsPower(align)
  BY Constants
<1>4. AtLeast(align) = IF align >= MINALIGN THEN align ELSE MINALIGN
  BY <1>2, MaxOfTwo DEF AtLeast
<1> QED
  BY <1>1, <1>2, <1>3, <1>4

LEMMA BucketForIs ==
  ASSUME NEW n \in Nat, BucketFor(n) # NoBucket
  PROVE  BucketFor(n) \in Bucket /\ BlockSize(BucketFor(n)) >= n
<1> DEFINE first == IF n <= PAGESZ THEN 0 ELSE pagebucket
           enough == {b \in Bucket : b >= first /\ BlockSize(b) >= n}
<1>1. BucketFor(n) = IF enough = {} THEN NoBucket ELSE Min(enough)
  BY DEF BucketFor
<1>2. enough \in SUBSET Nat
  BY Blocks
<1>3. Min(enough) \in enough
  BY <1>1, <1>2, MinExists
<1> QED
  BY <1>1, <1>3

(* A list to take from, as it is or after morecore(). *)
LEMMA HeapsKeepHeap ==
  ASSUME HeapOK(nextf, mapped, live), NEW b \in Bucket, NEW h \in Heaps(b)
  PROVE  HeapOK(h.nextf, h.mapped, live) /\ h.nextf[b] # <<>>
<1>1. b # NoBucket
  BY Blocks DEF NoBucket
<1>2. CASE nextf[b] # <<>>
  <2>1. h = [nextf |-> nextf, mapped |-> mapped]
    BY <1>1, <1>2 DEF Heaps
  <2>2. h.nextf = nextf /\ h.mapped = mapped
    BY <2>1
  <2> QED
    BY <1>2, <2>2
<1>3. CASE nextf[b] = <<>>
  <2>1. h \in Morecore(b)
    BY <1>1, <1>3 DEF Heaps
  <2> DEFINE fits == {p \in 1 .. NPages : /\ (p - 1) * PAGESZ + CoreSize(b) <= NPages * PAGESZ
                                          /\ PagesAt(p * PAGESZ, CoreSize(b)) \cap mapped = {}}
  <2>2. PICK p \in fits :
          h = [nextf |-> [nextf EXCEPT ![b] = Cut(p * PAGESZ, b)],
               mapped |-> mapped \cup PagesAt(p * PAGESZ, CoreSize(b))]
    BY <2>1 DEF Morecore
  <2>3. /\ h.nextf = [nextf EXCEPT ![b] = Cut(p * PAGESZ, b)]
        /\ h.mapped = mapped \cup PagesAt(p * PAGESZ, CoreSize(b))
    BY <2>2
  <2>4. /\ p \in 1 .. NPages /\ (p - 1) * PAGESZ + CoreSize(b) <= NPages * PAGESZ
        /\ PagesAt(p * PAGESZ, CoreSize(b)) \cap mapped = {}
    OBVIOUS
  <2> HIDE DEF fits
  <2> DEFINE mf == h.nextf
             mq == h.mapped
  <2>5. /\ mf = [nextf EXCEPT ![b] = Cut(p * PAGESZ, b)]
        /\ mq = mapped \cup PagesAt(p * PAGESZ, CoreSize(b))
    BY <2>3
  <2> HIDE DEF mf, mq
  <2>6. HeapOK(mf, mq, live) /\ mf[b] # <<>>
    BY <1>3, <2>4, <2>5, CoreKeepsHeap, ZenonT(60)
  <2> QED
    BY <2>6 DEF mf, mq
<1> QED
  BY <1>2, <1>3

(* A block is large enough for the padding, the header and what is asked for,
   and the pointer is a new one, aligned as asked. *)
LEMMA AllocKeepsHeap ==
  ASSUME NoWrap, HeapOK(nextf, mapped, live),
         NEW align \in Align \cup {0}, NEW nbytes \in Size, NEW r \in aligned_alloc(align, nbytes),
         NEW lw, DOMAIN lw = DOMAIN live \cup {r.cp},
         \A c \in DOMAIN live : c # r.cp => lw[c] = live[c],
         lw[r.cp] = Block(r, align, nbytes)
  PROVE  /\ HeapOK(r.nextf, r.mapped, lw) /\ r.cp \notin DOMAIN live
         /\ IsPower(AtLeast(align)) /\ Divides(AtLeast(align), r.cp)
         /\ r.cp \in Nat /\ r.alignpad \in Nat /\ r.index \in Bucket
         /\ nbytes + r.alignpad <= BlockSize(r.index)
<1> DEFINE a == AtLeast(align)
           k == AllocBytes(a, nbytes)
           b == BucketFor(k)
<1>1. align = 0 \/ align \in PowersOfTwo
  BY DEF aligned_alloc
<1>2. align \in Nat /\ nbytes \in Nat
  <2>1. Align \subseteq Nat /\ Size \subseteq 0 .. Pow2[SIZEBITS] - 1 /\ Pow2[SIZEBITS] \in Nat
    BY MallocAssumption, Pow2Def
  <2> QED
    BY <2>1
<1>3. IsPower(a)
  BY <1>1, <1>2, AtLeastIs
<1>4. a \in Positive /\ a \in Nat /\ Overhead \in Positive /\ Overhead \in Nat
  BY <1>3, Constants, Powers
<1> HIDE DEF a
<1> DEFINE R == RoundUp(Overhead, a)
<1>5. R \in Nat /\ Overhead <= R /\ Divides(a, R)
  BY <1>4, RoundUpIs
<1>6. nbytes + R < Pow2[SIZEBITS] /\ nbytes + R \in Nat
  BY <1>1, <1>2, <1>5 DEF NoWrap, a
<1>7. k = nbytes + R
  <2>1. k = (nbytes + R) % Pow2[SIZEBITS]
    BY DEF AllocBytes, a
  <2> HIDE DEF k, R
  <2> QED
    BY <1>6, <2>1, Constants, SmallMod
<1> HIDE DEF k
<1>8. PICK h \in Heaps(b) : r = Taken(h, b, a)
  BY <1>1 DEF aligned_alloc, a, k
<1>9. b # NoBucket
  BY <1>8 DEF Heaps
<1>10. b \in Bucket /\ BlockSize(b) >= k
  <2>1. k \in Nat
    BY <1>6, <1>7
  <2> QED
    BY <1>9, <2>1, BucketForIs
<1> HIDE DEF b, R
<1>11. BlockSize(b) \in Nat
  BY <1>10, Blocks
<1>12. R <= BlockSize(b) /\ a <= BlockSize(b)
  <2>1. R > 0
    BY <1>4, <1>5 DEF Positive
  <2>2. a <= R
    BY <1>4, <1>5, <2>1, Gap
  <2> QED
    BY <1>2, <1>4, <1>5, <1>7, <1>10, <1>11, <2>2
<1> DEFINE nf == h.nextf
           op == Head(nf[b])
           cp == RoundUp(op + Overhead, a)
<1>13. HeapOK(nf, h.mapped, live) /\ nf[b] # <<>>
  BY <1>8, <1>10, HeapsKeepHeap
<1>14. /\ r.nextf = [nf EXCEPT ![b] = Tail(@)] /\ r.mapped = h.mapped
       /\ r.cp = cp /\ r.alignpad = cp - op /\ r.index = b
  BY <1>8 DEF Taken
<1>15. lw[r.cp].alignpad = r.alignpad /\ lw[r.cp].index = r.index
  BY DEF Block
<1>16. op \in Nat /\ Divides(Unit(b), op)
  <2>1. nf[b] \in Seq(Nat)
    BY <1>10, <1>13 DEF HeapOK
  <2>2. 1 \in DOMAIN nf[b] /\ op = nf[b][1]
    BY <1>13, <2>1
  <2>3. IsBlock(b, nf[b][1])
    BY <1>10, <1>13, <2>2 DEF HeapOK
  <2> QED
    BY <2>2, <2>3 DEF IsBlock
<1> HIDE DEF nf, op, cp
<1>17. cp \in Nat /\ Divides(a, cp) /\ Overhead <= cp - op /\ cp - op <= R
  BY <1>3, <1>10, <1>12, <1>16, PadBound DEF cp, R
<1>18. HeapOK(r.nextf, h.mapped, lw) /\ cp \notin DOMAIN live
  <2>1. /\ op = Head(nf[b]) /\ cp = RoundUp(op + Overhead, a) /\ RoundUp(Overhead, a) <= BlockSize(b)
    BY <1>12 DEF op, cp, R
  <2>2. Adds(live, lw, cp, op, b)
    BY <1>14, <1>15 DEF Adds
  <2> DEFINE mf == r.nextf
             mp == h.mapped
  <2>3. mf = [nf EXCEPT ![b] = Tail(@)] /\ HeapOK(nf, mp, live) /\ nf[b] # <<>>
    BY <1>13, <1>14
  <2> HIDE DEF mf, mp
  <2>4. b \in Bucket /\ IsPower(a) /\ a <= BlockSize(b)
    BY <1>3, <1>10, <1>12
  <2>5. HeapOK(mf, mp, lw) /\ cp \notin DOMAIN live
    BY <2>1, <2>2, <2>3, <2>4, TakeKeepsHeap
  <2> QED
    BY <2>5 DEF mf, mp
<1>19. nbytes + r.alignpad <= BlockSize(r.index) /\ r.alignpad \in Nat
  <2>1. cp - op \in Nat
    BY <1>4, <1>16, <1>17
  <2>2. nbytes + (cp - op) <= BlockSize(b)
    BY <1>2, <1>5, <1>7, <1>10, <1>11, <1>17, <2>1
  <2> QED
    BY <1>14, <2>1, <2>2
<1> QED
  BY <1>3, <1>10, <1>14, <1>17, <1>18, <1>19 DEF a

-----------------------------------------------------------------------------
(* The invariant, and one lemma for each operation. *)

IsRecord(lv) ==
    \A cp \in DOMAIN lv : lv[cp] \in [req : Size, align : Nat, alignpad : Nat, index : Bucket]

Heap == HeapOK(nextf, mapped, live) /\ IsRecord(live)

LEMMA InitHeap == Init => Heap
<1> SUFFICES ASSUME Init PROVE Heap
  OBVIOUS
<1>1. /\ nextf = [b \in Bucket |-> <<>>] /\ mapped = {} /\ DOMAIN live = {}
  BY DEF Init
<1>2. nextf \in [Bucket -> Seq(Nat)] /\ \A b \in Bucket : nextf[b] = <<>> /\ DOMAIN nextf[b] = {}
  BY <1>1
<1>3. FreeAt(nextf) = {}
  BY <1>2 DEF FreeAt
<1>4. Memory(mapped) = {}
  BY <1>1 DEF Memory
<1>5. Parts(FreeAt(nextf), FreeSpan(nextf), DOMAIN live, LiveSpan(live), Memory(mapped))
  BY <1>1, <1>3, <1>4 DEF Parts
<1> QED
  BY <1>1, <1>2, <1>5 DEF Heap, HeapOK, IsRecord

(* What aligned_alloc() returns makes a record. *)
LEMMA BlockIs ==
  ASSUME NEW r, r.alignpad \in Nat, r.index \in Bucket, NEW align, IsPower(AtLeast(align)),
         NEW nbytes \in Size
  PROVE  /\ Block(r, align, nbytes) \in [req : Size, align : Nat, alignpad : Nat, index : Bucket]
         /\ Block(r, align, nbytes).req = nbytes /\ Block(r, align, nbytes).align = AtLeast(align)
         /\ Block(r, align, nbytes).alignpad = r.alignpad /\ Block(r, align, nbytes).index = r.index
<1>1. AtLeast(align) \in Nat
  BY Powers
<1> QED
  BY <1>1 DEF Block

LEMMA AllocHeap ==
  ASSUME NoWrap, Heap, NEW align \in Align, NEW nbytes \in Size, Alloc(align, nbytes)
  PROVE  Heap'
<1>1. PICK r \in aligned_alloc(align, nbytes) :
          /\ nextf' = r.nextf
          /\ mapped' = r.mapped
          /\ live' = [cp \in DOMAIN live \cup {r.cp} |->
                        IF cp = r.cp THEN Block(r, align, nbytes) ELSE live[cp]]
  BY DEF Alloc
<1>2. /\ DOMAIN live' = DOMAIN live \cup {r.cp} /\ live'[r.cp] = Block(r, align, nbytes)
      /\ \A c \in DOMAIN live : c # r.cp => live'[c] = live[c]
  BY <1>1
<1>3. align \in Align \cup {0} /\ HeapOK(nextf, mapped, live) /\ IsRecord(live)
  BY DEF Heap
<1>4. /\ HeapOK(r.nextf, r.mapped, live') /\ r.alignpad \in Nat /\ r.index \in Bucket
      /\ IsPower(AtLeast(align))
  BY <1>1, <1>2, <1>3, AllocKeepsHeap
<1>5. IsRecord(live')
  <2>1. ASSUME NEW c \in DOMAIN live'
        PROVE  live'[c] \in [req : Size, align : Nat, alignpad : Nat, index : Bucket]
    <3>1. CASE c = r.cp
      BY <1>2, <1>4, <3>1, BlockIs
    <3>2. CASE c # r.cp
      BY <1>2, <1>3, <3>2 DEF IsRecord
    <3> QED
      BY <3>1, <3>2
  <2> QED
    BY <2>1 DEF IsRecord
<1> QED
  BY <1>1, <1>4, <1>5 DEF Heap

LEMMA FreeHeap ==
  ASSUME Heap, NEW cp \in DOMAIN live, Free(cp)
  PROVE  Heap'
<1> DEFINE b == live[cp].index
           op == cp - live[cp].alignpad
<1>1. /\ nextf' = [nextf EXCEPT ![b] = <<op>> \o @] /\ mapped' = mapped
      /\ live' = [c \in DOMAIN live \ {cp} |-> live[c]]
  BY DEF Free, Freed, Origin, Restrict
<1>2. Drops(live, live', cp)
  BY <1>1 DEF Drops
<1>3. HeapOK(nextf, mapped, live) /\ b = live[cp].index /\ op = cp - live[cp].alignpad
  BY DEF Heap
<1> HIDE DEF b, op
<1>4. HeapOK(nextf', mapped, live')
  BY <1>1, <1>2, <1>3, GiveKeepsHeap
<1>5. IsRecord(live')
  BY <1>2 DEF Heap, IsRecord, Drops
<1> QED
  BY <1>1, <1>4, <1>5 DEF Heap

(* Where the blocks are is all that matters. *)
LEMMA SameBlocks ==
  ASSUME NEW nf, NEW mp, NEW lv, HeapOK(nf, mp, lv), NEW lw, DOMAIN lw = DOMAIN lv,
         \A c \in DOMAIN lv : lw[c].alignpad = lv[c].alignpad /\ lw[c].index = lv[c].index
  PROVE  HeapOK(nf, mp, lw)
<1>1. LiveSpan(lw) = LiveSpan(lv)
  BY DEF LiveSpan
<1>2. \A c \in DOMAIN lw : IsLive(c, lw[c])
  BY DEF HeapOK, IsLive
<1> QED
  BY <1>1, <1>2 DEF HeapOK

LEMMA ReallocStayHeap ==
  ASSUME Heap, NEW cp \in DOMAIN live, NEW nbytes \in Size, ReallocStay(cp, nbytes)
  PROVE  Heap' /\ DOMAIN live' = DOMAIN live
         /\ live'[cp].req = nbytes /\ live'[cp].align = live[cp].align
         /\ live'[cp].alignpad = live[cp].alignpad /\ live'[cp].index = live[cp].index
         /\ \A c \in DOMAIN live : c # cp => live'[c] = live[c]
<1>1. nextf' = nextf /\ mapped' = mapped /\ live' = [live EXCEPT ![cp].req = nbytes]
  BY DEF ReallocStay
<1>2. live[cp] \in [req : Size, align : Nat, alignpad : Nat, index : Bucket]
  BY DEF Heap, IsRecord
<1>3. /\ DOMAIN live' = DOMAIN live /\ live'[cp] = [live[cp] EXCEPT !.req = nbytes]
      /\ \A c \in DOMAIN live : c # cp => live'[c] = live[c]
  BY <1>1
<1>4. /\ live'[cp].req = nbytes /\ live'[cp].align = live[cp].align
      /\ live'[cp].alignpad = live[cp].alignpad /\ live'[cp].index = live[cp].index
      /\ live'[cp] \in [req : Size, align : Nat, alignpad : Nat, index : Bucket]
  BY <1>2, <1>3
<1>5. \A c \in DOMAIN live : live'[c].alignpad = live[c].alignpad /\ live'[c].index = live[c].index
  BY <1>3, <1>4
<1>6. HeapOK(nextf, mapped, live')
  BY <1>3, <1>5, SameBlocks DEF Heap
<1>7. IsRecord(live')
  BY <1>3, <1>4 DEF Heap, IsRecord
<1> QED
  BY <1>1, <1>3, <1>4, <1>6, <1>7 DEF Heap

(* The old block goes back after the new one has been taken. *)
LEMMA ReallocMoveHeap ==
  ASSUME NoWrap, Heap, NEW cp \in DOMAIN live, NEW nbytes \in Size, ReallocMove(cp, nbytes)
  PROVE  /\ Heap'
         /\ \E np : /\ np \notin DOMAIN live /\ DOMAIN live' = (DOMAIN live \ {cp}) \cup {np}
                    /\ \A c \in DOMAIN live \ {cp} : live'[c] = live[c]
                    /\ live'[np].req = nbytes /\ live'[np].align = AtLeast(0)
                    /\ IsPower(AtLeast(0)) /\ Divides(AtLeast(0), np)
                    /\ live'[np].alignpad \in Nat /\ live'[np].index \in Bucket
                    /\ nbytes + live'[np].alignpad <= BlockSize(live'[np].index)
<1>1. PICK r \in aligned_alloc(0, nbytes) :
          /\ nextf' = Freed(r.nextf, cp)
          /\ mapped' = r.mapped
          /\ live' = [c \in (DOMAIN live \ {cp}) \cup {r.cp} |->
                        IF c = r.cp THEN Block(r, 0, nbytes) ELSE live[c]]
  BY DEF ReallocMove
<1> DEFINE lw == [c \in DOMAIN live \cup {r.cp} |-> IF c = r.cp THEN Block(r, 0, nbytes) ELSE live[c]]
           b == live[cp].index
           op == cp - live[cp].alignpad
<1>2. /\ DOMAIN lw = DOMAIN live \cup {r.cp} /\ lw[r.cp] = Block(r, 0, nbytes)
      /\ \A c \in DOMAIN live : c # r.cp => lw[c] = live[c]
  OBVIOUS
<1>3. /\ DOMAIN live' = (DOMAIN live \ {cp}) \cup {r.cp}
      /\ \A c \in DOMAIN live' : live'[c] = lw[c]
  BY <1>1
<1>4. nextf' = [r.nextf EXCEPT ![b] = <<op>> \o @]
  BY <1>1 DEF Freed, Origin
<1> HIDE DEF lw
<1>5. 0 \in Align \cup {0} /\ HeapOK(nextf, mapped, live) /\ IsRecord(live)
  BY DEF Heap
<1>6. /\ HeapOK(r.nextf, r.mapped, lw) /\ r.cp \notin DOMAIN live
      /\ IsPower(AtLeast(0)) /\ Divides(AtLeast(0), r.cp)
      /\ r.alignpad \in Nat /\ r.index \in Bucket
      /\ nbytes + r.alignpad <= BlockSize(r.index)
  BY <1>2, <1>5, AllocKeepsHeap
<1>7. cp \in DOMAIN lw /\ b = lw[cp].index /\ op = cp - lw[cp].alignpad
      /\ DOMAIN live' = DOMAIN lw \ {cp}
  BY <1>2, <1>3, <1>6
<1> HIDE DEF b, op
<1>8. HeapOK(nextf', mapped', live')
  <2> DEFINE nf == r.nextf
             mp == r.mapped
             mf == nextf'
             lx == live'
  <2>1. /\ HeapOK(nf, mp, lw) /\ cp \in DOMAIN lw /\ b = lw[cp].index /\ op = cp - lw[cp].alignpad
        /\ mf = [nf EXCEPT ![b] = <<op>> \o @]
        /\ Drops(lw, lx, cp)
    BY <1>3, <1>4, <1>6, <1>7 DEF Drops
  <2> HIDE DEF nf, mp, mf, lx
  <2>2. HeapOK(mf, mp, lx)
    BY <2>1, GiveKeepsHeap
  <2> QED
    BY <1>1, <2>2 DEF mf, mp, lx
<1>9. /\ live'[r.cp] \in [req : Size, align : Nat, alignpad : Nat, index : Bucket]
      /\ live'[r.cp].req = nbytes /\ live'[r.cp].align = AtLeast(0)
      /\ live'[r.cp].alignpad = r.alignpad /\ live'[r.cp].index = r.index
  <2>1. live'[r.cp] = Block(r, 0, nbytes)
    BY <1>2, <1>3
  <2> QED
    BY <1>6, <2>1, BlockIs
<1>10. \A c \in DOMAIN live \ {cp} : live'[c] = live[c]
  BY <1>2, <1>3, <1>6
<1>11. IsRecord(live')
  BY <1>3, <1>5, <1>9, <1>10 DEF IsRecord
<1> QED
  BY <1>3, <1>6, <1>8, <1>9, <1>10, <1>11 DEF Heap

LEMMA NextHeap == ASSUME NoWrap, Heap, [Next]_vars PROVE Heap'
<1>1. ASSUME NEW align \in Align, NEW nbytes \in Size, Alloc(align, nbytes) PROVE Heap'
  BY <1>1, AllocHeap
<1>2. ASSUME NEW cp \in DOMAIN live, Free(cp) PROVE Heap'
  BY <1>2, FreeHeap
<1>3. ASSUME NEW cp \in DOMAIN live, NEW nbytes \in Size, ReallocStay(cp, nbytes) PROVE Heap'
  BY <1>3, ReallocStayHeap
<1>4. ASSUME NEW cp \in DOMAIN live, NEW nbytes \in Size, ReallocMove(cp, nbytes) PROVE Heap'
  BY <1>4, ReallocMoveHeap
<1>5. ASSUME UNCHANGED vars PROVE Heap'
  BY <1>5 DEF Heap, vars
<1> QED
  BY <1>1, <1>2, <1>3, <1>4, <1>5 DEF Next, Realloc

-----------------------------------------------------------------------------
(* What callers have fits. *)

(* No block is so large that 1 << (size + MINSHIFT) does not fit an int. *)
BlocksFitInt == NPages * PAGESZ < Pow2[INTBITS - 1]

Fits(lv) ==
    \A cp \in DOMAIN lv :
        /\ IsPower(lv[cp].align) /\ Divides(lv[cp].align, cp)
        /\ lv[cp].req + lv[cp].alignpad <= BlockSize(lv[cp].index)

LEMMA SizeIsNat == Size \subseteq Nat
  BY MallocAssumption, Pow2Def

(* What is known of a pointer. *)
LEMMA LiveIs ==
  ASSUME Heap, NEW cp \in DOMAIN live
  PROVE  /\ cp \in Nat /\ live[cp].index \in Bucket /\ live[cp].alignpad \in Nat /\ live[cp].req \in Nat
         /\ Overhead \in Nat /\ Overhead <= live[cp].alignpad
         /\ BlockSize(live[cp].index) \in Nat /\ live[cp].alignpad <= BlockSize(live[cp].index)
         /\ BlockSize(live[cp].index) <= NPages * PAGESZ
         /\ cp - live[cp].alignpad \in Nat
         /\ cp - live[cp].alignpad + BlockSize(live[cp].index) <= (NPages + 1) * PAGESZ
<1>1. IsLive(cp, live[cp]) /\ live[cp] \in [req : Size, align : Nat, alignpad : Nat, index : Bucket]
  BY DEF Heap, HeapOK, IsRecord
<1>2. live[cp].req \in Nat /\ live[cp].index \in Bucket
  BY <1>1, SizeIsNat
<1>3. BlockSize(live[cp].index) \in Nat
  BY <1>2, Blocks
<1>4. Overhead \in Nat
  BY Constants, Powers
<1> QED
  BY <1>1, <1>2, <1>3, <1>4 DEF IsLive, IsBlock

(* realloc() knows what a block holds. *)
LEMMA RoomIs ==
  ASSUME BlocksFitInt, Heap, NEW cp \in DOMAIN live
  PROVE  Room(live[cp]) = BlockSize(live[cp].index) - live[cp].alignpad
<1> DEFINE b == live[cp].index
           pad == live[cp].alignpad
           k == b + MINSHIFT
<1>1. /\ b \in Bucket /\ pad \in Nat /\ BlockSize(b) \in Nat /\ pad <= BlockSize(b)
      /\ BlockSize(b) <= NPages * PAGESZ
  BY LiveIs
<1>2. k \in Nat /\ k < INTBITS /\ BlockSize(b) = Pow2[k]
  BY <1>1, Blocks DEF BlockSize
<1>3. INTBITS \in Nat /\ SIZEBITS \in Nat /\ INTBITS <= SIZEBITS /\ INTBITS - 1 \in Nat
  BY <1>2, MallocAssumption
<1>4. /\ Pow2[INTBITS] \in Positive /\ Pow2[SIZEBITS] \in Positive
      /\ Pow2[INTBITS] \in Nat /\ Pow2[SIZEBITS] \in Nat /\ Pow2[INTBITS - 1] \in Nat
  BY <1>3, Constants, Pow2Def
<1>5. Pow2[k] < Pow2[INTBITS] /\ Pow2[k] < Pow2[SIZEBITS]
  <2>1. k < SIZEBITS
    BY <1>2, <1>3
  <2> QED
    BY <1>2, <1>3, <2>1, Pow2Ordered
<1>6. Pow2[k] < Pow2[INTBITS - 1]
  <2>1. NPages * PAGESZ < Pow2[INTBITS - 1] /\ NPages * PAGESZ \in Int
    BY Constants, Powers DEF BlocksFitInt
  <2> QED
    BY <1>1, <1>2, <1>4, <2>1
<1> HIDE DEF b, pad, k
<1>7. Pow2[k] \in Nat /\ Pow2[k] % Pow2[INTBITS] = Pow2[k]
  BY <1>1, <1>2, <1>4, <1>5, SmallMod
<1>8. IntShift(k) = Pow2[k]
  BY <1>4, <1>6, <1>7 DEF IntShift
<1>9. Room(live[cp]) = (IntShift(k) - pad) % Pow2[SIZEBITS]
  BY DEF Room, k, b, pad
<1>10. Pow2[k] - pad \in Nat /\ Pow2[k] - pad < Pow2[SIZEBITS]
  BY <1>1, <1>2, <1>4, <1>5, <1>7
<1>11. (Pow2[k] - pad) % Pow2[SIZEBITS] = Pow2[k] - pad
  BY <1>4, <1>10, SmallMod
<1>12. Room(live[cp]) = BlockSize(b) - pad
  BY <1>2, <1>8, <1>9, <1>11
<1> QED
  BY <1>12 DEF b, pad

Inv == Heap /\ Fits(live)

LEMMA NextFits == ASSUME NoWrap, BlocksFitInt, Inv, [Next]_vars PROVE Fits(live')
<1> USE DEF Inv
<1>1. ASSUME NEW align \in Align, NEW nbytes \in Size, Alloc(align, nbytes) PROVE Fits(live')
  <2>1. PICK r \in aligned_alloc(align, nbytes) :
            live' = [cp \in DOMAIN live \cup {r.cp} |->
                        IF cp = r.cp THEN Block(r, align, nbytes) ELSE live[cp]]
    BY <1>1 DEF Alloc
  <2>2. /\ DOMAIN live' = DOMAIN live \cup {r.cp} /\ live'[r.cp] = Block(r, align, nbytes)
        /\ \A c \in DOMAIN live : c # r.cp => live'[c] = live[c]
    BY <2>1
  <2>3. align \in Align \cup {0} /\ HeapOK(nextf, mapped, live)
    BY DEF Heap
  <2>4. /\ r.alignpad \in Nat /\ r.index \in Bucket
        /\ IsPower(AtLeast(align)) /\ Divides(AtLeast(align), r.cp)
        /\ nbytes + r.alignpad <= BlockSize(r.index)
    BY <2>2, <2>3, AllocKeepsHeap
  <2>5. /\ live'[r.cp].req = nbytes /\ live'[r.cp].align = AtLeast(align)
        /\ live'[r.cp].alignpad = r.alignpad /\ live'[r.cp].index = r.index
    BY <2>2, <2>4, BlockIs
  <2>6. ASSUME NEW c \in DOMAIN live'
        PROVE  /\ IsPower(live'[c].align) /\ Divides(live'[c].align, c)
               /\ live'[c].req + live'[c].alignpad <= BlockSize(live'[c].index)
    <3>1. CASE c = r.cp
      BY <2>4, <2>5, <3>1
    <3>2. CASE c # r.cp
      BY <2>2, <3>2 DEF Fits
    <3> QED
      BY <3>1, <3>2
  <2> QED
    BY <2>6 DEF Fits
<1>2. ASSUME NEW cp \in DOMAIN live, Free(cp) PROVE Fits(live')
  <2>1. live' = [c \in DOMAIN live \ {cp} |-> live[c]]
    BY <1>2 DEF Free, Restrict
  <2> QED
    BY <2>1 DEF Fits
<1>3. ASSUME NEW cp \in DOMAIN live, NEW nbytes \in Size, ReallocStay(cp, nbytes) PROVE Fits(live')
  <2>1. /\ DOMAIN live' = DOMAIN live
        /\ live'[cp].req = nbytes /\ live'[cp].align = live[cp].align
        /\ live'[cp].alignpad = live[cp].alignpad /\ live'[cp].index = live[cp].index
        /\ \A c \in DOMAIN live : c # cp => live'[c] = live[c]
    BY <1>3, ReallocStayHeap
  <2>2. Room(live[cp]) >= nbytes /\ nbytes \in Nat
    BY <1>3, SizeIsNat DEF ReallocStay
  <2>3. nbytes + live[cp].alignpad <= BlockSize(live[cp].index)
    BY <2>2, LiveIs, RoomIs
  <2> QED
    BY <2>1, <2>3 DEF Fits
<1>4. ASSUME NEW cp \in DOMAIN live, NEW nbytes \in Size, ReallocMove(cp, nbytes) PROVE Fits(live')
  <2>1. \E np : /\ np \notin DOMAIN live /\ DOMAIN live' = (DOMAIN live \ {cp}) \cup {np}
                /\ \A c \in DOMAIN live \ {cp} : live'[c] = live[c]
                /\ live'[np].req = nbytes /\ live'[np].align = AtLeast(0)
                /\ IsPower(AtLeast(0)) /\ Divides(AtLeast(0), np)
                /\ nbytes + live'[np].alignpad <= BlockSize(live'[np].index)
    BY <1>4, ReallocMoveHeap
  <2> QED
    BY <2>1 DEF Fits
<1>5. ASSUME UNCHANGED vars PROVE Fits(live')
  BY <1>5 DEF vars
<1> QED
  BY <1>1, <1>2, <1>3, <1>4, <1>5 DEF Next, Realloc

(* What realloc() copies is inside both blocks, in every step. *)
LEMMA NextCopies ==
  ASSUME NoWrap, BlocksFitInt, Inv, [Next]_vars,
         NEW cp \in DOMAIN live, NEW np \in DOMAIN live', cp \notin DOMAIN live', np \notin DOMAIN live
  PROVE  CopyInBounds(live[cp], live'[np])
<1> USE DEF Inv
<1>1. ASSUME NEW align \in Align, NEW nbytes \in Size, Alloc(align, nbytes) PROVE FALSE
  BY <1>1 DEF Alloc
<1>2. ASSUME NEW c \in DOMAIN live, Free(c) PROVE FALSE
  BY <1>2 DEF Free, Restrict
<1>3. ASSUME NEW c \in DOMAIN live, NEW nbytes \in Size, ReallocStay(c, nbytes) PROVE FALSE
  BY <1>3, ReallocStayHeap
<1>4. ASSUME NEW c \in DOMAIN live, NEW nbytes \in Size, ReallocMove(c, nbytes)
      PROVE  CopyInBounds(live[cp], live'[np])
  <2>1. PICK q : /\ q \notin DOMAIN live /\ DOMAIN live' = (DOMAIN live \ {c}) \cup {q}
                 /\ live'[q].alignpad \in Nat /\ live'[q].index \in Bucket
                 /\ nbytes + live'[q].alignpad <= BlockSize(live'[q].index)
    BY <1>4, ReallocMoveHeap
  <2>2. c = cp /\ q = np
    BY <2>1
  <2>3. Room(live[cp]) < nbytes /\ nbytes \in Nat
    BY <1>4, <2>2, SizeIsNat DEF ReallocMove
  <2>4. /\ Room(live[cp]) = BlockSize(live[cp].index) - live[cp].alignpad
        /\ BlockSize(live[cp].index) \in Nat /\ live[cp].alignpad \in Nat /\ live[cp].req \in Nat
    BY LiveIs, RoomIs
  <2>5. live[cp].req <= Room(live[cp]) /\ Room(live[cp]) \in Int
    <3>1. live[cp].req + live[cp].alignpad <= BlockSize(live[cp].index)
      BY DEF Fits
    <3> QED
      BY <2>4, <3>1
  <2>6. BlockSize(live'[np].index) \in Nat
    BY <2>1, <2>2, Blocks
  <2>7. Room(live[cp]) <= BlockSize(live'[np].index) - live'[np].alignpad
    BY <2>1, <2>2, <2>3, <2>5, <2>6
  <2> QED
    BY <2>4, <2>5, <2>7 DEF CopyInBounds
<1>5. ASSUME UNCHANGED vars PROVE FALSE
  BY <1>5 DEF vars
<1> QED
  BY <1>1, <1>2, <1>3, <1>4, <1>5 DEF Next, Realloc

LEMMA FitsFromInv == Inv => LiveFits
<1> SUFFICES ASSUME Inv, NEW cp \in DOMAIN live
             PROVE  /\ cp % live[cp].align = 0
                    /\ Bytes(cp - Overhead, Overhead + live[cp].req) \subseteq LiveBytes(cp)
  BY DEF LiveFits
<1>1. /\ cp \in Nat /\ live[cp].index \in Bucket /\ live[cp].alignpad \in Nat /\ live[cp].req \in Nat
      /\ Overhead \in Nat /\ Overhead <= live[cp].alignpad /\ BlockSize(live[cp].index) \in Nat
  BY LiveIs DEF Inv
<1>2. /\ IsPower(live[cp].align) /\ Divides(live[cp].align, cp)
      /\ live[cp].req + live[cp].alignpad <= BlockSize(live[cp].index)
  BY DEF Inv, Fits
<1>3. cp % live[cp].align = 0
  <2>1. live[cp].align \in Positive
    BY <1>2, Powers
  <2> QED
    BY <1>1, <1>2, <2>1, Gap
<1>4. ASSUME NEW x \in Bytes(cp - Overhead, Overhead + live[cp].req)
      PROVE  x \in LiveBytes(cp)
  <2>1. cp - Overhead \in Int /\ Overhead + live[cp].req \in Int
    BY <1>1
  <2>2. x \in Int /\ cp - Overhead <= x /\ x < (cp - Overhead) + (Overhead + live[cp].req)
    BY <2>1, InBytes
  <2>3. cp - live[cp].alignpad \in Int /\ BlockSize(live[cp].index) \in Int
    BY <1>1
  <2>4. cp - live[cp].alignpad <= x /\ x < (cp - live[cp].alignpad) + BlockSize(live[cp].index)
    BY <1>1, <1>2, <2>2, <2>3
  <2>5. x \in Bytes(cp - live[cp].alignpad, BlockSize(live[cp].index))
    BY <2>2, <2>3, <2>4, InBytes
  <2> QED
    BY <2>5 DEF LiveBytes
<1> QED
  BY <1>3, <1>4

LEMMA TypeFromHeap == Heap => TypeOK
<1> SUFFICES ASSUME Heap PROVE TypeOK
  OBVIOUS
<1>1. /\ nextf \in [Bucket -> Seq(Nat)] /\ mapped \subseteq 1 .. NPages
      /\ \A b \in Bucket : \A i \in DOMAIN nextf[b] : IsBlock(b, nextf[b][i])
      /\ IsRecord(live)
  BY DEF Heap, HeapOK
<1> DEFINE top == (NPages + 1) * PAGESZ
<1>2. top \in Int
  BY Constants, Powers
<1> HIDE DEF top
<1>3. Address = 0 .. top
  BY DEF Address, top
<1>4. ASSUME NEW b \in Bucket
      PROVE  nextf[b] \in Seq(Address)
  <2>1. nextf[b] \in Seq(Nat) /\ Len(nextf[b]) \in Nat /\ DOMAIN nextf[b] = 1 .. Len(nextf[b])
    BY <1>1
  <2>2. ASSUME NEW i \in 1 .. Len(nextf[b])
        PROVE  nextf[b][i] \in Address
    <3>1. IsBlock(b, nextf[b][i])
      BY <1>1, <2>1
    <3>2. nextf[b][i] \in Nat /\ nextf[b][i] + BlockSize(b) <= top /\ BlockSize(b) \in Nat
      BY <3>1, Blocks DEF IsBlock, top
    <3> QED
      BY <1>2, <1>3, <3>2
  <2> QED
    BY <2>1, <2>2
<1>5. ASSUME NEW cp \in DOMAIN live
      PROVE  cp \in Address
  <2>1. /\ cp \in Nat /\ live[cp].alignpad \in Nat /\ live[cp].alignpad <= BlockSize(live[cp].index)
        /\ BlockSize(live[cp].index) \in Nat
        /\ cp - live[cp].alignpad + BlockSize(live[cp].index) <= top
    BY LiveIs DEF top
  <2> QED
    BY <1>2, <1>3, <2>1
<1>6. nextf \in [Bucket -> Seq(Address)]
  BY <1>1, <1>4
<1> QED
  BY <1>1, <1>5, <1>6 DEF TypeOK, IsRecord

-----------------------------------------------------------------------------

LEMMA HeapInvariance == ASSUME NoWrap PROVE Spec => []Heap
<1>1. Heap /\ [Next]_vars => Heap'
  BY NextHeap
<1> QED
  BY <1>1, InitHeap, PTL DEF Spec

LEMMA Invariance == ASSUME NoWrap, BlocksFitInt PROVE Spec => []Inv
<1>1. Init => Inv
  BY InitHeap DEF Init, Inv, Fits
<1>2. Inv /\ [Next]_vars => Inv'
  BY NextHeap, NextFits DEF Inv
<1> QED
  BY <1>1, <1>2, PTL DEF Spec

(* The free lists, the mapped pages and the headers of the blocks in use have
   their types: free blocks and pointers lie in memory that mmap() gave out. *)
THEOREM TypeCorrect == ASSUME NoWrap PROVE Spec => []TypeOK
<1>1. Heap => TypeOK
  BY TypeFromHeap
<1> QED
  BY <1>1, HeapInvariance, PTL

(* Whatever the sizes of header, page and memory, and whatever callers ask for
   and in which order: as long as no sum wraps, every mapped byte belongs to
   one block, in use or on one free list (aligned_alloc, morecore, free,
   realloc). *)
THEOREM HeapAlwaysPartition == ASSUME NoWrap PROVE Spec => []HeapPartition
<1>1. Heap => HeapPartition
  BY PartitionFromHeap DEF Heap
<1> QED
  BY <1>1, HeapInvariance, PTL

(* As long as the size of every block fits an int also, what a caller has is
   aligned as asked and lies with its header inside its block. *)
THEOREM LiveAlwaysFits == ASSUME NoWrap, BlocksFitInt PROVE Spec => []LiveFits
<1>1. Inv => LiveFits
  BY FitsFromInv
<1> QED
  BY <1>1, Invariance, PTL

(* Under the same conditions realloc() copies all that was asked for, and no
   more than either block holds. *)
THEOREM ReallocAlwaysKeeps == ASSUME NoWrap, BlocksFitInt PROVE Spec => ReallocKeeps
<1> DEFINE Keeps == \A cp \in DOMAIN live, np \in DOMAIN live' :
                       cp \notin DOMAIN live' /\ np \notin DOMAIN live =>
                           CopyInBounds(live[cp], live'[np])
<1>1. Inv /\ [Next]_vars => Keeps
  BY NextCopies
<1>2. Inv /\ [Next]_vars => [Keeps]_vars
  BY <1>1
<1>3. Spec => [][Keeps]_vars
  BY <1>2, Invariance, PTL DEF Spec
<1> QED
  BY <1>3 DEF ReallocKeeps
=============================================================================
