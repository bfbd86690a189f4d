---------------------------- MODULE ConfigProofs ----------------------------
(***************************************************************************)
(* Proofs about what the environment makes of the IDs, for every set of    *)
(* processes and every width of the fields of an ID.                       *)
(***************************************************************************)
EXTENDS Config, SnowflakeProofs, SequenceTheorems, WellFoundedInduction

(* The worker field of every ID is the worker ID of the process that       *)
(* handed it out, whatever the clock and the sequence did.                 *)
WorkerStamped ==
    \A n \in Nodes : \A i \in DOMAIN issued[n] :
        WorkerField(issued[n][i]) = workerID(n)

(* Division by B drops the last digit in base B, and % B keeps only it.    *)
LEMMA LastDigit ==
    ASSUME NEW B \in Nat \ {0}, NEW a \in Nat, NEW q \in 0..(B - 1)
    PROVE  (a * B + q) \div B = a /\ (a * B + q) % B = q
<1>1. (a * B + q) \div B = a
  OBVIOUS
<1>2. (a * B + q) % B = q
  OBVIOUS
<1> QED
  BY <1>1, <1>2

(* The worker field of a packed ID is the worker ID that was packed: no    *)
(* timestamp and no sequence number spills into it.                        *)
LEMMA UnpackWorker ==
    ASSUME NEW stamp \in Nat, NEW w \in 0..MaxWorkerID, NEW seq \in 0..MaxSequence
    PROVE  WorkerField(Pack(stamp, w, seq)) = w
<1> DEFINE W == MaxWorkerID + 1
           S == MaxSequence + 1
           high == stamp * W + w
<1>1. W \in Nat \ {0} /\ S \in Nat \ {0} /\ w \in 0..(W - 1) /\ seq \in 0..(S - 1)
  BY BoundsAssumption
<1>2. high \in Nat /\ high % W = w
  <2> HIDE DEF W
  <2>1. stamp * W \in Nat /\ high \in Nat
    BY <1>1
  <2>2. (stamp * W + w) % W = w
    BY <1>1, LastDigit
  <2> QED
    BY <2>1, <2>2
<1>3. (high * S + seq) \div S = high
  <2> HIDE DEF S, high
  <2> QED
    BY <1>1, <1>2, LastDigit
<1>4. Pack(stamp, w, seq) = high * S + seq
  BY DEF Pack
<1>5. WorkerField(Pack(stamp, w, seq)) = ((high * S + seq) \div S) % W
  BY <1>4 DEF WorkerField
<1> QED
  BY <1>2, <1>3, <1>5

(* What the generator's invariant says of an ID fixes its worker field.    *)
LEMMA IssuedAreStamped == IInv => WorkerStamped
<1> SUFFICES ASSUME IInv, NEW n \in Nodes, NEW i \in DOMAIN issued[n]
             PROVE  WorkerField(issued[n][i]) = workerID(n)
  BY DEF WorkerStamped
<1>1. PICK stamp \in 0..MaxClock, seq \in 0..MaxSequence :
        issued[n][i] = Pack(stamp, workerID(n), seq)
  BY DEF IInv, GeneratorInvariant, IssuedBehind
<1>2. stamp \in Nat /\ workerID(n) \in 0..MaxWorkerID
  BY BoundsAssumption, WorkerIDType
<1> QED
  BY <1>1, <1>2, UnpackWorker

(* Every ID carries the worker ID of the process that handed it out, so    *)
(* that IDs of processes with distinct worker IDs never meet.              *)
THEOREM IDsCarryWorkerID == Spec => []WorkerStamped
  BY InitEstablishes, StepKeeps, IssuedAreStamped, PTL DEF Spec

-----------------------------------------------------------------------------
(* The parser                                                              *)

(* Induction up to N, for a set rather than for a predicate.               *)
LEMMA InductionTo ==
    ASSUME NEW N \in Nat, NEW K, 0 \in K,
           \A k \in 1..N : k - 1 \in K => k \in K
    PROVE  0..N \subseteq K
<1> SUFFICES ASSUME NEW x \in 0..N, x \notin K PROVE FALSE
  OBVIOUS
<1> DEFINE missing == {k \in 0..N : k \notin K}
<1>1. missing \subseteq Nat /\ missing # {}
  OBVIOUS
<1>2. \E k \in missing : \A j \in missing : <<j, k>> \notin OpToRel(<, Nat)
  <2> HIDE DEF missing
  <2> QED
    BY <1>1, NatLessThanWellFounded, WFMin
<1>3. PICK k \in missing : \A j \in missing : ~(j < k)
  BY <1>1, <1>2 DEF OpToRel
<1>4. k \in 1..N /\ k - 1 \in 0..N /\ k - 1 < k
  BY <1>3
<1>5. k - 1 \in K
  BY <1>3, <1>4
<1> QED
  BY <1>3, <1>4, <1>5

(* Wrapping yields an integer in the range that differs from its argument  *)
(* by a multiple of the number of integers.                                *)
LEMMA WrapType == \A n \in Int : Wrap(n) \in (-HalfRange)..(HalfRange - 1)
<1> SUFFICES ASSUME NEW n \in Int PROVE Wrap(n) \in (-HalfRange)..(HalfRange - 1)
  OBVIOUS
<1>1. 2 * HalfRange \in Nat \ {0} /\ HalfRange \in Nat
  BY ConfigAssumption
<1>2. (n + HalfRange) % (2 * HalfRange) \in 0..(2 * HalfRange - 1)
  BY <1>1
<1> QED
  BY <1>1, <1>2 DEF Wrap

LEMMA WrapCongruent == \A n \in Int : \E q \in Int : Wrap(n) = n - q * (2 * HalfRange)
<1> SUFFICES ASSUME NEW n \in Int
             PROVE  \E q \in Int : Wrap(n) = n - q * (2 * HalfRange)
  OBVIOUS
<1> DEFINE M == 2 * HalfRange
           q == (n + HalfRange) \div M
<1>1. M \in Nat \ {0} /\ HalfRange \in Nat
  BY ConfigAssumption
<1>2. q \in Int /\ n + HalfRange = (q * M) + ((n + HalfRange) % M)
  <2> HIDE DEF M
  <2> QED
    BY <1>1
<1>3. Wrap(n) = n - q * M
  <2>1. Wrap(n) = ((n + HalfRange) % M) - HalfRange
    BY DEF Wrap
  <2>2. q * M \in Int /\ (n + HalfRange) % M \in Int
    <3> HIDE DEF M, q
    <3> QED
      BY <1>1, <1>2
  <2> HIDE DEF M, q
  <2> QED
    BY <1>1, <1>2, <2>1, <2>2
<1> QED
  BY <1>2, <1>3

(* A sequence can be built value by value from a first one.                *)
LEMMA ValueByValue ==
    ASSUME NEW N \in Nat, NEW a \in Int, NEW F \in [1..N -> [Int -> Int]]
    PROVE  \E g \in [0..N -> Int] :
              g[0] = a /\ \A i \in 1..N : g[i] = F[i][g[i - 1]]
<1> DEFINE Good(k, g) == g[0] = a /\ \A i \in 1..k : g[i] = F[i][g[i - 1]]
           K == {k \in 0..N : \E g \in [0..k -> Int] : Good(k, g)}
<1>1. 0 \in K
  <2> DEFINE first == [i \in 0..0 |-> a]
  <2>1. first \in [0..0 -> Int] /\ Good(0, first)
    OBVIOUS
  <2> HIDE DEF first, Good
  <2> QED
    BY <2>1
<1>2. ASSUME NEW k \in 1..N, k - 1 \in K
      PROVE  k \in K
  <2>1. PICK g \in [0..(k - 1) -> Int] : Good(k - 1, g)
    <3> HIDE DEF Good
    <3> QED
      BY <1>2
  <2> DEFINE h == [i \in 0..k |-> IF i = k THEN F[k][g[k - 1]] ELSE g[i]]
  <2>2. g[k - 1] \in Int /\ F[k][g[k - 1]] \in Int
    BY <1>2
  <2>3. h \in [0..k -> Int]
    BY <2>2
  <2>4. h[0] = a
    BY <2>1
  <2>5. ASSUME NEW i \in 1..k
        PROVE  h[i] = F[i][h[i - 1]]
    <3>1. CASE i = k
      <4>1. h[k] = F[k][g[k - 1]] /\ h[k - 1] = g[k - 1]
        BY <1>2
      <4> QED
        BY <3>1, <4>1
    <3>2. CASE i # k
      BY <3>2, <2>1
    <3> QED
      BY <3>1, <3>2
  <2>6. Good(k, h)
    BY <2>4, <2>5
  <2> HIDE DEF h, Good
  <2> QED
    BY <2>3, <2>6
<1> HIDE DEF K
<1>3. 0..N \subseteq K
  BY <1>1, <1>2, InductionTo
<1>4. N \in K
  BY <1>3
<1> QED
  BY <1>4 DEF K

(* And what is built that way from an integer consists of integers.        *)
LEMMA ValuesAreIntegers ==
    ASSUME NEW N \in Nat, NEW f, DOMAIN f = 0..N, f[0] \in Int,
           \A i \in 1..N : f[i - 1] \in Int => f[i] \in Int
    PROVE  \A i \in 0..N : f[i] \in Int
<1> DEFINE K == {i \in 0..N : f[i] \in Int}
<1>1. 0 \in K
  OBVIOUS
<1>2. \A k \in 1..N : k - 1 \in K => k \in K
  OBVIOUS
<1> HIDE DEF K
<1>3. 0..N \subseteq K
  BY <1>1, <1>2, InductionTo
<1> QED
  BY <1>3 DEF K

(* A function that is defined by its own earlier values satisfies its      *)
(* definition: here for the loop of the parser, then for the place values  *)
(* and their sum.                                                          *)
LEMMA RoundsDef ==
    ASSUME NEW v \in Seq(Int)
    PROVE  /\ \A i \in 0..Len(v) : Rounds(v)[i] \in Int
           /\ Rounds(v)[0] = 0
           /\ \A i \in 1..Len(v) : Rounds(v)[i] = AddDigit(Rounds(v)[i - 1], v[i])
<1> DEFINE N == Len(v)
           F == [i \in 1..N |-> [n \in Int |-> AddDigit(n, v[i])]]
           Def(g) == [i \in 0..N |-> IF i = 0 THEN 0 ELSE AddDigit(g[i - 1], v[i])]
<1>1. N \in Nat /\ 0 \in Int /\ \A i \in 1..N : v[i] \in Int
  OBVIOUS
<1>2. \A n, c \in Int : AddDigit(n, c) \in Int
  BY WrapType DEF AddDigit
<1>3. F \in [1..N -> [Int -> Int]]
  BY <1>1, <1>2
<1>4. PICK g \in [0..N -> Int] : g[0] = 0 /\ \A i \in 1..N : g[i] = F[i][g[i - 1]]
  <2> HIDE DEF F, N
  <2> QED
    BY <1>1, <1>3, ValueByValue, Zenon
<1>5. g = Def(g)
  <2>1. \A i \in 1..N : g[i - 1] \in Int
    BY <1>1
  <2>2. \A i \in 1..N : F[i][g[i - 1]] = AddDigit(g[i - 1], v[i])
    BY <2>1
  <2> HIDE DEF F
  <2> QED
    BY <1>4, <2>2
<1> DEFINE f == Rounds(v)
<1>6. f = Def(f)
  <2>1. f = CHOOSE h : h = Def(h)
    BY DEF Rounds
  <2> HIDE DEF Def, f
  <2> QED
    BY <1>5, <2>1
<1> HIDE DEF f
<1>7. f[0] = 0 /\ \A i \in 1..N : f[i] = AddDigit(f[i - 1], v[i])
  BY <1>1, <1>6
<1>8. \A i \in 0..N : f[i] \in Int
  <2>1. DOMAIN f = 0..N /\ f[0] \in Int
    BY <1>6, <1>7
  <2> HIDE DEF N
  <2> QED
    BY <1>1, <1>2, <1>7, <2>1, ValuesAreIntegers
<1> QED
  BY <1>7, <1>8 DEF f

LEMMA PlaceDef ==
    ASSUME NEW v \in Seq(Int)
    PROVE  /\ \A d \in 0..Len(v) : Place(v)[d] \in Int
           /\ Place(v)[0] = 1
           /\ \A d \in 1..Len(v) : Place(v)[d] = 10 * Place(v)[d - 1]
<1> DEFINE N == Len(v)
           tenfold(n) == 10 * n
           F == [d \in 1..N |-> [n \in Int |-> tenfold(n)]]
           Def(g) == [d \in 0..N |-> IF d = 0 THEN 1 ELSE tenfold(g[d - 1])]
<1>1. N \in Nat /\ 1 \in Int
  OBVIOUS
<1>2. \A n \in Int : tenfold(n) \in Int
  OBVIOUS
<1> HIDE DEF tenfold
<1>3. F \in [1..N -> [Int -> Int]]
  BY <1>1, <1>2
<1>4. PICK g \in [0..N -> Int] : g[0] = 1 /\ \A d \in 1..N : g[d] = F[d][g[d - 1]]
  <2> HIDE DEF F, N
  <2> QED
    BY <1>1, <1>3, ValueByValue, Zenon
<1>5. g = Def(g)
  <2>1. \A d \in 1..N : g[d - 1] \in Int
    BY <1>1
  <2>2. \A d \in 1..N : F[d][g[d - 1]] = tenfold(g[d - 1])
    BY <2>1
  <2> HIDE DEF F
  <2> QED
    BY <1>4, <2>2
<1> DEFINE f == Place(v)
<1>6. f = Def(f)
  <2>1. f = CHOOSE h : h = Def(h)
    BY DEF Place, tenfold
  <2> HIDE DEF Def, f
  <2> QED
    BY <1>5, <2>1
<1> HIDE DEF f
<1>7. f[0] = 1 /\ \A d \in 1..N : f[d] = tenfold(f[d - 1])
  <2>1. 0 \in 0..N /\ \A d \in 1..N : d \in 0..N /\ d # 0
    BY <1>1
  <2> HIDE DEF N
  <2> QED
    BY <1>6, <2>1
<1>8. \A d \in 0..N : f[d] \in Int
  <2>1. DOMAIN f = 0..N /\ f[0] \in Int
    BY <1>6, <1>7
  <2> HIDE DEF N
  <2> QED
    BY <1>1, <1>2, <1>7, <2>1, ValuesAreIntegers
<1> QED
  BY <1>7, <1>8 DEF f, tenfold

LEMMA PlaceSumDef ==
    ASSUME NEW v \in Seq(Int)
    PROVE  /\ \A i \in 0..Len(v) : PlaceSum(v)[i] \in Int
           /\ PlaceSum(v)[0] = 0
           /\ \A i \in 1..Len(v) :
                 PlaceSum(v)[i] = PlaceSum(v)[i - 1] + v[i] * Place(v)[Len(v) - i]
<1> DEFINE N == Len(v)
           plus(n, i) == n + v[i] * Place(v)[N - i]
           F == [i \in 1..N |-> [n \in Int |-> plus(n, i)]]
           Def(g) == [i \in 0..N |-> IF i = 0 THEN 0 ELSE plus(g[i - 1], i)]
<1>1. N \in Nat /\ 0 \in Int
  OBVIOUS
<1>2. \A n \in Int, i \in 1..N : plus(n, i) \in Int
  <2> SUFFICES ASSUME NEW n \in Int, NEW i \in 1..N
               PROVE  n + v[i] * Place(v)[N - i] \in Int
    OBVIOUS
  <2>1. v[i] \in Int /\ Place(v)[N - i] \in Int
    BY <1>1, PlaceDef
  <2> QED
    BY <2>1
<1> HIDE DEF plus
<1>3. F \in [1..N -> [Int -> Int]]
  BY <1>1, <1>2
<1>4. PICK g \in [0..N -> Int] : g[0] = 0 /\ \A i \in 1..N : g[i] = F[i][g[i - 1]]
  <2> HIDE DEF F, N
  <2> QED
    BY <1>1, <1>3, ValueByValue, Zenon
<1>5. g = Def(g)
  <2>1. \A i \in 1..N : g[i - 1] \in Int
    BY <1>1
  <2>2. \A i \in 1..N : F[i][g[i - 1]] = plus(g[i - 1], i)
    BY <2>1
  <2> HIDE DEF F
  <2> QED
    BY <1>4, <2>2
<1> DEFINE f == PlaceSum(v)
<1>6. f = Def(f)
  <2>1. f = CHOOSE h : h = Def(h)
    BY DEF PlaceSum, plus
  <2> HIDE DEF Def, f
  <2> QED
    BY <1>5, <2>1
<1> HIDE DEF f
<1>7. f[0] = 0 /\ \A i \in 1..N : f[i] = plus(f[i - 1], i)
  BY <1>1, <1>6
<1>8. \A i \in 0..N : f[i] \in Int
  <2>1. DOMAIN f = 0..N /\ f[0] \in Int
    BY <1>6, <1>7
  <2> HIDE DEF N
  <2> QED
    BY <1>1, <1>2, <1>7, <2>1, ValuesAreIntegers
<1> QED
  BY <1>7, <1>8 DEF f, plus

(* One round adds a digit at the right, up to a multiple of the number of  *)
(* integers.                                                               *)
LEMMA AddDigitCongruent ==
    ASSUME NEW n \in Int, NEW c \in Int
    PROVE  /\ AddDigit(n, c) \in (-HalfRange)..(HalfRange - 1)
           /\ \E t \in Int : AddDigit(n, c) = 10 * n + c + t * (2 * HalfRange)
<1> DEFINE M == 2 * HalfRange
           a == Wrap(n * 10)
           b == Wrap(a + c)
<1>1. M \in Int /\ HalfRange \in Int /\ n * 10 \in Int
  BY ConfigAssumption
<1>2. PICK q \in Int : a = n * 10 - q * M
  BY <1>1, WrapCongruent
<1>3. a \in Int
  BY <1>1, WrapType
<1>4. PICK r \in Int : b = (a + c) - r * M
  <2>1. a + c \in Int
    BY <1>3
  <2> HIDE DEF a
  <2> QED
    BY <2>1, WrapCongruent
<1>5. b \in (-HalfRange)..(HalfRange - 1)
  <2> HIDE DEF a
  <2> QED
    BY <1>3, WrapType
<1>6. AddDigit(n, c) = b
  BY DEF AddDigit
<1>7. b = 10 * n + c + (-(q + r)) * M
  <2> HIDE DEF a, b, M
  <2>1. q * M \in Int /\ r * M \in Int /\ (-(q + r)) * M = -(q * M) - (r * M)
    BY <1>1
  <2> QED
    BY <1>1, <1>2, <1>3, <1>4, <2>1
<1>8. -(q + r) \in Int
  OBVIOUS
<1> HIDE DEF b
<1> QED
  BY <1>5, <1>6, <1>7, <1>8

(* The algebra of a round: r stands for the digits read so far, s for what *)
(* they contribute, p for the place of the next digit c.                   *)
LEMMA OneRound ==
    ASSUME NEW r \in Int, NEW p \in Int, NEW c \in Int, NEW q \in Int, NEW s \in Int,
           r * (10 * p) = s + q * (2 * HalfRange)
    PROVE  \E u \in Int : AddDigit(r, c) * p = (s + c * p) + u * (2 * HalfRange)
<1> DEFINE M == 2 * HalfRange
<1>1. M \in Int
  BY ConfigAssumption
<1>2. PICK t \in Int : AddDigit(r, c) = 10 * r + c + t * M
  BY AddDigitCongruent
<1>3. r * (10 * p) = s + q * M
  OBVIOUS
<1> HIDE DEF M
<1>4. (10 * r + c + t * M) * p = r * (10 * p) + c * p + (t * M) * p
  BY <1>1
<1>5. (q + t * p) * M = q * M + (t * M) * p /\ q + t * p \in Int
  BY <1>1
<1>6. q * M \in Int /\ (t * M) * p \in Int /\ c * p \in Int
  BY <1>1
<1>7. AddDigit(r, c) * p = (s + c * p) + (q + t * p) * M
  BY <1>2, <1>3, <1>4, <1>5, <1>6
<1> QED
  BY <1>5, <1>7 DEF M

(* The loop keeps this up: what it has read, moved to its place, is the    *)
(* sum so far up to a multiple of the number of integers.                  *)
LEMMA RoundsCongruent ==
    ASSUME NEW v \in Seq(Int), NEW k \in 0..Len(v)
    PROVE  \E q \in Int : Rounds(v)[k] * Place(v)[Len(v) - k]
                            = PlaceSum(v)[k] + q * (2 * HalfRange)
<1> DEFINE N == Len(v)
           M == 2 * HalfRange
           R == Rounds(v)
           P == Place(v)
           S == PlaceSum(v)
           K == {i \in 0..N : \E q \in Int : R[i] * P[N - i] = S[i] + q * M}
<1>1. N \in Nat /\ M \in Int /\ \A i \in 1..N : v[i] \in Int
  BY ConfigAssumption
<1>2. /\ \A i \in 0..N : R[i] \in Int /\ P[i] \in Int /\ S[i] \in Int
      /\ \A i \in 1..N : /\ R[i] = AddDigit(R[i - 1], v[i])
                         /\ P[i] = 10 * P[i - 1]
                         /\ S[i] = S[i - 1] + v[i] * P[N - i]
      /\ R[0] = 0 /\ S[0] = 0
  BY RoundsDef, PlaceDef, PlaceSumDef
<1> HIDE DEF R, P, S
<1>3. 0 \in K
  <2>1. 0 \in 0..N /\ N - 0 \in 0..N
    BY <1>1
  <2>2. P[N - 0] \in Int
    BY <1>2, <2>1
  <2>3. R[0] * P[N - 0] = S[0] + 0 * M
    <3> HIDE DEF M, N
    <3> QED
      BY <1>1, <1>2, <2>2
  <2> HIDE DEF N, M
  <2> QED
    BY <2>1, <2>3
<1>4. ASSUME NEW i \in 1..N, i - 1 \in K
      PROVE  i \in K
  <2>1. PICK q \in Int : R[i - 1] * P[N - (i - 1)] = S[i - 1] + q * M
    BY <1>4
  <2>2. i \in 0..N /\ i - 1 \in 0..N /\ N - i \in 0..N /\ N - (i - 1) \in 1..N
        /\ (N - (i - 1)) - 1 = N - i
    BY <1>1, <1>4
  <2>3. R[i - 1] \in Int /\ S[i - 1] \in Int /\ P[N - i] \in Int /\ v[i] \in Int
    BY <1>1, <1>2, <2>2
  <2>4. P[N - (i - 1)] = 10 * P[N - i]
    BY <1>2, <2>2
  <2> DEFINE r == R[i - 1]
             p == P[N - i]
             c == v[i]
             sum == S[i - 1]
  <2>5. r \in Int /\ p \in Int /\ c \in Int /\ sum \in Int
        /\ r * (10 * p) = sum + q * (2 * HalfRange)
    BY <2>1, <2>3, <2>4
  <2>6. R[i] = AddDigit(r, c) /\ S[i] = sum + c * p
    BY <1>2
  <2> HIDE DEF r, p, c, sum
  <2>7. PICK u \in Int : AddDigit(r, c) * p = (sum + c * p) + u * (2 * HalfRange)
    BY <2>5, OneRound
  <2>8. R[i] * p = S[i] + u * M
    BY <2>6, <2>7
  <2> HIDE DEF N, M
  <2> QED
    BY <2>2, <2>8 DEF p
<1>5. 0..N \subseteq K
  <2> HIDE DEF K, N
  <2> QED
    BY <1>1, <1>3, <1>4, InductionTo
<1> QED
  BY <1>5 DEF R, P, S

(* Integers in the range that differ by a multiple of its size are equal.  *)
LEMMA OneInRange ==
    ASSUME NEW H \in Nat \ {0}, NEW m \in (-H)..(H - 1), NEW n \in (-H)..(H - 1),
           NEW q \in Int, m = n + q * (2 * H)
    PROVE  m = n
<1>1. CASE q > 0
  <2>1. q * (2 * H) >= 2 * H
    BY <1>1
  <2> QED
    BY <2>1
<1>2. CASE q < 0
  <2>1. q * (2 * H) <= -(2 * H)
    BY <1>2
  <2> QED
    BY <2>1
<1>3. CASE q = 0
  BY <1>3
<1> QED
  BY <1>1, <1>2, <1>3

(* The remainder is zero for the multiples, and only for them.             *)
LEMMA ZeroRemainder ==
    ASSUME NEW M \in Nat \ {0}, NEW a \in Int
    PROVE  (a % M = 0) <=> (\E q \in Int : a = q * M)
<1>1. ASSUME a % M = 0
      PROVE  \E q \in Int : a = q * M
  <2>1. a \div M \in Int /\ a = (a \div M) * M
    BY <1>1
  <2> QED
    BY <2>1
<1>2. ASSUME NEW q \in Int, a = q * M
      PROVE  a % M = 0
  BY <1>2
<1> QED
  BY <1>1, <1>2

(* The parser reads a string of any length and any characters as what it   *)
(* means.                                                                  *)
LEMMA ReadsMeaning ==
    ASSUME NEW v \in Seq(Int)
    PROVE  LoadWorkerID(v) = Meaning(v)
<1>1. CASE ~(v # <<>> /\ \A i \in DOMAIN v : v[i] \in 0..9)
  BY <1>1 DEF LoadWorkerID, getEnvInt64, Meaning, IsDigit
<1>2. CASE v # <<>> /\ \A i \in DOMAIN v : v[i] \in 0..9
  <2> DEFINE N == Len(v)
             M == 2 * HalfRange
             range == (-HalfRange)..(HalfRange - 1)
             n == Rounds(v)[N]
  <2>1. N \in 0..N /\ N - 1 \in 0..N /\ N \in 1..N /\ N - N = 0 /\ v[N] \in Int
    BY <1>2
  <2>2. n \in range
    <3>1. Rounds(v)[N - 1] \in Int /\ n = AddDigit(Rounds(v)[N - 1], v[N])
      BY <2>1, RoundsDef
    <3> QED
      BY <2>1, <3>1, AddDigitCongruent
  <2>3. Denotes(v) \in Int
    BY <2>1, PlaceSumDef DEF Denotes
  <2>4. PICK q \in Int : n = Denotes(v) + q * M
    <3>1. PICK q \in Int : n * Place(v)[N - N] = Denotes(v) + q * M
      BY <2>1, RoundsCongruent DEF Denotes
    <3>2. n * Place(v)[N - N] = n
      <4>1. n \in Int /\ Place(v)[N - N] = 1
        BY <2>1, <2>2, PlaceDef, ConfigAssumption
      <4> HIDE DEF n
      <4> QED
        BY <4>1
    <3> QED
      BY <3>1, <3>2
  <2>5. M \in Nat \ {0} /\ HalfRange \in Nat \ {0} /\ \A m \in range : m \in Int
    BY ConfigAssumption
  <2>6. (n - Denotes(v)) % M = 0
    <3> DEFINE D == Denotes(v)
    <3>1. q * M \in Int /\ n - D \in Int /\ n - D = q * M
      <4> HIDE DEF n, D, M
      <4> QED
        BY <2>2, <2>3, <2>4, <2>5 DEF D
    <3> HIDE DEF n, D, M
    <3>2. (n - D) % M = 0
      BY <2>5, <3>1, ZeroRemainder
    <3> QED
      BY <3>2 DEF D
  <2>7. ASSUME NEW m \in range, (m - Denotes(v)) % M = 0
        PROVE  m = n
    <3> DEFINE D == Denotes(v)
    <3>1. m \in Int /\ m - D \in Int
      BY <2>3, <2>5
    <3>2. PICK p \in Int : m - D = p * M
      <4> HIDE DEF D, M
      <4> QED
        BY <2>5, <2>7, <3>1, ZeroRemainder DEF D
    <3>3. m = n + (p - q) * M /\ p - q \in Int
      <4>1. n \in Int /\ D \in Int /\ M \in Int
        BY <2>2, <2>3, <2>5
      <4> HIDE DEF n, D, M
      <4>2. n = D + q * M
        BY <2>4 DEF D
      <4>3. (p - q) * M = p * M - q * M /\ p * M \in Int /\ q * M \in Int
        BY <4>1
      <4> QED
        BY <3>1, <3>2, <4>1, <4>2, <4>3
    <3> HIDE DEF n
    <3> QED
      BY <2>2, <2>5, <3>3, OneInRange
  <2>8. Meaning(v) = CHOOSE m \in range : (m - Denotes(v)) % M = 0
    BY <1>2 DEF Meaning
  <2>9. LoadWorkerID(v) = n
    BY <1>2 DEF LoadWorkerID, getEnvInt64, IsDigit
  <2> HIDE DEF n, M, range
  <2> QED
    BY <2>2, <2>6, <2>7, <2>8, <2>9
<1> QED
  BY <1>1, <1>2

(* In particular it does for the values that the run goes through.         *)
LEMMA ParserIsExact == ParserExact
<1> SUFFICES ASSUME NEW n \in 0..MaxEnvLen, NEW v \in [1..n -> EnvChars]
             PROVE  LoadWorkerID(v) = Meaning(v)
  BY DEF ParserExact, EnvValues
<1>1. n \in Nat
  BY ConfigAssumption
<1>2. v \in Seq(Int)
  <2>1. v \in [1..n -> Int]
    <3>1. \A i \in 1..n : v[i] \in Int
      BY ConfigAssumption
    <3> QED
      BY <3>1
  <2> QED
    BY <1>1, <2>1, SeqDef
<1> QED
  BY <1>2, ReadsMeaning

-----------------------------------------------------------------------------
(* From the environment to the IDs                                         *)

(* For every environment, every width of the parser's integers and of the  *)
(* ID's fields: a string means the number it denotes, up to what the width *)
(* can tell, and every ID carries what the WORKER_ID of its process means, *)
(* or 0 if that is out of range.                                           *)
THEOREM ConfiguredIDs == Spec => []WorkerIDAsConfigured
<1>1. ASSUME NEW n \in Nodes
      PROVE  workerID(n) = LET w == Meaning(WORKER_ID[n])
                           IN  IF w \in 0..MaxWorkerID THEN w ELSE 0
  <2>1. /\ ConfiguredWorkerID[n] = Meaning(WORKER_ID[n])
        /\ ConfiguredWorkerID[n] \in Int
    BY EnvironmentAssumption, WorkerIDAssumption, ReadsMeaning
  <2> QED
    BY <2>1, BoundsAssumption DEF workerID, NewGenerator
<1>2. IInv => WorkerIDAsConfigured
  BY <1>1, IssuedAreStamped, ParserIsExact DEF WorkerIDAsConfigured, WorkerStamped
<1> QED
  BY InitEstablishes, StepKeeps, <1>2, PTL DEF Spec

=============================================================================
