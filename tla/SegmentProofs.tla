--------------------------- MODULE SegmentProofs ----------------------------
(***************************************************************************)
(* Proofs about InternetChecksum, NetParser and NetUnparser as Segment     *)
(* uses them, for any size of a byte, segments of any content up to        *)
(* MaxPacket bytes, added in any chunks, and any initial sum; what is said *)
(* of the checksum holds as long as SumFits, and beyond it a carry may be  *)
(* lost.                                                                   *)
(*                                                                         *)
(* Three loops of the code are folds over bytes or words.  Induction over  *)
(* a set of naturals shows that such a fold goes through its elements in   *)
(* order (FoldAppend, FoldConcat).  The loop of value() computes a residue *)
(* modulo WordMod - 1 (FoldedIs), so it does not matter when the carries   *)
(* are folded in (FoldedAdd), and the sum of add() is the sum of RFC 1071  *)
(* (SumIsReference).  As long as SumFits it does not wrap (BoundFits).     *)
(* Filling the field in makes the residue WordMod - 1 (SealMakes);         *)
(* changing a byte moves it by less than WordMod - 1, and not by 0         *)
(* (DamageShows).  Digits are parsed and unparsed without loss             *)
(* (UnparseParse).                                                         *)
(***************************************************************************)
EXTENDS Segment, SequenceTheorems, WellFoundedInduction, TLAPS

(* Induction over the naturals, as a fact about a set.                     *)
LEMMA Induction ==
  ASSUME NEW T, 0 \in T, \A k \in Nat : k \in T => k + 1 \in T
  PROVE  Nat \subseteq T
<1> DEFINE R == OpToRel(<, Nat)
<1> DEFINE U == Nat \ T
<1>1. IsWellFoundedOn(R, Nat) BY NatLessThanWellFounded
<1>2. SUFFICES ASSUME U # {} PROVE FALSE OBVIOUS
<1>3. PICK x \in U : \A y \in U : ~ (<<y, x>> \in R)
  <2> HIDE DEF R
  <2> QED BY <1>1, <1>2, WFMin
<1>4. x - 1 \in Nat /\ x = (x - 1) + 1 OBVIOUS
<1>5. <<x - 1, x>> \in R BY <1>4 DEF OpToRel
<1>6. x - 1 \in T BY <1>3, <1>4, <1>5
<1> QED BY <1>4, <1>6
-----------------------------------------------------------------------------
(* The three operators that the model folds over bytes or words: the byte  *)
(* loop of add(), the ones' complement sum, and the byte loop of           *)
(* _parse_int().  One argument about folds serves all of them.             *)
Step(loop, a, b) ==
  IF loop = "add" THEN AddByte(a, b)
  ELSE IF loop = "ones" THEN OnesAdd(a, b)
  ELSE a * ByteMod + b

(* f is a solution of the recursion in FoldLeft: its value at 1 .. k is    *)
(* the fold of the first k elements.                                       *)
Folds(loop, base, data, f) ==
  f = [S \in SUBSET DOMAIN data |->
         IF S = {} THEN base ELSE Step(loop, f[S \ {Max(S)}], data[Max(S)])]

Folding(loop, base, data) == CHOOSE f : Folds(loop, base, data, f)

Fold(loop, base, data) == Folding(loop, base, data)[DOMAIN data]

(* FoldLeft of the community modules is this fold.                         *)
LEMMA AddIsFold ==
  ASSUME NEW base, NEW data
  PROVE  add(base, data) = Fold("add", base, data)
BY DEF add, FoldLeft, MapThenFoldSet, Fold, Folding, Folds, Step

(* So is the sum that Reference takes, ...                                 *)
LEMMA OnesIsFold ==
  ASSUME NEW base, NEW data
  PROVE  FoldLeft(OnesAdd, base, data) = Fold("ones", base, data)
BY DEF FoldLeft, MapThenFoldSet, Fold, Folding, Folds, Step

(* ... and the value that _parse_int() reads.                              *)
LEMMA FrontIntIsFold ==
  ASSUME NEW len
  PROVE  FrontInt(len) = Fold("digits", 0, SubSeq(str(buffer), 1, len))
BY DEF FrontInt, FoldLeft, MapThenFoldSet, Fold, Folding, Folds, Step

(* The greatest of 1 .. k, or of a set that has k at its upper end.        *)
LEMMA MaxIs ==
  ASSUME NEW k \in Nat, NEW S \in SUBSET (1 .. k), k \in S
  PROVE  Max(S) = k
<1>1. \A y \in S : k >= y OBVIOUS
<1>2. Max(S) \in S /\ \A y \in S : Max(S) >= y BY <1>1 DEF Max
<1>3. Max(S) >= k BY <1>2
<1>4. Max(S) \in 1 .. k BY <1>2
<1> HIDE DEF Max
<1> QED BY <1>3, <1>4

(* f solves the recursion on the subsets of 1 .. k.                        *)
Partial(loop, base, data, k, f) ==
  \A S \in SUBSET (1 .. k) :
    f[S] = IF S = {} THEN base ELSE Step(loop, f[S \ {Max(S)}], data[Max(S)])

(* The recursion has a solution, built one element at a time.              *)
LEMMA FoldExists ==
  ASSUME NEW loop, NEW base, NEW data, NEW n \in Nat, DOMAIN data = 1 .. n
  PROVE  \E f : Folds(loop, base, data, f)
<1> DEFINE T == {k \in Nat : \E f : Partial(loop, base, data, k, f)}
<1>1. 0 \in T
  <2> DEFINE f == [S \in {{}} |-> base]
  <2>1. \A S \in SUBSET (1 .. 0) : S = {} OBVIOUS
  <2>2. f[{}] = base OBVIOUS
  <2>3. Partial(loop, base, data, 0, f) BY <2>1, <2>2 DEF Partial
  <2> QED BY <2>3
<1>2. ASSUME NEW k \in Nat, k \in T PROVE k + 1 \in T
  <2>1. PICK f : Partial(loop, base, data, k, f) BY <1>2
  <2> DEFINE g == [S \in SUBSET (1 .. k + 1) |->
                     IF k + 1 \in S THEN Step(loop, f[S \ {k + 1}], data[k + 1]) ELSE f[S]]
  <2>2. ASSUME NEW S \in SUBSET (1 .. k + 1)
        PROVE  g[S] = IF S = {} THEN base ELSE Step(loop, g[S \ {Max(S)}], data[Max(S)])
    <3>1. CASE k + 1 \in S
      <4>1. Max(S) = k + 1 BY <3>1, MaxIs
      <4>2. S \ {k + 1} \in SUBSET (1 .. k + 1) /\ ~ (k + 1 \in S \ {k + 1}) OBVIOUS
      <4>3. g[S \ {k + 1}] = f[S \ {k + 1}] BY <4>2
      <4>4. g[S] = Step(loop, f[S \ {k + 1}], data[k + 1]) BY <3>1
      <4> HIDE DEF g
      <4> QED BY <3>1, <4>1, <4>3, <4>4
    <3>2. CASE ~ (k + 1 \in S)
      <4>1. S \in SUBSET (1 .. k) BY <3>2
      <4>2. S \ {Max(S)} \in SUBSET (1 .. k + 1) /\ ~ (k + 1 \in S \ {Max(S)}) BY <3>2
      <4>3. g[S \ {Max(S)}] = f[S \ {Max(S)}] BY <4>2
      <4>4. g[S] = f[S] BY <3>2
      <4>5. f[S] = IF S = {} THEN base ELSE Step(loop, f[S \ {Max(S)}], data[Max(S)])
        BY <2>1, <4>1 DEF Partial
      <4> HIDE DEF g
      <4> QED BY <4>3, <4>4, <4>5
    <3> QED BY <3>1, <3>2
  <2>3. Partial(loop, base, data, k + 1, g)
    <3> HIDE DEF g
    <3> QED BY <2>2 DEF Partial
  <2> QED BY <2>3
<1>3. n \in T
  <2> HIDE DEF T
  <2> QED BY <1>1, <1>2, Induction
<1>4. PICK f : Partial(loop, base, data, n, f) BY <1>3
<1> DEFINE h == [S \in SUBSET (1 .. n) |-> f[S]]
<1>5. ASSUME NEW S \in SUBSET (1 .. n)
      PROVE  h[S] = IF S = {} THEN base ELSE Step(loop, h[S \ {Max(S)}], data[Max(S)])
  <2>1. S \ {Max(S)} \in SUBSET (1 .. n) OBVIOUS
  <2>2. h[S] = f[S] /\ h[S \ {Max(S)}] = f[S \ {Max(S)}] BY <2>1
  <2>3. f[S] = IF S = {} THEN base ELSE Step(loop, f[S \ {Max(S)}], data[Max(S)])
    BY <1>4 DEF Partial
  <2> HIDE DEF h
  <2> QED BY <2>2, <2>3
<1>6. h = [S \in SUBSET (1 .. n) |->
             IF S = {} THEN base ELSE Step(loop, h[S \ {Max(S)}], data[Max(S)])]
  <2>1. h = [S \in SUBSET (1 .. n) |-> h[S]] OBVIOUS
  <2> HIDE DEF h
  <2> QED BY <2>1, <1>5
<1> HIDE DEF h
<1> QED BY <1>6 DEF Folds

(* Hence the function that FoldLeft chooses goes through the elements in   *)
(* their order.                                                            *)
LEMMA FoldingSteps ==
  ASSUME NEW loop, NEW base, NEW data, NEW n \in Nat, DOMAIN data = 1 .. n
  PROVE  /\ Folding(loop, base, data)[1 .. 0] = base
         /\ \A k \in 0 .. n - 1 : Folding(loop, base, data)[1 .. k + 1]
              = Step(loop, Folding(loop, base, data)[1 .. k], data[k + 1])
<1> DEFINE F == Folding(loop, base, data)
<1>1. Folds(loop, base, data, F) BY FoldExists DEF Folding
<1> HIDE DEF F
<1>2. \A S \in SUBSET (1 .. n) :
        F[S] = IF S = {} THEN base ELSE Step(loop, F[S \ {Max(S)}], data[Max(S)])
  BY <1>1 DEF Folds
<1>3. F[1 .. 0] = base
  <2>1. 1 .. 0 = {} /\ 1 .. 0 \in SUBSET (1 .. n) OBVIOUS
  <2> QED BY <1>2, <2>1
<1>4. ASSUME NEW k \in 0 .. n - 1 PROVE F[1 .. k + 1] = Step(loop, F[1 .. k], data[k + 1])
  <2>1. 1 .. k + 1 \in SUBSET (1 .. n) /\ 1 .. k + 1 # {}
    <3>1. 1 \in 1 .. k + 1 OBVIOUS
    <3>2. \A i \in 1 .. k + 1 : i \in 1 .. n OBVIOUS
    <3> QED BY <3>1, <3>2
  <2>2. Max(1 .. k + 1) = k + 1
    <3>1. k + 1 \in Nat /\ 1 .. k + 1 \in SUBSET (1 .. k + 1) /\ k + 1 \in 1 .. k + 1 OBVIOUS
    <3> QED BY <3>1, MaxIs
  <2>3. (1 .. k + 1) \ {k + 1} = 1 .. k OBVIOUS
  <2> QED BY <1>2, <2>1, <2>2, <2>3
<1> QED BY <1>3, <1>4 DEF F

(* Folding nothing.                                                        *)
LEMMA FoldEmpty ==
  ASSUME NEW loop, NEW base
  PROVE  Fold(loop, base, <<>>) = base
<1>1. 0 \in Nat /\ DOMAIN <<>> = 1 .. 0 OBVIOUS
<1> QED BY <1>1, FoldingSteps DEF Fold

(* Two strings that begin alike have folded alike so far.                  *)
LEMMA FoldAlike ==
  ASSUME NEW loop, NEW base, NEW d, NEW m \in Nat, DOMAIN d = 1 .. m,
         NEW e, NEW n \in Nat, DOMAIN e = 1 .. n, n <= m, \A i \in 1 .. n : d[i] = e[i]
  PROVE  \A k \in 0 .. n : Folding(loop, base, d)[1 .. k] = Folding(loop, base, e)[1 .. k]
<1> DEFINE F == Folding(loop, base, d)  G == Folding(loop, base, e)
           T == {k \in Nat : k <= n => F[1 .. k] = G[1 .. k]}
<1>1. /\ F[1 .. 0] = base
      /\ \A k \in 0 .. m - 1 : F[1 .. k + 1] = Step(loop, F[1 .. k], d[k + 1])
  BY FoldingSteps
<1>2. /\ G[1 .. 0] = base
      /\ \A k \in 0 .. n - 1 : G[1 .. k + 1] = Step(loop, G[1 .. k], e[k + 1])
  BY FoldingSteps
<1> HIDE DEF F, G
<1>3. 0 \in T BY <1>1, <1>2
<1>4. ASSUME NEW k \in Nat, k \in T PROVE k + 1 \in T
  <2> SUFFICES ASSUME k + 1 <= n PROVE F[1 .. k + 1] = G[1 .. k + 1] OBVIOUS
  <2>1. k \in 0 .. m - 1 /\ k \in 0 .. n - 1 /\ k + 1 \in 1 .. n OBVIOUS
  <2> QED BY <1>1, <1>2, <1>4, <2>1
<1>5. Nat \subseteq T
  <2> HIDE DEF T
  <2> QED BY <1>3, <1>4, Induction
<1> QED BY <1>5 DEF F, G

(* Folding one element more.                                               *)
LEMMA FoldAppend ==
  ASSUME NEW loop, NEW base, NEW S, NEW d \in Seq(S), NEW x \in S
  PROVE  Fold(loop, base, Append(d, x)) = Step(loop, Fold(loop, base, d), x)
<1> DEFINE e == Append(d, x)  n == Len(d)
<1>1. n \in Nat /\ DOMAIN d = 1 .. n /\ DOMAIN e = 1 .. n + 1 /\ n + 1 \in Nat OBVIOUS
<1>2. e[n + 1] = x /\ \A i \in 1 .. n : e[i] = d[i] OBVIOUS
<1> HIDE DEF e, n
<1>3. Folding(loop, base, e)[1 .. n + 1] = Step(loop, Folding(loop, base, e)[1 .. n], e[n + 1])
  <2>1. n \in 0 .. (n + 1) - 1 BY <1>1
  <2> QED BY <1>1, <2>1, FoldingSteps
<1>4. Folding(loop, base, e)[1 .. n] = Folding(loop, base, d)[1 .. n]
  <2>1. n <= n + 1 /\ n \in 0 .. n BY <1>1
  <2> QED BY <1>1, <1>2, <2>1, FoldAlike
<1> QED BY <1>1, <1>2, <1>3, <1>4 DEF Fold, e

(* Folding a prefix that is one element longer.                            *)
LEMMA FoldPrefix ==
  ASSUME NEW loop, NEW base, NEW S, NEW d \in Seq(S), NEW k \in 0 .. Len(d) - 1
  PROVE  Fold(loop, base, SubSeq(d, 1, k + 1)) = Step(loop, Fold(loop, base, SubSeq(d, 1, k)), d[k + 1])
<1>1. SubSeq(d, 1, k) \in Seq(S) /\ d[k + 1] \in S OBVIOUS
<1>2. SubSeq(d, 1, k + 1) = Append(SubSeq(d, 1, k), d[k + 1]) OBVIOUS
<1> DEFINE p == SubSeq(d, 1, k)  x == d[k + 1]
<1> HIDE DEF p, x
<1>3. Fold(loop, base, Append(p, x)) = Step(loop, Fold(loop, base, p), x)
  <2>1. p \in Seq(S) /\ x \in S BY <1>1 DEF p, x
  <2> QED BY <2>1, FoldAppend
<1> QED BY <1>2, <1>3 DEF p, x

(* Folding two pieces one after the other.                                 *)
LEMMA FoldConcat ==
  ASSUME NEW loop, NEW base, NEW S, NEW a \in Seq(S), NEW b \in Seq(S)
  PROVE  Fold(loop, base, a \o b) = Fold(loop, Fold(loop, base, a), b)
<1> DEFINE T == {k \in Nat : k <= Len(b) =>
                   Fold(loop, base, a \o SubSeq(b, 1, k))
                     = Fold(loop, Fold(loop, base, a), SubSeq(b, 1, k))}
<1>1. 0 \in T
  <2>1. SubSeq(b, 1, 0) = <<>> /\ a \o <<>> = a OBVIOUS
  <2> QED BY <2>1, FoldEmpty
<1>2. ASSUME NEW k \in Nat, k \in T PROVE k + 1 \in T
  <2> SUFFICES ASSUME k + 1 <= Len(b)
               PROVE  Fold(loop, base, a \o SubSeq(b, 1, k + 1))
                        = Fold(loop, Fold(loop, base, a), SubSeq(b, 1, k + 1))
    OBVIOUS
  <2> DEFINE p == SubSeq(b, 1, k)
  <2>1. p \in Seq(S) /\ b[k + 1] \in S OBVIOUS
  <2>2. SubSeq(b, 1, k + 1) = Append(p, b[k + 1]) OBVIOUS
  <2>3. Fold(loop, base, a \o p) = Fold(loop, Fold(loop, base, a), p) BY <1>2
  <2> HIDE DEF p
  <2>4. a \o Append(p, b[k + 1]) = Append(a \o p, b[k + 1]) /\ a \o p \in Seq(S) BY <2>1
  <2>5. Fold(loop, base, Append(a \o p, b[k + 1])) = Step(loop, Fold(loop, base, a \o p), b[k + 1])
    <3> DEFINE q == a \o p
    <3>1. q \in Seq(S) BY <2>4
    <3> HIDE DEF q
    <3>2. Fold(loop, base, Append(q, b[k + 1])) = Step(loop, Fold(loop, base, q), b[k + 1])
      BY <2>1, <3>1, FoldAppend
    <3> QED BY <3>2 DEF q
  <2>6. Fold(loop, Fold(loop, base, a), Append(p, b[k + 1]))
          = Step(loop, Fold(loop, Fold(loop, base, a), p), b[k + 1])
    BY <2>1, FoldAppend
  <2> QED BY <2>2, <2>3, <2>4, <2>5, <2>6
<1>3. Nat \subseteq T
  <2> HIDE DEF T
  <2> QED BY <1>1, <1>2, Induction
<1>4. Len(b) \in Nat /\ SubSeq(b, 1, Len(b)) = b BY SubSeqFull
<1>5. Fold(loop, base, a \o SubSeq(b, 1, Len(b)))
        = Fold(loop, Fold(loop, base, a), SubSeq(b, 1, Len(b)))
  <2>1. Len(b) \in T BY <1>3, <1>4
  <2>2. Len(b) <= Len(b) BY <1>4
  <2> QED BY <2>1, <2>2
<1> QED BY <1>4, <1>5
-----------------------------------------------------------------------------
(* Division with remainder is unique.                                      *)
LEMMA SmallMultiple ==
  ASSUME NEW m \in Nat, NEW k \in Int, 0 - m < m * k, m * k < m
  PROVE  k = 0
<1>1. CASE k >= 1
  <2>1. m * k >= m BY <1>1
  <2> QED BY <2>1
<1>2. CASE k <= 0 - 1
  <2>1. m * (0 - k) >= m BY <1>2
  <2>2. m * (0 - k) = 0 - (m * k) OBVIOUS
  <2> QED BY <2>1, <2>2
<1> QED BY <1>1, <1>2

(* What the quotient and the remainder are.                                *)
LEMMA DivMod ==
  ASSUME NEW m \in Nat, m > 0, NEW a \in Int
  PROVE  /\ a \div m \in Int /\ a % m \in 0 .. m - 1
         /\ m * (a \div m) \in Int /\ a = (m * (a \div m)) + (a % m)
OBVIOUS

(* A number written as m * q + t has the quotient q and the remainder t.   *)
LEMMA DivModUnique ==
  ASSUME NEW m \in Nat, m > 0, NEW q \in Int, NEW t \in 0 .. m - 1
  PROVE  ((m * q) + t) \div m = q /\ ((m * q) + t) % m = t
<1> DEFINE a == (m * q) + t  p == a \div m  u == a % m
<1>1. m * q \in Int /\ a \in Int OBVIOUS
<1>2. p \in Int /\ u \in 0 .. m - 1 /\ m * p \in Int /\ a = (m * p) + u
  <2> HIDE DEF a
  <2> QED BY <1>1, DivMod
<1>3. m * (p - q) = (m * p) - (m * q)
  <2> HIDE DEF p
  <2> QED BY <1>2
<1>4. a = (m * q) + t OBVIOUS
<1> HIDE DEF a, p, u
<1>5. 0 - m < m * (p - q) /\ m * (p - q) < m BY <1>1, <1>2, <1>3, <1>4
<1>6. p - q = 0 BY <1>2, <1>5, SmallMultiple
<1>7. p = q BY <1>2, <1>6
<1>8. u = t BY <1>1, <1>2, <1>4, <1>7
<1> QED BY <1>7, <1>8 DEF a, p, u

(* Adding a multiple of m does not change the remainder.                   *)
LEMMA ModShift ==
  ASSUME NEW m \in Nat, m > 0, NEW a \in Int, NEW k \in Int
  PROVE  (a + (m * k)) % m = a % m
<1> DEFINE q == a \div m  t == a % m
<1>1. q \in Int /\ t \in 0 .. m - 1 /\ m * q \in Int /\ a = (m * q) + t BY DivMod
<1> HIDE DEF q, t
<1>2. q + k \in Int /\ m * (q + k) = (m * q) + (m * k) /\ m * k \in Int BY <1>1
<1>3. a + (m * k) = (m * (q + k)) + t BY <1>1, <1>2
<1>4. ((m * (q + k)) + t) % m = t BY <1>1, <1>2, DivModUnique
<1> QED BY <1>3, <1>4 DEF t
-----------------------------------------------------------------------------
(* Sizes.                                                                  *)
Byte == 0 .. ByteMod - 1

(* What the provers need to know of the sizes.                             *)
LEMMA WordFacts ==
  /\ ByteMod \in Nat /\ ByteMod >= 2
  /\ WordMod \in Nat /\ WordMod >= 4 /\ WordMod >= 2 * ByteMod /\ WordMod = ByteMod * ByteMod
  /\ SumMod \in Nat /\ SumMod = WordMod * WordMod
<1>1. ByteMod \in Nat /\ ByteMod >= 2 BY OctetsAssumption
<1>2. ByteMod * ByteMod \in Nat /\ ByteMod * ByteMod >= 2 * ByteMod BY <1>1
<1>3. WordMod \in Nat /\ WordMod >= 4 /\ WordMod >= 2 * ByteMod BY <1>1, <1>2 DEF WordMod
<1>4. WordMod * WordMod \in Nat BY <1>3
<1> QED BY <1>1, <1>3, <1>4, ChecksumAssumption DEF WordMod

(* A byte in the high half of a word.                                      *)
LEMMA HighByte ==
  ASSUME NEW x \in Byte
  PROVE  x * ByteMod \in 0 .. WordMod - ByteMod
<1>1. ByteMod \in Nat /\ x \in Nat /\ x <= ByteMod - 1 BY WordFacts DEF Byte
<1>2. \A b, y \in Nat : y <= b - 1 => y * b <= (b * b) - b /\ y * b >= 0
  <2> SUFFICES ASSUME NEW b \in Nat, NEW y \in Nat, y <= b - 1
               PROVE  y * b <= (b * b) - b /\ y * b >= 0
    OBVIOUS
  <2>1. (b - 1 - y) * b >= 0 /\ y * b >= 0 OBVIOUS
  <2>2. (b - 1 - y) * b = (b * b) - b - (y * b) OBVIOUS
  <2>3. b * b \in Int /\ y * b \in Int OBVIOUS
  <2> QED BY <2>1, <2>2, <2>3
<1>3. x * ByteMod <= (ByteMod * ByteMod) - ByteMod /\ x * ByteMod >= 0 BY <1>1, <1>2
<1>4. x * ByteMod \in Int BY <1>1
<1> QED BY <1>3, <1>4, WordFacts
-----------------------------------------------------------------------------
(* The loop of value() computes a residue: of the numbers that differ from *)
(* the sum by a multiple of WordMod - 1 it is the one in 1 .. WordMod - 1, *)
(* and 0 for 0.                                                            *)
Residue(r) == IF r = 0 THEN 0 ELSE ((r - 1) % (WordMod - 1)) + 1

(* Numbers that differ by a multiple of WordMod - 1.                       *)
Alike(a, b) == \E k \in Int : a = b + ((WordMod - 1) * k)

(* What one round of the loop does to the number.                          *)
LEMMA RoundIs ==
  ASSUME NEW r \in Nat, r >= WordMod
  PROVE  /\ (r \div WordMod) + (r % WordMod) \in 1 .. r - 1
         /\ \E q \in Int : r = ((r \div WordMod) + (r % WordMod)) + ((WordMod - 1) * q)
<1> DEFINE q == r \div WordMod  t == r % WordMod
<1>1. WordMod \in Nat /\ WordMod >= 4 BY WordFacts
<1>2. q \in Int /\ t \in 0 .. WordMod - 1 /\ WordMod * q \in Int /\ r = (WordMod * q) + t
  BY <1>1, DivMod
<1> HIDE DEF q, t
<1>3. q >= 1
  <2> SUFFICES ASSUME q <= 0 PROVE FALSE BY <1>2
  <2>1. WordMod * (0 - q) >= 0 BY <1>1, <1>2
  <2>2. WordMod * (0 - q) = 0 - (WordMod * q) BY <1>1, <1>2
  <2> QED BY <1>1, <1>2, <2>1, <2>2
<1>4. (WordMod - 1) * q = (WordMod * q) - q BY <1>1, <1>2
<1>5. (WordMod - 1) * q >= 1 BY <1>1, <1>2, <1>3
<1>6. r = (q + t) + ((WordMod - 1) * q) BY <1>2, <1>4
<1>7. q + t \in 1 .. r - 1 BY <1>2, <1>3, <1>4, <1>5, <1>6
<1> QED BY <1>2, <1>6, <1>7 DEF q, t

(* A round of the loop does not change the residue, ...                    *)
LEMMA ResidueRound ==
  ASSUME NEW r \in Nat, r >= WordMod
  PROVE  Residue(r) = Residue((r \div WordMod) + (r % WordMod))
<1> DEFINE y == (r \div WordMod) + (r % WordMod)
<1>1. y \in 1 .. r - 1 /\ \E q \in Int : r = y + ((WordMod - 1) * q) BY RoundIs
<1> HIDE DEF y
<1>2. PICK q \in Int : r = y + ((WordMod - 1) * q) BY <1>1
<1>3. WordMod - 1 \in Nat /\ WordMod - 1 > 0 BY WordFacts
<1>4. (WordMod - 1) * q \in Int BY <1>3
<1>5. r - 1 = (y - 1) + ((WordMod - 1) * q) /\ y - 1 \in Int BY <1>1, <1>2, <1>4
<1>6. ((y - 1) + ((WordMod - 1) * q)) % (WordMod - 1) = (y - 1) % (WordMod - 1)
  BY <1>3, <1>5, ModShift
<1>7. r # 0 /\ y # 0 BY <1>1, WordFacts
<1>8. Residue(r) = Residue(y) BY <1>5, <1>6, <1>7 DEF Residue
<1> QED BY <1>8 DEF y

(* ... and a number that fits is its own residue, ...                      *)
LEMMA ResidueSmall ==
  ASSUME NEW r \in Nat, r < WordMod
  PROVE  Residue(r) = r
<1> SUFFICES ASSUME r # 0 PROVE Residue(r) = r BY DEF Residue
<1>1. WordMod - 1 \in Nat /\ WordMod - 1 > 0 /\ r - 1 \in 0 .. (WordMod - 1) - 1 BY WordFacts
<1>2. (((WordMod - 1) * 0) + (r - 1)) % (WordMod - 1) = r - 1 BY <1>1, DivModUnique
<1>3. ((WordMod - 1) * 0) + (r - 1) = r - 1 BY <1>1
<1> QED BY <1>1, <1>2, <1>3 DEF Residue

(* One round, as the recursion of Folded has it.                           *)
Rounds(f) ==
  f = [r \in 0 .. SumMod - 1 |->
         IF r < WordMod THEN r ELSE f[(r \div WordMod) + (r % WordMod)]]

(* ... so that the recursion of Folded has a solution.                     *)
LEMMA FoldedRounds == Rounds(Folded)
<1> DEFINE f == [r \in 0 .. SumMod - 1 |-> Residue(r)]
<1>1. ASSUME NEW r \in 0 .. SumMod - 1
      PROVE  f[r] = IF r < WordMod THEN r ELSE f[(r \div WordMod) + (r % WordMod)]
  <2>1. r \in Nat /\ SumMod \in Nat BY WordFacts
  <2>2. f[r] = Residue(r) OBVIOUS
  <2>3. CASE r < WordMod BY <2>1, <2>2, <2>3, ResidueSmall
  <2>4. CASE ~ (r < WordMod)
    <3>1. r >= WordMod BY <2>1, <2>4, WordFacts
    <3> DEFINE y == (r \div WordMod) + (r % WordMod)
    <3>2. y \in 1 .. r - 1 BY <2>1, <3>1, RoundIs
    <3>3. Residue(r) = Residue(y) BY <2>1, <3>1, ResidueRound
    <3> HIDE DEF y
    <3>4. y \in 0 .. SumMod - 1 BY <2>1, <3>2
    <3>5. f[y] = Residue(y) BY <3>4
    <3>6. f[r] = f[y] BY <2>2, <3>3, <3>5
    <3> QED BY <2>4, <3>6 DEF y
  <2> QED BY <2>3, <2>4
<1>2. f = [r \in 0 .. SumMod - 1 |-> f[r]] OBVIOUS
<1> HIDE DEF f
<1>3. Rounds(f) BY <1>1, <1>2 DEF Rounds
<1>4. Folded = CHOOSE g : Rounds(g) BY DEF Folded, Rounds
<1> QED BY <1>3, <1>4

(* What the loop of value() computes.                                      *)
LEMMA FoldedIsResidue ==
  ASSUME NEW r \in 0 .. SumMod - 1
  PROVE  Folded[r] = Residue(r)
<1> DEFINE T == {k \in Nat : \A x \in 0 .. SumMod - 1 : x <= k => Folded[x] = Residue(x)}
<1>0. SumMod \in Nat /\ WordMod \in Nat /\ WordMod >= 4 BY WordFacts
<1>1. \A x \in 0 .. SumMod - 1 :
        Folded[x] = IF x < WordMod THEN x ELSE Folded[(x \div WordMod) + (x % WordMod)]
  BY FoldedRounds DEF Rounds
<1>2. ASSUME NEW x \in 0 .. SumMod - 1, x < WordMod PROVE Folded[x] = Residue(x)
  <2>1. x \in Nat BY <1>0
  <2> QED BY <1>1, <1>2, <2>1, ResidueSmall
<1>3. 0 \in T BY <1>0, <1>2
<1>4. ASSUME NEW k \in Nat, k \in T PROVE k + 1 \in T
  <2> SUFFICES ASSUME NEW x \in 0 .. SumMod - 1, x <= k + 1 PROVE Folded[x] = Residue(x)
    OBVIOUS
  <2>1. CASE x < WordMod BY <2>1, <1>2
  <2>2. CASE ~ (x < WordMod)
    <3>1. x \in Nat /\ x >= WordMod BY <1>0, <2>2
    <3> DEFINE y == (x \div WordMod) + (x % WordMod)
    <3>2. y \in 1 .. x - 1 BY <3>1, RoundIs
    <3>3. Residue(x) = Residue(y) BY <3>1, ResidueRound
    <3>4. Folded[x] = Folded[y] BY <1>1, <2>2
    <3> HIDE DEF y
    <3>5. y \in 0 .. SumMod - 1 /\ y <= k BY <1>0, <3>1, <3>2
    <3>6. Folded[y] = Residue(y) BY <1>4, <3>5
    <3> QED BY <3>3, <3>4, <3>6
  <2> QED BY <2>1, <2>2
<1>5. Nat \subseteq T
  <2> HIDE DEF T
  <2> QED BY <1>3, <1>4, Induction
<1>6. r \in Nat /\ r <= r BY <1>0
<1> QED BY <1>5, <1>6

(* The residue is in range, 0 only for 0, and congruent to the sum.        *)
LEMMA FoldedIs ==
  ASSUME NEW r \in 0 .. SumMod - 1
  PROVE  /\ Folded[r] \in 0 .. WordMod - 1
         /\ Folded[r] = 0 <=> r = 0
         /\ Alike(r, Folded[r])
<1>0. r \in Nat /\ WordMod - 1 \in Nat /\ WordMod - 1 > 0 /\ r - 1 \in Int BY WordFacts
<1>1. Folded[r] = Residue(r) BY FoldedIsResidue
<1>2. CASE r = 0
  <2>1. (WordMod - 1) * 0 = 0 /\ 0 \in Int BY <1>0
  <2> QED BY <1>0, <1>1, <1>2, <2>1 DEF Residue, Alike
<1>3. CASE r # 0
  <2> DEFINE t == (r - 1) % (WordMod - 1)  q == (r - 1) \div (WordMod - 1)
  <2>1. /\ q \in Int /\ t \in 0 .. (WordMod - 1) - 1 /\ (WordMod - 1) * q \in Int
        /\ r - 1 = ((WordMod - 1) * q) + t
    BY <1>0, DivMod
  <2>2. Folded[r] = t + 1 BY <1>1, <1>3 DEF Residue
  <2> HIDE DEF t, q
  <2>3. r = Folded[r] + ((WordMod - 1) * q)
    <3> DEFINE p == (WordMod - 1) * q
    <3>1. p \in Int /\ r - 1 = p + t BY <2>1
    <3> HIDE DEF p
    <3>2. r = (t + 1) + p BY <1>0, <2>1, <3>1
    <3> QED BY <2>2, <3>2 DEF p
  <2>4. Folded[r] \in 0 .. WordMod - 1 /\ Folded[r] # 0 BY <1>0, <2>1, <2>2
  <2> QED BY <1>3, <2>1, <2>3, <2>4 DEF Alike
<1> QED BY <1>2, <1>3

(* And there is only one such number.                                      *)
LEMMA FoldedUnique ==
  ASSUME NEW r \in 0 .. SumMod - 1, NEW v \in 0 .. WordMod - 1, v = 0 <=> r = 0, Alike(r, v)
  PROVE  Folded[r] = v
<1>0. WordMod - 1 \in Nat BY WordFacts
<1>1. Folded[r] \in 0 .. WordMod - 1 /\ (Folded[r] = 0 <=> r = 0) /\ Alike(r, Folded[r])
  BY FoldedIs
<1> DEFINE w == Folded[r]
<1> HIDE DEF w
<1>2. CASE r = 0 BY <1>1, <1>2
<1>3. CASE r # 0
  <2>1. v \in 1 .. WordMod - 1 /\ w \in 1 .. WordMod - 1 BY <1>1, <1>3 DEF w
  <2>2. PICK k \in Int : r = v + ((WordMod - 1) * k) BY DEF Alike
  <2>3. PICK l \in Int : r = w + ((WordMod - 1) * l) BY <1>1 DEF Alike, w
  <2>4. (WordMod - 1) * (k - l) = ((WordMod - 1) * k) - ((WordMod - 1) * l)
        /\ (WordMod - 1) * k \in Int /\ (WordMod - 1) * l \in Int
    BY <1>0
  <2>5. 0 - (WordMod - 1) < (WordMod - 1) * (k - l) /\ (WordMod - 1) * (k - l) < WordMod - 1
    BY <1>0, <2>1, <2>2, <2>3, <2>4
  <2>6. k - l = 0 BY <1>0, <2>5, SmallMultiple
  <2>7. k = l BY <2>6
  <2> QED BY <2>1, <2>2, <2>3, <2>4, <2>7 DEF w
<1> QED BY <1>2, <1>3

(* Adding before the carries are folded in or after makes no difference.   *)
LEMMA FoldedAdd ==
  ASSUME NEW a \in Nat, NEW b \in 0 .. WordMod - 1, a + b \in 0 .. SumMod - 1
  PROVE  Folded[a + b] = OnesAdd(Folded[a], b)
<1>0. WordMod \in Nat /\ WordMod - 1 \in Nat /\ WordMod > 1 /\ SumMod \in Nat /\ b \in Nat
  BY WordFacts
<1>1. a \in 0 .. SumMod - 1 BY <1>0
<1> DEFINE v == Folded[a]  u == OnesAdd(v, b)
<1>2. v \in 0 .. WordMod - 1 /\ (v = 0 <=> a = 0) /\ Alike(a, v) BY <1>1, FoldedIs
<1> HIDE DEF v
<1>3. PICK k \in Int : a = v + ((WordMod - 1) * k) BY <1>2 DEF Alike
<1>4. /\ (WordMod - 1) * k \in Int
      /\ (WordMod - 1) * (k + 1) = ((WordMod - 1) * k) + (WordMod - 1)
      /\ k + 1 \in Int
  BY <1>0
<1>5. u \in 0 .. WordMod - 1 /\ (u = 0 <=> a + b = 0) /\ Alike(a + b, u)
  <2>1. CASE v + b < WordMod
    <3>1. u = v + b BY <2>1 DEF OnesAdd
    <3>2. a + b = u + ((WordMod - 1) * k) BY <1>0, <1>2, <1>3, <1>4, <3>1
    <3>3. u \in 0 .. WordMod - 1 /\ (u = 0 <=> a + b = 0) BY <1>0, <1>2, <2>1, <3>1
    <3> QED BY <3>2, <3>3 DEF Alike
  <2>2. CASE ~ (v + b < WordMod)
    <3>1. u = v + b - (WordMod - 1) BY <2>2 DEF OnesAdd
    <3>2. a + b = u + ((WordMod - 1) * (k + 1)) BY <1>0, <1>2, <1>3, <1>4, <3>1
    <3>3. u \in 0 .. WordMod - 1 /\ u # 0 /\ a + b # 0 BY <1>0, <1>2, <2>2, <3>1
    <3> QED BY <1>4, <3>2, <3>3 DEF Alike
  <2> QED BY <2>1, <2>2
<1> HIDE DEF u
<1>6. Folded[a + b] = u BY <1>5, FoldedUnique
<1> QED BY <1>6 DEF u, v
-----------------------------------------------------------------------------
(* The sum of a checksum that has added k bytes is the true one: as long   *)
(* as SumFits it cannot reach SumMod.                                      *)
Checksum == [sum : Nat, parity : BOOLEAN]

Bound(init, k, x) ==
  \E m \in Nat :
    \/ k = 2 * m /\ ~ x.parity /\ x.sum <= init + (WordMod - 1) * m
    \/ k = 2 * m + 1 /\ x.parity /\ x.sum <= init + ((WordMod - 1) * m) + (WordMod - ByteMod)

(* The number that AddByte adds.                                           *)
Weighed(x, byte) == IF x.parity THEN byte ELSE byte * ByteMod

(* A shorter string leaves more room.                                      *)
LEMMA FitsShorter ==
  ASSUME NEW init \in Nat, NEW n \in Nat, SumFits(init, n), NEW k \in 0 .. n
  PROVE  SumFits(init, k)
<1> DEFINE a == (k + 1) \div 2  b == (n + 1) \div 2
<1>0. WordMod \in Nat /\ WordMod >= 4 /\ SumMod \in Nat BY WordFacts
<1>1. a \in Nat /\ b \in Nat /\ a <= b OBVIOUS
<1>2. init + (WordMod - 1) * b < SumMod BY DEF SumFits
<1> HIDE DEF a, b
<1>3. (WordMod - 1) * (b - a) >= 0 BY <1>0, <1>1
<1>4. (WordMod - 1) * (b - a) = ((WordMod - 1) * b) - ((WordMod - 1) * a)
      /\ (WordMod - 1) * b \in Int /\ (WordMod - 1) * a \in Int
  BY <1>0, <1>1
<1>5. init + (WordMod - 1) * a < SumMod BY <1>0, <1>2, <1>3, <1>4
<1> QED BY <1>5 DEF SumFits, a

(* The bound on the sum keeps it below SumMod.                             *)
LEMMA BoundFits ==
  ASSUME NEW init \in Nat, NEW k \in Nat, SumFits(init, k), NEW x \in Checksum, Bound(init, k, x)
  PROVE  x.sum \in 0 .. SumMod - 1
<1>0. WordMod \in Nat /\ WordMod >= 4 /\ ByteMod \in Nat /\ ByteMod >= 2 /\ SumMod \in Nat
  BY WordFacts
<1>1. x.sum \in Nat BY DEF Checksum
<1>2. PICK m \in Nat :
        \/ k = 2 * m /\ ~ x.parity /\ x.sum <= init + (WordMod - 1) * m
        \/ k = 2 * m + 1 /\ x.parity /\ x.sum <= init + ((WordMod - 1) * m) + (WordMod - ByteMod)
  BY DEF Bound
<1> DEFINE p == (WordMod - 1) * m
<1>3. p \in Int /\ (WordMod - 1) * (m + 1) = p + (WordMod - 1) BY <1>0
<1>4. CASE k = 2 * m /\ x.sum <= init + p
  <2>1. (k + 1) \div 2 = m BY <1>4
  <2>2. init + p < SumMod BY <2>1 DEF SumFits
  <2> HIDE DEF p
  <2> QED BY <1>0, <1>1, <1>3, <1>4, <2>2
<1>5. CASE k = 2 * m + 1 /\ x.sum <= init + p + (WordMod - ByteMod)
  <2>1. (k + 1) \div 2 = m + 1 BY <1>5
  <2>2. init + (WordMod - 1) * (m + 1) < SumMod BY <2>1 DEF SumFits
  <2>3. init + (p + (WordMod - 1)) < SumMod BY <1>3, <2>2
  <2> HIDE DEF p
  <2> QED BY <1>0, <1>1, <1>3, <1>5, <2>3
<1> QED BY <1>2, <1>4, <1>5

(* What is added fits in its half of a word.                               *)
LEMMA WeighedIs ==
  ASSUME NEW x \in Checksum, NEW byte \in Byte
  PROVE  /\ Weighed(x, byte) \in 0 .. WordMod - ByteMod
         /\ x.parity => Weighed(x, byte) \in 0 .. ByteMod - 1
<1>1. CASE x.parity BY <1>1, WordFacts DEF Weighed, Byte
<1>2. CASE ~ x.parity BY <1>2, HighByte DEF Weighed
<1> QED BY <1>1, <1>2

(* One byte more, and no wrap.                                             *)
LEMMA SumStep ==
  ASSUME NEW init \in Nat, NEW k \in Nat, SumFits(init, k + 1), NEW x \in Checksum, Bound(init, k, x),
         NEW byte \in Byte
  PROVE  /\ AddByte(x, byte) \in Checksum /\ Bound(init, k + 1, AddByte(x, byte))
         /\ AddByte(x, byte).sum = x.sum + Weighed(x, byte)
         /\ AddByte(x, byte).parity = ~ x.parity
<1> DEFINE v == Weighed(x, byte)  y == [sum |-> x.sum + v, parity |-> ~ x.parity]
<1>0. WordMod \in Nat /\ WordMod >= 4 /\ ByteMod \in Nat /\ ByteMod >= 2 /\ WordMod >= 2 * ByteMod
      /\ SumMod \in Nat
  BY WordFacts
<1>1. v \in 0 .. WordMod - ByteMod /\ (x.parity => v \in 0 .. ByteMod - 1) BY WeighedIs
<1>2. x.sum \in Nat /\ x.parity \in BOOLEAN BY DEF Checksum
<1>3. AddByte(x, byte) = [sum |-> (x.sum + v) % SumMod, parity |-> ~ x.parity]
  BY DEF AddByte, Weighed
<1> HIDE DEF v
<1>4. v \in Nat BY <1>0, <1>1
<1>5. y \in Checksum /\ y.sum = x.sum + v /\ y.parity = ~ x.parity
  <2>1. x.sum + v \in Nat BY <1>2, <1>4
  <2>2. (~ x.parity) \in BOOLEAN OBVIOUS
  <2> QED BY <2>1, <2>2 DEF Checksum
<1>6. Bound(init, k + 1, y)
  <2>1. PICK m \in Nat :
          \/ k = 2 * m /\ ~ x.parity /\ x.sum <= init + (WordMod - 1) * m
          \/ k = 2 * m + 1 /\ x.parity /\ x.sum <= init + ((WordMod - 1) * m) + (WordMod - ByteMod)
    BY DEF Bound
  <2> DEFINE p == (WordMod - 1) * m
  <2>2. p \in Int /\ (WordMod - 1) * (m + 1) = p + (WordMod - 1) BY <1>0
  <2>3. CASE k = 2 * m /\ ~ x.parity /\ x.sum <= init + p
    <3>1. k + 1 = 2 * m + 1 BY <2>3
    <3>2. y.parity BY <1>5, <2>3
    <3>3. y.sum <= init + p + (WordMod - ByteMod)
      <4> HIDE DEF p, y
      <4> QED BY <1>0, <1>1, <1>2, <1>5, <2>2, <2>3
    <3> HIDE DEF y
    <3> QED BY <3>1, <3>2, <3>3 DEF Bound
  <2>4. CASE k = 2 * m + 1 /\ x.parity /\ x.sum <= init + p + (WordMod - ByteMod)
    <3>1. k + 1 = 2 * (m + 1) /\ m + 1 \in Nat BY <2>4
    <3>2. ~ y.parity BY <1>5, <2>4
    <3>3. y.sum <= init + (WordMod - 1) * (m + 1)
      <4>1. v \in 0 .. ByteMod - 1 BY <1>1, <2>4
      <4> DEFINE q == (WordMod - 1) * (m + 1)
      <4> HIDE DEF p, y, q
      <4>2. q = p + (WordMod - 1) BY <2>2 DEF q
      <4>3. y.sum <= init + q BY <1>0, <1>2, <1>5, <2>2, <2>4, <4>1, <4>2
      <4> QED BY <4>3 DEF q
    <3> HIDE DEF y
    <3> QED BY <3>1, <3>2, <3>3 DEF Bound
  <2> QED BY <2>1, <2>3, <2>4
<1>7. y.sum \in 0 .. SumMod - 1
  <2> HIDE DEF y
  <2>1. k + 1 \in Nat OBVIOUS
  <2> QED BY <1>5, <1>6, <2>1, BoundFits
<1>8. (x.sum + v) % SumMod = x.sum + v
  <2> DEFINE t == x.sum + v
  <2>1. t \in 0 .. SumMod - 1 BY <1>5, <1>7
  <2> HIDE DEF t
  <2>2. SumMod > 0 /\ (SumMod * 0) + t = t BY <1>0, <2>1
  <2>3. ((SumMod * 0) + t) % SumMod = t BY <1>0, <2>1, <2>2, DivModUnique
  <2> QED BY <2>2, <2>3 DEF t
<1>9. AddByte(x, byte) = y BY <1>3, <1>8
<1> QED BY <1>5, <1>6, <1>9 DEF v

(* A checksum that has added the first k bytes of d.                       *)
SumOf(init, d, k) == Fold("add", NewChecksum(init), SubSeq(d, 1, k))

(* Nothing added yet.                                                      *)
LEMMA SumStart ==
  ASSUME NEW init, NEW d \in Seq(Byte)
  PROVE  SumOf(init, d, 0) = NewChecksum(init)
<1>1. SubSeq(d, 1, 0) = <<>> OBVIOUS
<1> QED BY <1>1, FoldEmpty DEF SumOf

(* add() goes byte by byte.                                                *)
LEMMA SumAdds ==
  ASSUME NEW init, NEW d \in Seq(Byte), NEW k \in 0 .. Len(d) - 1
  PROVE  SumOf(init, d, k + 1) = AddByte(SumOf(init, d, k), d[k + 1])
BY FoldPrefix DEF SumOf, Step

(* Whatever was added, the sum is one of its 32-bit type.                  *)
LEMMA SumRange ==
  ASSUME NEW init \in 0 .. SumMod - 1, NEW d \in Seq(Byte)
  PROVE  \A k \in 0 .. Len(d) : SumOf(init, d, k).sum \in 0 .. SumMod - 1
<1> DEFINE T == {k \in Nat : k <= Len(d) => SumOf(init, d, k).sum \in 0 .. SumMod - 1
                                              /\ SumOf(init, d, k).parity \in BOOLEAN}
<1>0. SumMod \in Nat /\ SumMod > 0 /\ Len(d) \in Nat
  <2>1. SumMod \in Nat BY WordFacts
  <2>2. init \in Int /\ init >= 0 /\ init <= SumMod - 1 BY <2>1
  <2> QED BY <2>1, <2>2
<1>1. 0 \in T
  <2>1. SumOf(init, d, 0) = [sum |-> init, parity |-> FALSE] BY SumStart DEF NewChecksum
  <2>2. SumOf(init, d, 0).sum = init /\ SumOf(init, d, 0).parity = FALSE BY <2>1
  <2> QED BY <2>2
<1>2. ASSUME NEW k \in Nat, k \in T PROVE k + 1 \in T
  <2> SUFFICES ASSUME k + 1 <= Len(d)
               PROVE  SumOf(init, d, k + 1).sum \in 0 .. SumMod - 1
                        /\ SumOf(init, d, k + 1).parity \in BOOLEAN
    OBVIOUS
  <2> DEFINE x == SumOf(init, d, k)  v == Weighed(x, d[k + 1])
  <2>1. k \in 0 .. Len(d) - 1 /\ d[k + 1] \in Byte /\ k <= Len(d) BY <1>0
  <2>2. SumOf(init, d, k + 1) = AddByte(x, d[k + 1]) BY <2>1, SumAdds
  <2>3. x.sum \in 0 .. SumMod - 1 /\ x.parity \in BOOLEAN BY <1>2, <2>1
  <2> HIDE DEF x
  <2>4. AddByte(x, d[k + 1]) = [sum |-> (x.sum + v) % SumMod, parity |-> ~ x.parity]
    BY DEF AddByte, Weighed
  <2>5. v \in Int
    <3>1. d[k + 1] \in Int /\ ByteMod \in Int BY <2>1, WordFacts DEF Byte
    <3>2. d[k + 1] * ByteMod \in Int BY <3>1
    <3> QED BY <3>1, <3>2 DEF Weighed
  <2> HIDE DEF v
  <2>6. x.sum + v \in Int BY <1>0, <2>3, <2>5
  <2>7. (x.sum + v) % SumMod \in 0 .. SumMod - 1 BY <1>0, <2>6, DivMod
  <2>8. AddByte(x, d[k + 1]).sum = (x.sum + v) % SumMod /\ AddByte(x, d[k + 1]).parity = ~ x.parity
    BY <2>4
  <2> QED BY <2>2, <2>7, <2>8
<1>3. Nat \subseteq T
  <2> HIDE DEF T
  <2> QED BY <1>1, <1>2, Induction
<1> QED BY <1>3

(* The bound holds for every prefix of a segment.                          *)
LEMMA SumType ==
  ASSUME NEW init \in Nat, NEW d \in Seq(Byte), SumFits(init, Len(d))
  PROVE  \A k \in 0 .. Len(d) : SumOf(init, d, k) \in Checksum /\ Bound(init, k, SumOf(init, d, k))
<1> DEFINE T == {k \in Nat : k <= Len(d) =>
                   SumOf(init, d, k) \in Checksum /\ Bound(init, k, SumOf(init, d, k))}
<1>0. WordMod \in Nat /\ Len(d) \in Nat BY WordFacts
<1>1. 0 \in T
  <2> DEFINE x == NewChecksum(init)
  <2>1. x = [sum |-> init, parity |-> FALSE] BY DEF NewChecksum
  <2>2. FALSE \in BOOLEAN OBVIOUS
  <2>3. x \in Checksum BY <2>1, <2>2 DEF Checksum
  <2>4. x.sum <= init + (WordMod - 1) * 0 /\ ~ x.parity BY <1>0, <2>1
  <2>5. 0 = 2 * 0 OBVIOUS
  <2> HIDE DEF x
  <2>6. Bound(init, 0, x) BY <2>4, <2>5 DEF Bound
  <2> QED BY <2>3, <2>6, SumStart DEF x
<1>2. ASSUME NEW k \in Nat, k \in T PROVE k + 1 \in T
  <2> SUFFICES ASSUME k + 1 <= Len(d)
               PROVE  SumOf(init, d, k + 1) \in Checksum /\ Bound(init, k + 1, SumOf(init, d, k + 1))
    OBVIOUS
  <2>1. k \in 0 .. Len(d) - 1 /\ d[k + 1] \in Byte /\ k + 1 \in 0 .. Len(d) BY <1>0
  <2>2. SumFits(init, k + 1) BY <1>0, <2>1, FitsShorter
  <2>3. SumOf(init, d, k + 1) = AddByte(SumOf(init, d, k), d[k + 1]) BY <2>1, SumAdds
  <2>4. SumOf(init, d, k) \in Checksum /\ Bound(init, k, SumOf(init, d, k)) BY <1>2
  <2> QED BY <2>1, <2>2, <2>3, <2>4, SumStep
<1>3. Nat \subseteq T
  <2> HIDE DEF T
  <2> QED BY <1>1, <1>2, Induction
<1> QED BY <1>3

(* One byte of a string more.                                              *)
LEMMA SumNext ==
  ASSUME NEW init \in Nat, NEW d \in Seq(Byte), SumFits(init, Len(d)), NEW k \in 0 .. Len(d) - 1
  PROVE  /\ SumOf(init, d, k) \in Checksum /\ SumOf(init, d, k + 1) \in Checksum
         /\ SumOf(init, d, k + 1).sum \in 0 .. SumMod - 1
         /\ SumOf(init, d, k + 1).sum = SumOf(init, d, k).sum + Weighed(SumOf(init, d, k), d[k + 1])
         /\ SumOf(init, d, k + 1).parity = ~ SumOf(init, d, k).parity
<1> DEFINE x == SumOf(init, d, k)  y == SumOf(init, d, k + 1)
<1>0. WordMod \in Nat /\ Len(d) \in Nat BY WordFacts
<1>1. k \in 0 .. Len(d) /\ k + 1 \in 0 .. Len(d) /\ k \in Nat /\ k + 1 \in Nat BY <1>0
<1>2. d[k + 1] \in Byte /\ SumFits(init, k + 1) BY <1>0, <1>1, FitsShorter
<1>3. x \in Checksum /\ Bound(init, k, x) /\ y \in Checksum /\ Bound(init, k + 1, y)
  BY <1>1, SumType
<1>4. y = AddByte(x, d[k + 1]) BY SumAdds
<1> HIDE DEF x, y
<1>5. y.sum \in 0 .. SumMod - 1 BY <1>1, <1>2, <1>3, BoundFits
<1>6. y.sum = x.sum + Weighed(x, d[k + 1]) /\ y.parity = ~ x.parity
  BY <1>1, <1>2, <1>3, <1>4, SumStep
<1> QED BY <1>3, <1>5, <1>6 DEF x, y
-----------------------------------------------------------------------------
(* The words of a string of bytes, as Reference has them.                  *)
Words(data) == [i \in 1 .. (Len(data) + 1) \div 2 |-> WordAt(data, i)]

(* A word of two bytes, the second perhaps missing.                        *)
LEMMA WordType ==
  ASSUME NEW x \in Byte, NEW y \in Byte
  PROVE  x * ByteMod + y \in 0 .. WordMod - 1
<1> DEFINE h == x * ByteMod
<1>1. h \in 0 .. WordMod - ByteMod BY HighByte
<1> HIDE DEF h
<1>2. h + y \in 0 .. WordMod - 1 BY <1>1, WordFacts DEF Byte
<1> QED BY <1>2 DEF h

(* One more byte, or two more, of a string make one more word.             *)
LEMMA WordsGrow ==
  ASSUME NEW d \in Seq(Byte), NEW m \in Nat, NEW k \in {2 * m + 1, 2 * m + 2}, k <= Len(d)
  PROVE  /\ Words(SubSeq(d, 1, 2 * m)) \in Seq(Int)
         /\ Words(SubSeq(d, 1, k)) =
              Append(Words(SubSeq(d, 1, 2 * m)),
                     d[2 * m + 1] * ByteMod + (IF k = 2 * m + 1 THEN 0 ELSE d[2 * m + 2]))
<1> DEFINE p == SubSeq(d, 1, 2 * m)  e == SubSeq(d, 1, k)
           w == d[2 * m + 1] * ByteMod + (IF k = 2 * m + 1 THEN 0 ELSE d[2 * m + 2])
<1>0. ByteMod \in Int /\ k \in Nat /\ Len(d) \in Nat /\ 2 * m <= k /\ 2 * m \in Nat BY WordFacts
<1>1. Len(p) = 2 * m /\ Len(e) = k /\ (\A i \in 1 .. 2 * m : p[i] = d[i] /\ d[i] \in Int)
      /\ \A i \in 1 .. k : e[i] = d[i] /\ d[i] \in Int
  <2>1. ASSUME NEW i \in 1 .. k PROVE d[i] \in Int
    <3>1. i \in 1 .. Len(d) BY <1>0
    <3>2. d[i] \in Byte BY <3>1
    <3> QED BY <3>2, WordFacts DEF Byte
  <2>2. Len(p) = 2 * m /\ Len(e) = k BY <1>0
  <2>3. ASSUME NEW i \in 1 .. 2 * m PROVE p[i] = d[i] /\ i \in 1 .. k BY <1>0
  <2>4. ASSUME NEW i \in 1 .. k PROVE e[i] = d[i] BY <1>0
  <2> HIDE DEF p, e
  <2> QED BY <2>1, <2>2, <2>3, <2>4
<1> HIDE DEF p, e
<1>2. (Len(p) + 1) \div 2 = m /\ (Len(e) + 1) \div 2 = m + 1 BY <1>0, <1>1
<1>3. Words(p) = [i \in 1 .. m |-> WordAt(p, i)] /\ Words(e) = [i \in 1 .. m + 1 |-> WordAt(e, i)]
  BY <1>2 DEF Words
<1>4. ASSUME NEW i \in 1 .. m
      PROVE  WordAt(p, i) \in Int /\ WordAt(e, i) = WordAt(p, i)
  <2>1. 2 * i - 1 \in 1 .. 2 * m /\ 2 * i \in 1 .. 2 * m /\ 2 * i - 1 \in 1 .. k /\ 2 * i \in 1 .. k
        /\ 2 * i <= Len(p) /\ 2 * i <= Len(e)
    BY <1>0, <1>1
  <2>2. WordAt(p, i) = p[2 * i - 1] * ByteMod + p[2 * i]
        /\ WordAt(e, i) = e[2 * i - 1] * ByteMod + e[2 * i]
    BY <2>1 DEF WordAt
  <2>3. p[2 * i - 1] = d[2 * i - 1] /\ p[2 * i] = d[2 * i] /\ e[2 * i - 1] = d[2 * i - 1]
        /\ e[2 * i] = d[2 * i] /\ d[2 * i - 1] \in Int /\ d[2 * i] \in Int
    BY <1>1, <2>1
  <2>4. d[2 * i - 1] * ByteMod + d[2 * i] \in Int BY <1>0, <2>3
  <2> QED BY <2>2, <2>3, <2>4
<1>5. WordAt(e, m + 1) = w /\ w \in Int
  <2>1. 2 * (m + 1) - 1 = 2 * m + 1 /\ 2 * (m + 1) = 2 * m + 2 OBVIOUS
  <2>2. WordAt(e, m + 1)
          = e[2 * m + 1] * ByteMod + (IF 2 * m + 2 <= k THEN e[2 * m + 2] ELSE 0)
    BY <1>1, <2>1 DEF WordAt
  <2>3. 2 * m + 1 \in 1 .. k BY <1>0
  <2>4. e[2 * m + 1] = d[2 * m + 1] /\ d[2 * m + 1] \in Int BY <1>1, <2>3
  <2>5. CASE k = 2 * m + 1
    <3>1. ~ (2 * m + 2 <= k) BY <2>5
    <3>2. d[2 * m + 1] * ByteMod + 0 \in Int BY <1>0, <2>4
    <3> QED BY <2>2, <2>4, <2>5, <3>1, <3>2
  <2>6. CASE k = 2 * m + 2
    <3>1. 2 * m + 2 <= k /\ 2 * m + 2 \in 1 .. k /\ k # 2 * m + 1 BY <2>6
    <3>2. e[2 * m + 2] = d[2 * m + 2] /\ d[2 * m + 2] \in Int BY <1>1, <3>1
    <3>3. d[2 * m + 1] * ByteMod + d[2 * m + 2] \in Int BY <1>0, <2>4, <3>2
    <3> QED BY <2>2, <2>4, <3>1, <3>2, <3>3
  <2> QED BY <2>5, <2>6
<1> HIDE DEF w
<1>6. Words(p) \in Seq(Int) /\ Len(Words(p)) = m /\ \A i \in 1 .. m : Words(p)[i] = WordAt(p, i)
  <2>1. \A i \in 1 .. m : WordAt(p, i) \in Int BY <1>4
  <2> QED BY <1>3, <2>1
<1>7. Words(e) \in Seq(Int) /\ Len(Words(e)) = m + 1
      /\ \A i \in 1 .. m + 1 : Words(e)[i] = WordAt(e, i)
  <2>1. \A i \in 1 .. m + 1 : WordAt(e, i) \in Int
    <3>1. \A i \in 1 .. m + 1 : i \in 1 .. m \/ i = m + 1 OBVIOUS
    <3> QED BY <1>4, <1>5, <3>1
  <2>2. m + 1 \in Nat OBVIOUS
  <2> QED BY <1>3, <2>1, <2>2
<1> DEFINE u == Words(p)  g == Words(e)  h == Append(u, w)
<1> HIDE DEF u, g
<1>8. h \in Seq(Int) /\ Len(h) = m + 1 /\ h[m + 1] = w /\ \A i \in 1 .. m : h[i] = u[i]
  <2>1. u \in Seq(Int) /\ Len(u) = m /\ w \in Int BY <1>5, <1>6 DEF u
  <2> QED BY <2>1, AppendProperties
<1> HIDE DEF h
<1>9. ASSUME NEW i \in 1 .. m + 1 PROVE g[i] = h[i]
  <2>1. CASE i = m + 1 BY <2>1, <1>5, <1>7, <1>8 DEF g
  <2>2. CASE i \in 1 .. m BY <2>2, <1>4, <1>6, <1>7, <1>8 DEF g, u
  <2> QED BY <2>1, <2>2
<1>10. g = h
  <2>1. g \in Seq(Int) /\ h \in Seq(Int) /\ Len(g) = Len(h) /\ Len(g) = m + 1 BY <1>7, <1>8 DEF g
  <2>2. \A i \in 1 .. Len(g) : g[i] = h[i] BY <1>9, <2>1
  <2> QED BY <2>1, <2>2, SeqEqual
<1> QED BY <1>6, <1>10 DEF g, h, u, w, p, e

(* Nothing added: the loop of value() adds the two words of the initial    *)
(* sum.                                                                    *)
LEMMA FoldedFirst ==
  ASSUME NEW init \in 0 .. SumMod - 1
  PROVE  Folded[init] = FirstWord(init)
<1> DEFINE q == init \div WordMod  t == init % WordMod
<1>0. WordMod \in Nat /\ WordMod >= 4 /\ SumMod \in Nat /\ SumMod = WordMod * WordMod BY WordFacts
<1>1. q \in Int /\ t \in 0 .. WordMod - 1 /\ WordMod * q \in Int /\ init = (WordMod * q) + t
      /\ init \in Nat /\ init < WordMod * WordMod
  <2>1. init \in Int /\ WordMod > 0 /\ init \in Nat /\ init < WordMod * WordMod BY <1>0
  <2> QED BY <1>0, <2>1, DivMod
<1> HIDE DEF q, t
<1>2. q \in 0 .. WordMod - 1
  <2>1. ASSUME q <= 0 - 1 PROVE FALSE
    <3>1. WordMod * (0 - q) >= WordMod BY <1>0, <1>1, <2>1
    <3>2. WordMod * (0 - q) = 0 - (WordMod * q) BY <1>0, <1>1
    <3> QED BY <1>0, <1>1, <3>1, <3>2
  <2>2. ASSUME q >= WordMod PROVE FALSE
    <3>1. WordMod * (q - WordMod) >= 0 BY <1>0, <1>1, <2>2
    <3>2. WordMod * (q - WordMod) = (WordMod * q) - (WordMod * WordMod) BY <1>0, <1>1
    <3>3. WordMod * WordMod \in Int BY <1>0
    <3> QED BY <1>0, <1>1, <3>1, <3>2, <3>3
  <2> QED BY <1>0, <1>1, <2>1, <2>2
<1>3. (WordMod - 1) * q = (WordMod * q) - q /\ (WordMod - 1) * (q + 1) = (WordMod * q) - q + (WordMod - 1)
  BY <1>0, <1>1
<1> DEFINE u == OnesAdd(q, t)
<1>4. u \in 0 .. WordMod - 1 /\ (u = 0 <=> init = 0) /\ Alike(init, u)
  <2>1. CASE q + t < WordMod
    <3>1. u = q + t BY <2>1 DEF OnesAdd
    <3>2. init = u + ((WordMod - 1) * q) BY <1>0, <1>1, <1>2, <1>3, <3>1
    <3>3. u \in 0 .. WordMod - 1 BY <1>0, <1>1, <1>2, <2>1, <3>1
    <3>4. u = 0 => init = 0
      <4> SUFFICES ASSUME u = 0 PROVE init = 0 OBVIOUS
      <4>1. q = 0 BY <1>0, <1>1, <1>2, <3>1
      <4>2. (WordMod - 1) * 0 = 0 BY <1>0
      <4> QED BY <3>2, <4>1, <4>2
    <3>5. init = 0 => u = 0
      <4>1. (WordMod - 1) * q >= 0 /\ (WordMod - 1) * q \in Int BY <1>0, <1>2
      <4> QED BY <1>0, <3>2, <3>3, <4>1
    <3> QED BY <1>1, <3>2, <3>3, <3>4, <3>5 DEF Alike
  <2>2. CASE ~ (q + t < WordMod)
    <3>1. u = q + t - (WordMod - 1) BY <2>2 DEF OnesAdd
    <3>2. init = u + ((WordMod - 1) * (q + 1)) /\ q + 1 \in Int BY <1>0, <1>1, <1>2, <1>3, <3>1
    <3>3. u \in 0 .. WordMod - 1 /\ u # 0 BY <1>0, <1>1, <1>2, <2>2, <3>1
    <3>4. init # 0
      <4>1. (WordMod - 1) * (q + 1) >= 0 /\ (WordMod - 1) * (q + 1) \in Int BY <1>0, <1>2
      <4> QED BY <1>0, <3>2, <3>3, <4>1
    <3> QED BY <3>2, <3>3, <3>4 DEF Alike
  <2> QED BY <2>1, <2>2
<1> HIDE DEF u
<1>5. Folded[init] = u BY <1>4, FoldedUnique
<1> QED BY <1>5 DEF FirstWord, u, q, t

(* The folded sum is the ones' complement sum of the words: for an even    *)
(* number of bytes by induction over the words, ...                        *)
LEMMA EvenSum ==
  ASSUME NEW init \in 0 .. SumMod - 1, NEW d \in Seq(Byte), SumFits(init, Len(d))
  PROVE  \A m \in Nat : 2 * m <= Len(d) =>
           /\ SumOf(init, d, 2 * m).parity = FALSE
           /\ Folded[SumOf(init, d, 2 * m).sum]
                = Fold("ones", FirstWord(init), Words(SubSeq(d, 1, 2 * m)))
<1> DEFINE Good(k) == /\ SumOf(init, d, k).parity = FALSE
                      /\ Folded[SumOf(init, d, k).sum]
                           = Fold("ones", FirstWord(init), Words(SubSeq(d, 1, k)))
           T == {m \in Nat : 2 * m <= Len(d) => Good(2 * m)}
<1>0. WordMod \in Nat /\ Len(d) \in Nat /\ SumMod \in Nat /\ init \in Nat BY WordFacts
<1>1. 0 \in T
  <2>1. SumOf(init, d, 0) = [sum |-> init, parity |-> FALSE] BY SumStart DEF NewChecksum
  <2>2. SubSeq(d, 1, 0) = <<>> /\ 2 * 0 = 0 OBVIOUS
  <2>3. Words(<<>>) = <<>>
    <3>1. (Len(<<>>) + 1) \div 2 = 0 OBVIOUS
    <3> QED BY <3>1 DEF Words
  <2>4. Folded[init] = FirstWord(init) BY FoldedFirst
  <2>5. Fold("ones", FirstWord(init), <<>>) = FirstWord(init) BY FoldEmpty
  <2>6. Good(0)
    <3>1. SumOf(init, d, 0).parity = FALSE BY <2>1
    <3>2. SumOf(init, d, 0).sum = init BY <2>1
    <3>3. Words(SubSeq(d, 1, 0)) = <<>> BY <2>2, <2>3
    <3>4. Folded[SumOf(init, d, 0).sum] = Fold("ones", FirstWord(init), Words(SubSeq(d, 1, 0)))
      BY <2>4, <2>5, <3>2, <3>3
    <3> QED BY <3>1, <3>4
  <2> HIDE DEF Good
  <2> QED BY <2>2, <2>6
<1>2. ASSUME NEW m \in Nat, m \in T PROVE m + 1 \in T
  <2> DEFINE x == SumOf(init, d, 2 * m)  y == SumOf(init, d, 2 * m + 1)
             z == SumOf(init, d, 2 * m + 2)
             w == d[2 * m + 1] * ByteMod + d[2 * m + 2]
  <2>0. 2 * (m + 1) = 2 * m + 2 OBVIOUS
  <2> SUFFICES ASSUME 2 * m + 2 <= Len(d) PROVE Good(2 * m + 2)
    <3> HIDE DEF Good
    <3> QED BY <2>0
  <2>1. 2 * m \in 0 .. Len(d) - 1 /\ 2 * m + 1 \in 0 .. Len(d) - 1 /\ 2 * m + 1 + 1 = 2 * m + 2
    BY <1>0
  <2>2. x.parity = FALSE /\ Folded[x.sum] = Fold("ones", FirstWord(init), Words(SubSeq(d, 1, 2 * m)))
    BY <1>0, <1>2
  <2>3. x \in Checksum /\ y.sum = x.sum + Weighed(x, d[2 * m + 1]) /\ y.parity = ~ x.parity
    BY <1>0, <2>1, SumNext
  <2>4. z.sum = y.sum + Weighed(y, d[2 * m + 2]) /\ z.parity = ~ y.parity
        /\ z.sum \in 0 .. SumMod - 1
    BY <1>0, <2>1, SumNext
  <2>5. d[2 * m + 1] \in Byte /\ d[2 * m + 2] \in Byte BY <2>1
  <2> HIDE DEF x, y, z
  <2>6. y.sum = x.sum + d[2 * m + 1] * ByteMod /\ z.sum = y.sum + d[2 * m + 2] /\ z.parity = FALSE
    BY <2>2, <2>3, <2>4 DEF Weighed
  <2>7. w \in 0 .. WordMod - 1 BY <2>5, WordType
  <2>8. z.sum = x.sum + w /\ x.sum \in Nat
    <3>1. x.sum \in Nat BY <2>3 DEF Checksum
    <3> DEFINE h == d[2 * m + 1] * ByteMod
    <3>2. h \in Int /\ d[2 * m + 2] \in Int
      <4>1. h \in 0 .. WordMod - ByteMod BY <2>5, HighByte
      <4>2. d[2 * m + 2] \in Int BY <2>5, WordFacts DEF Byte
      <4> HIDE DEF h
      <4> QED BY <4>1, <4>2
    <3> HIDE DEF h
    <3>3. y.sum = x.sum + h /\ z.sum = y.sum + d[2 * m + 2] /\ w = h + d[2 * m + 2]
      BY <2>6 DEF h
    <3> HIDE DEF w
    <3>4. z.sum = x.sum + w BY <3>1, <3>2, <3>3
    <3> QED BY <3>1, <3>4
  <2>9. Folded[z.sum] = OnesAdd(Folded[x.sum], w)
    <3> HIDE DEF w
    <3> QED BY <2>4, <2>7, <2>8, FoldedAdd
  <2>10. Words(SubSeq(d, 1, 2 * m)) \in Seq(Int)
         /\ Words(SubSeq(d, 1, 2 * m + 2)) = Append(Words(SubSeq(d, 1, 2 * m)), w)
    <3>1. 2 * m + 2 # 2 * m + 1 OBVIOUS
    <3> QED BY <3>1, WordsGrow
  <2>11. w \in Int
    <3> HIDE DEF w
    <3> QED BY <1>0, <2>7
  <2> HIDE DEF w
  <2> DEFINE u == Words(SubSeq(d, 1, 2 * m))
  <2> HIDE DEF u
  <2>12. Fold("ones", FirstWord(init), Append(u, w)) = OnesAdd(Fold("ones", FirstWord(init), u), w)
    <3>1. u \in Seq(Int) BY <2>10 DEF u
    <3>2. Fold("ones", FirstWord(init), Append(u, w)) = Step("ones", Fold("ones", FirstWord(init), u), w)
      BY <2>11, <3>1, FoldAppend
    <3> QED BY <3>2 DEF Step
  <2> QED BY <2>2, <2>6, <2>9, <2>10, <2>12 DEF u, z
<1>3. Nat \subseteq T
  <2> HIDE DEF T
  <2> QED BY <1>1, <1>2, Induction
<1> QED BY <1>3

(* ... and for any, an odd last byte added to what came before it.         *)
LEMMA SumIsReference ==
  ASSUME NEW init \in 0 .. SumMod - 1, NEW d \in Seq(Byte), SumFits(init, Len(d)),
         NEW k \in 0 .. Len(d)
  PROVE  Folded[SumOf(init, d, k).sum] = Fold("ones", FirstWord(init), Words(SubSeq(d, 1, k)))
<1>0. WordMod \in Nat /\ Len(d) \in Nat /\ SumMod \in Nat /\ ByteMod \in Nat /\ ByteMod >= 2
      /\ init \in Nat
  BY WordFacts
<1>1. k = 2 * (k \div 2) \/ k = 2 * (k \div 2) + 1 OBVIOUS
<1>2. PICK m \in Nat : k = 2 * m \/ k = 2 * m + 1
  <2>1. k \div 2 \in Nat OBVIOUS
  <2> QED BY <1>1, <2>1
<1>3. 2 * m <= Len(d) BY <1>2
<1> DEFINE x == SumOf(init, d, 2 * m)
<1>4. x.parity = FALSE /\ Folded[x.sum] = Fold("ones", FirstWord(init), Words(SubSeq(d, 1, 2 * m)))
  BY <1>3, EvenSum
<1>5. CASE k = 2 * m BY <1>4, <1>5
<1>6. CASE k = 2 * m + 1
  <2> DEFINE y == SumOf(init, d, 2 * m + 1)  w == d[2 * m + 1] * ByteMod + 0
  <2>1. 2 * m \in 0 .. Len(d) - 1 BY <1>6
  <2>2. x \in Checksum /\ y.sum = x.sum + Weighed(x, d[2 * m + 1]) /\ y.sum \in 0 .. SumMod - 1
    BY <1>0, <2>1, SumNext
  <2> HIDE DEF x, y
  <2>3. d[2 * m + 1] \in Byte /\ 0 \in Byte BY <1>0, <2>1 DEF Byte
  <2>4. w \in 0 .. WordMod - 1 BY <2>3, WordType
  <2>5. x.sum \in Nat BY <2>2 DEF Checksum
  <2>6. y.sum = x.sum + w
    <3>1. y.sum = x.sum + d[2 * m + 1] * ByteMod BY <1>4, <2>2 DEF Weighed
    <3>2. d[2 * m + 1] * ByteMod \in Int BY <1>0, <2>3 DEF Byte
    <3> QED BY <3>1, <3>2
  <2>7. Words(SubSeq(d, 1, 2 * m)) \in Seq(Int)
        /\ Words(SubSeq(d, 1, 2 * m + 1)) = Append(Words(SubSeq(d, 1, 2 * m)), w)
    BY <1>6, WordsGrow
  <2> HIDE DEF w
  <2>8. w \in Int BY <1>0, <2>4
  <2>9. Folded[y.sum] = OnesAdd(Folded[x.sum], w) BY <2>2, <2>4, <2>5, <2>6, FoldedAdd
  <2> DEFINE u == Words(SubSeq(d, 1, 2 * m))
  <2> HIDE DEF u
  <2>10. Fold("ones", FirstWord(init), Append(u, w)) = OnesAdd(Fold("ones", FirstWord(init), u), w)
    <3>1. u \in Seq(Int) BY <2>7 DEF u
    <3>2. Fold("ones", FirstWord(init), Append(u, w)) = Step("ones", Fold("ones", FirstWord(init), u), w)
      BY <2>8, <3>1, FoldAppend
    <3> QED BY <3>2 DEF Step
  <2> QED BY <1>4, <1>6, <2>7, <2>9, <2>10 DEF u, y
<1> QED BY <1>2, <1>5, <1>6
-----------------------------------------------------------------------------
(* Changing one byte changes the sum by its difference, in its half of the *)
(* word.                                                                   *)
LEMMA SumChanges ==
  ASSUME NEW init \in 0 .. SumMod - 1, NEW d \in Seq(Byte), SumFits(init, Len(d)),
         NEW i \in 1 .. Len(d), NEW y \in Byte
  PROVE  /\ [d EXCEPT ![i] = y] \in Seq(Byte) /\ Len([d EXCEPT ![i] = y]) = Len(d)
         /\ SumOf(init, [d EXCEPT ![i] = y], Len(d)).sum
              = SumOf(init, d, Len(d)).sum
                  + (Weighed(SumOf(init, d, i - 1), y) - Weighed(SumOf(init, d, i - 1), d[i]))
<1> DEFINE e == [d EXCEPT ![i] = y]
           delta == Weighed(SumOf(init, d, i - 1), y) - Weighed(SumOf(init, d, i - 1), d[i])
           D(k) == SumOf(init, d, k)
           E(k) == SumOf(init, e, k)
           Good(k) == /\ E(k).parity = D(k).parity
                      /\ E(k).sum = D(k).sum + (IF k < i THEN 0 ELSE delta)
           T == {k \in Nat : k <= Len(d) => Good(k)}
<1>0. /\ WordMod \in Nat /\ Len(d) \in Nat /\ i \in Nat /\ i - 1 \in 0 .. Len(d) - 1 /\ d[i] \in Byte
      /\ SumMod \in Nat /\ init \in Nat
  BY WordFacts
<1>1. e \in Seq(Byte) /\ Len(e) = Len(d) OBVIOUS
<1>2. \A j \in 1 .. Len(d) : e[j] = IF j = i THEN y ELSE d[j] OBVIOUS
<1>3. delta \in Int
  <2>1. D(i - 1) \in Checksum BY <1>0, SumNext
  <2>2. Weighed(D(i - 1), y) \in 0 .. WordMod - ByteMod /\ Weighed(D(i - 1), d[i]) \in 0 .. WordMod - ByteMod
    <3> HIDE DEF D
    <3> QED BY <1>0, <2>1, WeighedIs
  <2> QED BY <2>2
<1> HIDE DEF e
<1>4. ASSUME NEW k \in 0 .. Len(d) - 1
      PROVE  /\ D(k) \in Checksum /\ E(k) \in Checksum
             /\ D(k + 1).sum = D(k).sum + Weighed(D(k), d[k + 1]) /\ D(k + 1).parity = ~ D(k).parity
             /\ E(k + 1).sum = E(k).sum + Weighed(E(k), e[k + 1]) /\ E(k + 1).parity = ~ E(k).parity
  <2>1. k \in 0 .. Len(e) - 1 /\ SumFits(init, Len(e)) BY <1>1
  <2> QED BY <1>0, <1>1, <2>1, SumNext
<1>5. Good(0)
  <2>1. D(0) = NewChecksum(init) /\ E(0) = NewChecksum(init) BY <1>1, SumStart
  <2>2. D(0) = E(0) BY <2>1
  <2>3. D(0).sum \in Int BY <2>1, <1>0 DEF NewChecksum
  <2> HIDE DEF D, E, delta
  <2> QED BY <1>0, <2>2, <2>3
<1>6. ASSUME NEW k \in Nat, k + 1 <= Len(d), Good(k) PROVE Good(k + 1)
  <2>1. k \in 0 .. Len(d) - 1 /\ k + 1 \in 1 .. Len(d) BY <1>0, <1>6
  <2> DEFINE x == D(k)  z == E(k)
  <2>2. /\ x \in Checksum /\ z \in Checksum
        /\ D(k + 1).sum = x.sum + Weighed(x, d[k + 1]) /\ D(k + 1).parity = ~ x.parity
        /\ E(k + 1).sum = z.sum + Weighed(z, e[k + 1]) /\ E(k + 1).parity = ~ z.parity
    BY <1>4, <2>1
  <2>3. z.parity = x.parity /\ z.sum = x.sum + (IF k < i THEN 0 ELSE delta) BY <1>6
  <2>4. e[k + 1] \in Byte /\ d[k + 1] \in Byte BY <1>1, <2>1
  <2>5. Weighed(z, e[k + 1]) = Weighed(x, e[k + 1]) BY <2>3 DEF Weighed
  <2>6. k + 1 = i => delta = Weighed(x, y) - Weighed(x, d[k + 1])
    <3> SUFFICES ASSUME k + 1 = i PROVE delta = Weighed(x, y) - Weighed(x, d[k + 1]) OBVIOUS
    <3>1. i - 1 = k BY <1>0
    <3> QED BY <3>1
  <2> HIDE DEF x, z, delta
  <2>7. Weighed(x, e[k + 1]) \in Int /\ Weighed(x, d[k + 1]) \in Int /\ x.sum \in Int /\ Weighed(x, y) \in Int
    <3>1. x.sum \in Int BY <2>2 DEF Checksum
    <3>2. \A b \in Byte : Weighed(x, b) \in Int
      <4> SUFFICES ASSUME NEW b \in Byte PROVE Weighed(x, b) \in Int OBVIOUS
      <4>1. Weighed(x, b) \in 0 .. WordMod - ByteMod BY <2>2, WeighedIs
      <4> QED BY <4>1
    <3> QED BY <2>4, <3>1, <3>2
  <2>8. E(k + 1).parity = D(k + 1).parity BY <2>2, <2>3
  <2>9. E(k + 1).sum = D(k + 1).sum + (IF k + 1 < i THEN 0 ELSE delta)
    <3> DEFINE a == E(k + 1).sum  b == D(k + 1).sum
    <3>1. a = z.sum + Weighed(x, e[k + 1]) /\ b = x.sum + Weighed(x, d[k + 1]) BY <2>2, <2>5
    <3> HIDE DEF a, b
    <3>2. CASE k + 1 < i
      <4>1. e[k + 1] = d[k + 1] /\ z.sum = x.sum
        <5>1. k + 1 # i /\ k < i BY <1>0, <3>2
        <5>2. e[k + 1] = d[k + 1] BY <1>2, <2>1, <5>1
        <5>3. z.sum = x.sum + 0 BY <2>3, <5>1
        <5> QED BY <2>7, <5>2, <5>3
      <4>2. a = b + 0 BY <2>7, <3>1, <4>1
      <4> QED BY <3>2, <4>2 DEF a, b
    <3>3. CASE k + 1 = i
      <4>1. e[k + 1] = y /\ z.sum = x.sum BY <1>0, <1>2, <2>1, <2>3, <2>7, <3>3
      <4>2. a = b + delta BY <2>6, <2>7, <3>1, <3>3, <4>1
      <4>3. ~ (k + 1 < i) BY <1>0, <3>3
      <4> QED BY <4>2, <4>3 DEF a, b
    <3>4. CASE i < k + 1
      <4>1. e[k + 1] = d[k + 1] /\ z.sum = x.sum + delta BY <1>0, <1>2, <2>1, <2>3, <3>4
      <4>2. a = b + delta BY <1>3, <2>7, <3>1, <4>1
      <4>3. ~ (k + 1 < i) BY <1>0, <3>4
      <4> QED BY <4>2, <4>3 DEF a, b
    <3> QED BY <1>0, <3>2, <3>3, <3>4
  <2> QED BY <2>8, <2>9
<1> HIDE DEF Good
<1>7. \A k \in Nat : k \in T => k + 1 \in T
  <2> SUFFICES ASSUME NEW k \in Nat, k \in T, k + 1 <= Len(d) PROVE Good(k + 1) OBVIOUS
  <2>1. k <= Len(d) BY <1>0
  <2> QED BY <1>6, <2>1
<1>8. 0 \in T BY <1>5
<1>9. Nat \subseteq T
  <2> HIDE DEF T
  <2> QED BY <1>7, <1>8, Induction
<1>10. Good(Len(d)) BY <1>0, <1>9
<1>11. E(Len(d)).sum = D(Len(d)).sum + delta
  <2>1. ~ (Len(d) < i) BY <1>0
  <2> HIDE DEF delta, D, E
  <2> QED BY <1>10, <2>1 DEF Good
<1> QED BY <1>1, <1>11 DEF e

(* The folded sum of a whole string, and when it is sealed: value() is 0.  *)
Total(init, d) == SumOf(init, d, Len(d)).sum

Sealed(init, d) == Folded[Total(init, d)] = WordMod - 1

(* The sum of a whole string is one of its 32-bit type.                    *)
LEMMA TotalType ==
  ASSUME NEW init \in 0 .. SumMod - 1, NEW d \in Seq(Byte)
  PROVE  Total(init, d) \in 0 .. SumMod - 1
<1>1. Len(d) \in Nat /\ Len(d) \in 0 .. Len(d) OBVIOUS
<1> QED BY <1>1, SumRange DEF Total

(* A sealed string with one byte changed is not sealed: the difference is  *)
(* less than WordMod - 1.                                                  *)
LEMMA DamageShows ==
  ASSUME NEW init \in 0 .. SumMod - 1, NEW d \in Seq(Byte), SumFits(init, Len(d)),
         Sealed(init, d), NEW i \in 1 .. Len(d), NEW y \in Byte, y # d[i]
  PROVE  ~ Sealed(init, [d EXCEPT ![i] = y])
<1> DEFINE e == [d EXCEPT ![i] = y]
           x == SumOf(init, d, i - 1)
           delta == Weighed(x, y) - Weighed(x, d[i])
           m == WordMod - 1
<1>0. WordMod \in Nat /\ WordMod >= 4 /\ ByteMod \in Nat /\ ByteMod >= 2 /\ Len(d) \in Nat
      /\ m \in Nat /\ SumMod \in Nat /\ init \in Nat
  BY WordFacts
<1>1. e \in Seq(Byte) /\ Len(e) = Len(d) /\ SumOf(init, e, Len(d)).sum = SumOf(init, d, Len(d)).sum + delta
  BY SumChanges
<1>2. x \in Checksum /\ d[i] \in Byte
  <2>1. i - 1 \in 0 .. Len(d) - 1 BY <1>0
  <2> QED BY <1>0, <2>1, SumNext
<1> HIDE DEF e, x
<1>3. Weighed(x, y) \in 0 .. WordMod - ByteMod /\ Weighed(x, d[i]) \in 0 .. WordMod - ByteMod
  BY <1>2, WeighedIs
<1>4. Weighed(x, y) # Weighed(x, d[i])
  <2>1. CASE x.parity BY <2>1 DEF Weighed
  <2>2. CASE ~ x.parity
    <3>1. y \in Int /\ d[i] \in Int BY <1>0, <1>2 DEF Byte
    <3>2. y * ByteMod # d[i] * ByteMod BY <1>0, <3>1
    <3> QED BY <2>2, <3>2 DEF Weighed
  <2> QED BY <2>1, <2>2
<1>5. delta \in Int /\ delta # 0 /\ 0 - m < delta /\ delta < m BY <1>0, <1>3, <1>4
<1> HIDE DEF delta
<1>6. Total(init, e) = Total(init, d) + delta BY <1>1 DEF Total
<1>7. Total(init, d) \in 0 .. SumMod - 1 /\ Total(init, e) \in 0 .. SumMod - 1
  <2>1. Total(init, d) \in 0 .. SumMod - 1 BY TotalType
  <2>2. Total(init, e) \in 0 .. SumMod - 1 BY <1>1, TotalType
  <2> QED BY <2>1, <2>2
<1> SUFFICES ASSUME Sealed(init, e) PROVE FALSE BY DEF e
<1>8. Alike(Total(init, d), m) /\ Alike(Total(init, e), m)
  BY <1>7, FoldedIs DEF Sealed
<1>9. PICK k \in Int : Total(init, d) = m + (m * k) BY <1>8 DEF Alike
<1>10. PICK l \in Int : Total(init, e) = m + (m * l) BY <1>8 DEF Alike
<1> HIDE DEF m
<1>11. m * (l - k) = (m * l) - (m * k) /\ m * l \in Int /\ m * k \in Int BY <1>0
<1>12. m * (l - k) = delta BY <1>0, <1>5, <1>6, <1>9, <1>10, <1>11
<1>13. l - k = 0 BY <1>0, <1>5, <1>12, SmallMultiple
<1>14. m * (l - k) = 0 BY <1>0, <1>13
<1> QED BY <1>5, <1>12, <1>14
-----------------------------------------------------------------------------
(* Integers in network byte order.                                         *)
LEMMA ShiftIs ==
  /\ Shift(0) = 1 /\ Shift(1) = ByteMod /\ Shift(2) = WordMod /\ Shift(3) = ByteMod * WordMod
  /\ \A j \in 0 .. 3 : Shift(j) \in Nat /\ Shift(j) > 0
<1>1. Shift(0) = 1 /\ Shift(1) = ByteMod /\ Shift(2) = WordMod /\ Shift(3) = ByteMod * WordMod
  BY DEF Shift
<1>2. ByteMod * WordMod \in Nat /\ ByteMod * WordMod > 0
  <2>1. ByteMod \in Nat /\ WordMod \in Nat /\ ByteMod > 0 /\ WordMod > 0 BY WordFacts
  <2> HIDE DEF WordMod
  <2> QED BY <2>1
<1>3. \A j \in 0 .. 3 : j = 0 \/ j = 1 \/ j = 2 \/ j = 3 OBVIOUS
<1> QED BY <1>1, <1>2, <1>3, WordFacts

(* _unparse_int() makes len bytes.                                         *)
LEMMA UnparseType ==
  ASSUME NEW len \in Widths, NEW val \in Int
  PROVE  /\ unparse_int(len, val) \in Seq(Byte) /\ Len(unparse_int(len, val)) = len
         /\ \A i \in 1 .. len : unparse_int(len, val)[i] = (val \div Shift(len - i)) % ByteMod
<1>0. len \in Nat /\ len <= 4 BY DEF Widths
<1>1. ASSUME NEW i \in 1 .. len PROVE (val \div Shift(len - i)) % ByteMod \in Byte
  <2>1. len - i \in 0 .. 3 BY <1>0
  <2> DEFINE m == Shift(len - i)
  <2>2. m \in Nat /\ m > 0 BY <2>1, ShiftIs
  <2> HIDE DEF m
  <2>3. val \div m \in Int BY <2>2
  <2> DEFINE q == val \div m
  <2> HIDE DEF q
  <2>4. q % ByteMod \in 0 .. ByteMod - 1
    <3>1. q \in Int /\ ByteMod \in Nat /\ ByteMod > 0 BY <2>3, WordFacts DEF q
    <3> QED BY <3>1, DivMod
  <2> QED BY <2>4 DEF q, m, Byte
<1> QED BY <1>0, <1>1 DEF unparse_int

(* A number cut into its first digits and up to three more.                *)
LEMMA Digits ==
  ASSUME NEW n \in Nat, NEW x \in Byte, NEW y \in Byte, NEW z \in Byte
  PROVE  /\ n \div Shift(0) = n
         /\ (n * ByteMod + x) \div Shift(1) = n /\ (n * ByteMod + x) % ByteMod = x
         /\ ((n * ByteMod + x) * ByteMod + y) \div Shift(2) = n
         /\ (((n * ByteMod + x) * ByteMod + y) * ByteMod + z) \div Shift(3) = n
<1>0. ByteMod \in Nat /\ ByteMod >= 2 /\ WordMod \in Nat /\ WordMod >= 4 /\ WordMod = ByteMod * ByteMod
      /\ x \in Nat /\ y \in Nat /\ z \in Nat /\ x <= ByteMod - 1
  BY WordFacts DEF Byte
<1> HIDE DEF WordMod
<1>1. n \div Shift(0) = n
  <2>1. ((1 * n) + 0) \div 1 = n BY DivModUnique
  <2>2. (1 * n) + 0 = n OBVIOUS
  <2> QED BY <2>1, <2>2, ShiftIs
<1>2. (n * ByteMod + x) \div Shift(1) = n /\ (n * ByteMod + x) % ByteMod = x
  <2>1. x \in 0 .. ByteMod - 1 BY DEF Byte
  <2>2. ((ByteMod * n) + x) \div ByteMod = n /\ ((ByteMod * n) + x) % ByteMod = x
    BY <1>0, <2>1, DivModUnique
  <2>3. n * ByteMod + x = (ByteMod * n) + x BY <1>0
  <2> QED BY <2>2, <2>3, ShiftIs
<1>3. ((n * ByteMod + x) * ByteMod + y) \div Shift(2) = n
  <2> DEFINE t == x * ByteMod + y
  <2>1. t \in 0 .. WordMod - 1 BY WordType
  <2>2. (n * ByteMod + x) * ByteMod + y = (WordMod * n) + t BY <1>0
  <2> HIDE DEF t
  <2>3. ((WordMod * n) + t) \div WordMod = n BY <1>0, <2>1, DivModUnique
  <2> QED BY <2>2, <2>3, ShiftIs
<1>4. (((n * ByteMod + x) * ByteMod + y) * ByteMod + z) \div Shift(3) = n
  <2> DEFINE u == y * ByteMod + z  m == ByteMod * WordMod  t == x * WordMod + u
  <2>1. u \in 0 .. WordMod - 1 BY WordType
  <2>2. ((n * ByteMod + x) * ByteMod + y) * ByteMod + z = (m * n) + t BY <1>0
  <2> HIDE DEF u
  <2>3. m \in Nat /\ m > 0 /\ t \in 0 .. m - 1
    <3>1. m \in Nat /\ m > 0 BY <1>0
    <3>2. (ByteMod - 1 - x) * WordMod >= 0 /\ x * WordMod >= 0 /\ x * WordMod \in Int BY <1>0
    <3>3. (ByteMod - 1 - x) * WordMod = m - WordMod - (x * WordMod) BY <1>0
    <3> DEFINE v == x * WordMod
    <3> HIDE DEF m, v
    <3>4. m - WordMod - v >= 0 /\ v >= 0 /\ v \in Int BY <3>2, <3>3 DEF v
    <3>5. v + u \in 0 .. m - 1 BY <1>0, <2>1, <3>1, <3>4
    <3> QED BY <3>1, <3>5 DEF v
  <2> HIDE DEF m, t
  <2>4. ((m * n) + t) \div m = n BY <2>3, DivModUnique
  <2> QED BY <2>2, <2>4, ShiftIs DEF m
<1> QED BY <1>1, <1>2, <1>3, <1>4

(* The number that the first k digits of p make.                           *)
Number(p, k) == Fold("digits", 0, SubSeq(p, 1, k))

(* The number grows by one digit at a time, as in _parse_int().            *)
LEMMA NumberIs ==
  ASSUME NEW p \in Seq(Byte)
  PROVE  /\ \A k \in 0 .. Len(p) : Number(p, k) \in Nat
         /\ \A k \in 0 .. Len(p) - 1 : Number(p, k + 1) = Number(p, k) * ByteMod + p[k + 1]
<1> DEFINE T == {k \in Nat : k <= Len(p) => Number(p, k) \in Nat}
<1>0. Len(p) \in Nat /\ ByteMod \in Nat BY WordFacts
<1>1. ASSUME NEW k \in 0 .. Len(p) - 1 PROVE Number(p, k + 1) = Number(p, k) * ByteMod + p[k + 1]
  <2>1. Number(p, k + 1) = Step("digits", Number(p, k), p[k + 1]) BY FoldPrefix DEF Number
  <2> QED BY <2>1 DEF Step
<1>2. 0 \in T
  <2>1. SubSeq(p, 1, 0) = <<>> OBVIOUS
  <2>2. Fold("digits", 0, <<>>) = 0 BY FoldEmpty
  <2>3. Number(p, 0) = 0 BY <2>1, <2>2 DEF Number
  <2> QED BY <2>3
<1>3. ASSUME NEW k \in Nat, k \in T PROVE k + 1 \in T
  <2> SUFFICES ASSUME k + 1 <= Len(p) PROVE Number(p, k + 1) \in Nat OBVIOUS
  <2>1. k \in 0 .. Len(p) - 1 /\ Number(p, k) \in Nat BY <1>0, <1>3
  <2>2. p[k + 1] \in Nat
    <3>1. p[k + 1] \in Byte BY <2>1
    <3> QED BY <3>1, <1>0 DEF Byte
  <2> QED BY <1>0, <1>1, <2>1, <2>2
<1>4. Nat \subseteq T
  <2> HIDE DEF T
  <2> QED BY <1>2, <1>3, Induction
<1> QED BY <1>0, <1>1, <1>4

(* _unparse_int() of what _parse_int() made of some bytes is those bytes.  *)
LEMMA UnparseParse ==
  ASSUME NEW len \in Widths, NEW p \in Seq(Byte), Len(p) = len
  PROVE  Number(p, len) \in Nat /\ unparse_int(len, Number(p, len)) = p
<1> DEFINE N(k) == Number(p, k)
           val == N(len)
<1>0. len \in Nat /\ len <= 4 /\ len \in 0 .. Len(p) /\ ByteMod \in Nat /\ ByteMod >= 2
      /\ 0 \in Byte
  BY WordFacts DEF Widths, Byte
<1>1. \A k \in 0 .. len : N(k) \in Nat BY <1>0, NumberIs
<1>2. \A k \in 0 .. len - 1 : N(k + 1) = N(k) * ByteMod + p[k + 1] BY <1>0, NumberIs
<1>3. \A k \in 1 .. len : p[k] \in Byte OBVIOUS
<1> HIDE DEF N
<1>4. ASSUME NEW i \in 1 .. len PROVE (val \div Shift(len - i)) % ByteMod = p[i]
  <2>1. i - 1 \in 0 .. len - 1 /\ i - 1 \in 0 .. len /\ i \in 0 .. len /\ (i - 1) + 1 = i BY <1>0
  <2>2. N(i) = N(i - 1) * ByteMod + p[i] /\ N(i - 1) \in Nat /\ N(i) \in Nat /\ p[i] \in Byte
    BY <1>1, <1>2, <1>3, <2>1
  <2>3. N(i) % ByteMod = p[i]
    <3> DEFINE n == N(i - 1)  x == p[i]
    <3> HIDE DEF n, x
    <3>1. n \in Nat /\ x \in Byte BY <2>2 DEF n, x
    <3>2. (n * ByteMod + x) % ByteMod = x BY <1>0, <3>1, Digits
    <3> QED BY <2>2, <3>2 DEF n, x
  <2> DEFINE n == N(i)
  <2> HIDE DEF n
  <2>4. n \in Nat BY <2>2 DEF n
  <2>5. CASE len - i = 0
    <3>1. len = i BY <1>0, <2>5
    <3>2. val = n BY <3>1 DEF n
    <3>3. n \div Shift(0) = n BY <1>0, <2>4, Digits
    <3> QED BY <2>3, <2>5, <3>2, <3>3 DEF n
  <2>6. CASE len - i = 1
    <3>1. len = i + 1 /\ i \in 0 .. len - 1 /\ i + 1 \in 1 .. len BY <1>0, <2>6
    <3>2. val = n * ByteMod + p[i + 1] /\ p[i + 1] \in Byte BY <1>2, <1>3, <3>1 DEF n
    <3>3. (n * ByteMod + p[i + 1]) \div Shift(1) = n BY <1>0, <2>4, <3>2, Digits
    <3> QED BY <2>3, <2>6, <3>2, <3>3 DEF n
  <2>7. CASE len - i = 2
    <3>1. len = i + 2 /\ i \in 0 .. len - 1 /\ i + 1 \in 0 .. len - 1 /\ i + 1 \in 1 .. len
          /\ i + 2 \in 1 .. len /\ (i + 1) + 1 = i + 2
      BY <1>0, <2>7
    <3>2. N(i + 1) = n * ByteMod + p[i + 1] /\ p[i + 1] \in Byte /\ p[i + 2] \in Byte
      BY <1>2, <1>3, <3>1 DEF n
    <3>3. val = N(i + 1) * ByteMod + p[i + 2] BY <1>2, <3>1
    <3>4. ((n * ByteMod + p[i + 1]) * ByteMod + p[i + 2]) \div Shift(2) = n
      BY <1>0, <2>4, <3>2, Digits
    <3> QED BY <2>3, <2>7, <3>2, <3>3, <3>4 DEF n
  <2>8. CASE len - i = 3
    <3>1. len = i + 3 /\ i \in 0 .. len - 1 /\ i + 1 \in 0 .. len - 1 /\ i + 2 \in 0 .. len - 1
          /\ i + 1 \in 1 .. len /\ i + 2 \in 1 .. len /\ i + 3 \in 1 .. len
          /\ (i + 1) + 1 = i + 2 /\ (i + 2) + 1 = i + 3
      BY <1>0, <2>8
    <3>2. N(i + 1) = n * ByteMod + p[i + 1] /\ p[i + 1] \in Byte /\ p[i + 2] \in Byte
          /\ p[i + 3] \in Byte
      BY <1>2, <1>3, <3>1 DEF n
    <3>3. N(i + 2) = N(i + 1) * ByteMod + p[i + 2] /\ val = N(i + 2) * ByteMod + p[i + 3]
      BY <1>2, <3>1
    <3>4. (((n * ByteMod + p[i + 1]) * ByteMod + p[i + 2]) * ByteMod + p[i + 3]) \div Shift(3) = n
      BY <2>4, <3>2, Digits
    <3> QED BY <2>3, <2>8, <3>2, <3>3, <3>4 DEF n
  <2>9. len - i = 0 \/ len - i = 1 \/ len - i = 2 \/ len - i = 3 BY <1>0
  <2> QED BY <2>5, <2>6, <2>7, <2>8, <2>9
<1>5. val \in Nat BY <1>0, <1>1
<1> HIDE DEF val
<1> DEFINE q == unparse_int(len, val)
<1>6. q \in Seq(Byte) /\ Len(q) = len /\ \A i \in 1 .. len : q[i] = (val \div Shift(len - i)) % ByteMod
  <2>1. val \in Int BY <1>5
  <2> QED BY <2>1, UnparseType
<1> HIDE DEF q
<1>7. q = p
  <2>1. \A i \in 1 .. Len(q) : q[i] = p[i] BY <1>4, <1>6
  <2>2. Len(q) = Len(p) BY <1>6
  <2> QED BY <1>6, <2>1, <2>2, SeqEqual
<1> QED BY <1>5, <1>7 DEF q, val, N
-----------------------------------------------------------------------------
(* What Drop returns.                                                      *)
LEMMA DropType ==
  ASSUME NEW S, NEW t \in Seq(S), NEW k \in Nat
  PROVE  /\ Drop(t, k) \in Seq(S)
         /\ Len(Drop(t, k)) = IF k <= Len(t) THEN Len(t) - k ELSE 0
         /\ \A i \in 1 .. Len(t) - k : Drop(t, k)[i] = t[k + i]
<1>1. \A i \in k + 1 .. Len(t) : t[i] \in S OBVIOUS
<1>2. Len(t) \in Int /\ k + 1 \in Int OBVIOUS
<1>3. /\ SubSeq(t, k + 1, Len(t)) \in Seq(S)
      /\ Len(SubSeq(t, k + 1, Len(t))) = IF k + 1 <= Len(t) THEN Len(t) - (k + 1) + 1 ELSE 0
      /\ \A i \in 1 .. Len(t) - (k + 1) + 1 : SubSeq(t, k + 1, Len(t))[i] = t[k + 1 + i - 1]
  BY <1>1, <1>2, SubSeqProperties
<1>4. ASSUME NEW i \in 1 .. Len(t) - k PROVE Drop(t, k)[i] = t[k + i]
  <2>1. i \in 1 .. Len(t) - (k + 1) + 1 /\ k + 1 + i - 1 = k + i OBVIOUS
  <2> QED BY <1>3, <2>1 DEF Drop
<1>5. Len(Drop(t, k)) = IF k <= Len(t) THEN Len(t) - k ELSE 0 BY <1>2, <1>3 DEF Drop
<1> QED BY <1>3, <1>4, <1>5 DEF Drop

(* Dropping nothing.                                                       *)
LEMMA DropNone ==
  ASSUME NEW S, NEW t \in Seq(S)
  PROVE  Drop(t, 0) = t
BY SubSeqFull DEF Drop

(* Dropping everything, or more than there is.                             *)
LEMMA DropAll ==
  ASSUME NEW S, NEW t \in Seq(S), NEW k \in Nat, k >= Len(t)
  PROVE  Drop(t, k) = <<>>
BY SubSeqEmpty DEF Drop

(* Dropping twice.                                                         *)
LEMMA DropDrop ==
  ASSUME NEW S, NEW t \in Seq(S), NEW j \in Nat, NEW k \in Nat
  PROVE  Drop(Drop(t, j), k) = Drop(t, j + k)
<1> DEFINE d == Drop(t, j)  x == Drop(d, k)  y == Drop(t, j + k)
<1>0. Len(t) \in Nat /\ j + k \in Nat OBVIOUS
<1>1. /\ d \in Seq(S) /\ Len(d) = IF j <= Len(t) THEN Len(t) - j ELSE 0
      /\ \A i \in 1 .. Len(t) - j : d[i] = t[j + i]
  BY DropType
<1>2. /\ y \in Seq(S) /\ Len(y) = IF j + k <= Len(t) THEN Len(t) - (j + k) ELSE 0
      /\ \A i \in 1 .. Len(t) - (j + k) : y[i] = t[j + k + i]
  BY <1>0, DropType
<1> HIDE DEF d, y
<1>3. /\ x \in Seq(S) /\ Len(x) = IF k <= Len(d) THEN Len(d) - k ELSE 0
      /\ \A i \in 1 .. Len(d) - k : x[i] = d[k + i]
  BY <1>1, DropType
<1> HIDE DEF x
<1>4. Len(x) = Len(y) BY <1>0, <1>1, <1>2, <1>3
<1>5. ASSUME NEW i \in 1 .. Len(x) PROVE x[i] = y[i]
  <2>1. i \in 1 .. Len(d) - k /\ i \in 1 .. Len(t) - (j + k) /\ k + i \in 1 .. Len(t) - j
    BY <1>0, <1>1, <1>3
  <2>2. j + (k + i) = j + k + i BY <2>1
  <2>3. x[i] = t[j + (k + i)] BY <1>1, <1>3, <2>1
  <2> QED BY <1>2, <2>1, <2>2, <2>3
<1>6. x = y BY <1>2, <1>3, <1>4, <1>5, SeqEqual
<1> QED BY <1>6 DEF x, y, d

(* Concatenation is associative.                                           *)
LEMMA RegroupBytes ==
  \A a, b, d \in Seq(Byte) : (a \o b) \o d = a \o (b \o d)
BY ConcatAssociative

(* A string is its front and the rest.                                     *)
LEMMA FrontAndRest ==
  ASSUME NEW S, NEW t \in Seq(S), NEW k \in 0 .. Len(t)
  PROVE  /\ SubSeq(t, 1, k) \in Seq(S) /\ Len(SubSeq(t, 1, k)) = k
         /\ SubSeq(t, 1, k) \o Drop(t, k) = t
<1>1. SubSeq(t, 1, k) \in Seq(S) /\ Len(SubSeq(t, 1, k)) = k OBVIOUS
<1>2. SubSeq(t, 1, k) \o SubSeq(t, k + 1, Len(t)) = SubSeq(t, 1, Len(t))
  <2>1. 1 \in 1 .. Len(t) + 1 /\ k \in 1 - 1 .. Len(t) /\ Len(t) \in k .. Len(t) OBVIOUS
  <2> QED BY <2>1, ConcatAdjacentSubSeq
<1>3. SubSeq(t, 1, Len(t)) = t BY SubSeqFull
<1> QED BY <1>1, <1>2, <1>3 DEF Drop

(* A Buffer, and one that is not past its storage.                         *)
Buf == [storage : Storage \cup {Null}, offset : Nat]

Fits(b) == b.storage = Null \/ b.offset < Len(heap[b.storage]) \/ b.offset = 0

(* Buffer::remove_prefix() of no more than is there.                       *)
LEMMA DiscardIs ==
  ASSUME heap \in [Storage -> Seq(Byte)], NEW b \in Buf, Fits(b), NEW k \in Nat, k <= size(b)
  PROVE  /\ Discard(b, k) \in Buf /\ Fits(Discard(b, k))
         /\ Discard(b, k).storage \in {b.storage, Null}
         /\ str(Discard(b, k)) = Drop(str(b), k)
<1> DEFINE d == Discard(b, k)
<1>1. b = [storage |-> b.storage, offset |-> b.offset] /\ b.storage \in Storage \cup {Null}
      /\ b.offset \in Nat
  BY DEF Buf
<1>2. CASE b.storage = Null
  <2>1. d = [storage |-> Null, offset |-> b.offset + k] BY <1>1, <1>2 DEF Discard
  <2>2. str(b) = <<>> /\ str(d) = <<>> BY <1>2, <2>1 DEF str
  <2>3. Drop(<<>>, k) = <<>>
    <3>1. <<>> \in Seq(Byte) /\ k >= Len(<<>>) OBVIOUS
    <3> QED BY <3>1, DropAll
  <2>4. d \in Buf /\ Fits(d) /\ d.storage = Null BY <1>1, <2>1 DEF Buf, Fits
  <2> QED BY <2>2, <2>3, <2>4
<1>3. CASE b.storage # Null
  <2> DEFINE h == heap[b.storage]
  <2>1. h \in Seq(Byte) /\ Len(h) \in Nat BY <1>1, <1>3
  <2>2. str(b) = Drop(h, b.offset) BY <1>3 DEF str
  <2>3. b.offset <= Len(h)
    <3>1. CASE b.offset < Len(h) BY <1>1, <2>1, <3>1
    <3>2. CASE b.offset = 0 BY <2>1, <3>2
    <3> QED BY <1>3, <3>1, <3>2 DEF Fits
  <2>4. size(b) = Len(h) - b.offset
    <3> HIDE DEF h
    <3>1. Len(Drop(h, b.offset)) = Len(h) - b.offset BY <1>1, <2>1, <2>3, DropType
    <3> QED BY <2>2, <3>1 DEF size
  <2>5. b.offset + k <= Len(h) /\ b.offset + k \in Nat BY <1>1, <2>1, <2>4
  <2>6. Drop(str(b), k) = Drop(h, b.offset + k)
    <3> HIDE DEF h
    <3> QED BY <1>1, <2>1, <2>2, DropDrop
  <2>7. CASE b.offset + k = Len(h)
    <3>1. d = [storage |-> Null, offset |-> b.offset + k] BY <1>1, <1>3, <2>7 DEF Discard
    <3>2. str(d) = <<>> BY <3>1 DEF str
    <3>3. Drop(h, b.offset + k) = <<>>
      <4> HIDE DEF h
      <4> QED BY <2>1, <2>5, <2>7, DropAll
    <3>4. d \in Buf /\ Fits(d) /\ d.storage = Null BY <2>5, <3>1 DEF Buf, Fits
    <3> QED BY <2>6, <3>2, <3>3, <3>4
  <2>8. CASE b.offset + k # Len(h)
    <3>1. d = [storage |-> b.storage, offset |-> b.offset + k]
      BY <1>1, <1>3, <2>8 DEF Discard
    <3>2. str(d) = Drop(h, b.offset + k) BY <1>3, <3>1 DEF str
    <3>3. b.offset + k < Len(h) BY <2>1, <2>5, <2>8
    <3>4. Fits(d) BY <3>1, <3>3 DEF Fits
    <3>5. d \in Buf BY <1>1, <2>5, <3>1 DEF Buf
    <3>6. d.storage = b.storage BY <3>1
    <3> QED BY <2>6, <3>2, <3>4, <3>5, <3>6
  <2> QED BY <2>7, <2>8
<1> QED BY <1>2, <1>3

(* What a Buffer shows is a string of bytes.                               *)
LEMMA StrType ==
  ASSUME heap \in [Storage -> Seq(Byte)], NEW b \in Buf
  PROVE  str(b) \in Seq(Byte) /\ size(b) \in Nat
<1>1. b.storage \in Storage \cup {Null} /\ b.offset \in Nat BY DEF Buf
<1>2. CASE b.storage = Null BY <1>2 DEF str, size
<1>3. CASE b.storage # Null
  <2> DEFINE h == heap[b.storage]
  <2>1. h \in Seq(Byte) BY <1>1, <1>3
  <2> HIDE DEF h
  <2>2. Drop(h, b.offset) \in Seq(Byte) BY <1>1, <2>1, DropType
  <2>3. str(b) = Drop(h, b.offset) BY <1>3 DEF str, h
  <2> QED BY <2>2, <2>3 DEF size
<1> QED BY <1>2, <1>3
-----------------------------------------------------------------------------
(* add() over the first k bytes of a string, and over all of it.           *)
LEMMA AddIsSum ==
  ASSUME NEW init, NEW d \in Seq(Byte)
  PROVE  /\ \A k : add(NewChecksum(init), SubSeq(d, 1, k)) = SumOf(init, d, k)
         /\ value(add(NewChecksum(init), d)) = WordMod - 1 - Folded[Total(init, d)]
<1>1. \A k : add(NewChecksum(init), SubSeq(d, 1, k)) = SumOf(init, d, k) BY AddIsFold DEF SumOf
<1>2. SubSeq(d, 1, Len(d)) = d BY SubSeqFull
<1>3. add(NewChecksum(init), d) = SumOf(init, d, Len(d)) BY <1>1, <1>2
<1> QED BY <1>1, <1>3 DEF value, Total

(* value() is 0 exactly for a sealed string.                               *)
LEMMA ValueZero ==
  ASSUME NEW init \in 0 .. SumMod - 1, NEW d \in Seq(Byte)
  PROVE  value(add(NewChecksum(init), d)) = 0 <=> Sealed(init, d)
<1>1. Total(init, d) \in 0 .. SumMod - 1 BY TotalType
<1>2. Folded[Total(init, d)] \in 0 .. WordMod - 1 BY <1>1, FoldedIs
<1>3. value(add(NewChecksum(init), d)) = WordMod - 1 - Folded[Total(init, d)] BY AddIsSum
<1> QED BY <1>2, <1>3, WordFacts DEF Sealed

(* The two bytes of the checksum field.                                    *)
LEMMA FieldIs ==
  ASSUME NEW v \in 0 .. WordMod - 1
  PROVE  /\ unparse_int(2, v) = <<v \div ByteMod, v % ByteMod>>
         /\ v \div ByteMod \in Byte /\ v % ByteMod \in Byte
         /\ v = ((v \div ByteMod) * ByteMod) + (v % ByteMod)
<1> DEFINE q == v \div ByteMod  u == v % ByteMod  f == unparse_int(2, v)
<1>0. ByteMod \in Nat /\ ByteMod >= 2 /\ v \in Int /\ v \in Nat /\ WordMod = ByteMod * ByteMod
      /\ WordMod \in Nat
  BY WordFacts
<1>1. q \in Int /\ u \in 0 .. ByteMod - 1 /\ ByteMod * q \in Int /\ v = (ByteMod * q) + u
  BY <1>0, DivMod
<1>2. f \in Seq(Byte) /\ Len(f) = 2
      /\ \A i \in 1 .. 2 : f[i] = (v \div Shift(2 - i)) % ByteMod
  <2>1. 2 \in Widths BY DEF Widths
  <2> QED BY <1>0, <2>1, UnparseType
<1>3. f[1] = q % ByteMod /\ f[2] = u
  <2>1. 2 - 1 = 1 /\ 2 - 2 = 0 /\ 1 \in 1 .. 2 /\ 2 \in 1 .. 2 OBVIOUS
  <2>2. f[1] = (v \div Shift(1)) % ByteMod /\ f[2] = (v \div Shift(0)) % ByteMod BY <1>2, <2>1
  <2>3. 0 \in Byte BY <1>0 DEF Byte
  <2>4. v \div Shift(0) = v BY <1>0, <2>3, Digits
  <2>5. Shift(1) = ByteMod BY ShiftIs
  <2> QED BY <2>2, <2>4, <2>5
<1> HIDE DEF q, u, f
<1>4. q \in Byte
  <2>1. q >= 0
    <3> SUFFICES ASSUME q <= 0 - 1 PROVE FALSE BY <1>1
    <3>1. ByteMod * (0 - q) >= ByteMod /\ ByteMod * (0 - q) = 0 - (ByteMod * q) BY <1>0, <1>1
    <3> QED BY <1>0, <1>1, <3>1
  <2>2. q <= ByteMod - 1
    <3> SUFFICES ASSUME q >= ByteMod PROVE FALSE BY <1>0, <1>1
    <3>1. ByteMod * (q - ByteMod) >= 0 /\ ByteMod * (q - ByteMod) = (ByteMod * q) - (ByteMod * ByteMod)
      BY <1>0, <1>1
    <3>2. v <= (ByteMod * ByteMod) - 1 /\ ByteMod * ByteMod \in Int BY <1>0
    <3> QED BY <1>0, <1>1, <3>1, <3>2
  <2> QED BY <1>0, <1>1, <2>1, <2>2 DEF Byte
<1>5. q % ByteMod = q
  <2>1. q \in 0 .. ByteMod - 1 BY <1>4 DEF Byte
  <2>2. ((ByteMod * 0) + q) % ByteMod = q BY <1>0, <2>1, DivModUnique
  <2>3. (ByteMod * 0) + q = q BY <1>0, <1>1
  <2> QED BY <2>2, <2>3
<1>6. f = <<q, u>>
  <2>1. <<q, u>> \in Seq(Byte) /\ Len(<<q, u>>) = 2 /\ <<q, u>>[1] = q /\ <<q, u>>[2] = u
    BY <1>1, <1>4 DEF Byte
  <2>2. \A i \in 1 .. 2 : i = 1 \/ i = 2 OBVIOUS
  <2> DEFINE g == <<q, u>>
  <2> HIDE DEF g
  <2>3. g \in Seq(Byte) /\ Len(g) = 2 /\ \A i \in 1 .. 2 : g[i] = f[i]
    BY <1>3, <1>5, <2>1, <2>2 DEF g
  <2>4. f = g BY <1>2, <2>3, SeqEqual
  <2> QED BY <2>4 DEF g
<1>7. v = (q * ByteMod) + u BY <1>0, <1>1
<1> QED BY <1>1, <1>4, <1>6, <1>7 DEF q, u, f, Byte

(* Filling the checksum field in changes its two bytes, ...                *)
LEMMA SealFills ==
  ASSUME NEW d \in Seq(Byte), 2 <= Len(d),
         NEW v \in 0 .. WordMod - 1, NEW t, t = unparse_int(2, v) \o Drop(d, 2)
  PROVE  /\ v \div ByteMod \in Byte /\ v % ByteMod \in Byte
         /\ v = ((v \div ByteMod) * ByteMod) + (v % ByteMod)
         /\ t = [[d EXCEPT ![1] = v \div ByteMod] EXCEPT ![2] = v % ByteMod]
         /\ t \in Seq(Byte) /\ Len(t) = Len(d)
<1> DEFINE q == v \div ByteMod  u == v % ByteMod
           d1 == [d EXCEPT ![1] = q]  d2 == [d1 EXCEPT ![2] = u]
<1>0. Len(d) \in Nat OBVIOUS
<1>1. unparse_int(2, v) = <<q, u>> /\ q \in Byte /\ u \in Byte /\ v = (q * ByteMod) + u
  BY FieldIs
<1>2. t = <<q, u>> \o Drop(d, 2) BY <1>1
<1> HIDE DEF q, u
<1>3. 1 \in 1 .. Len(d) /\ 2 \in 1 .. Len(d) BY <1>0
<1>4. d1 \in Seq(Byte) /\ Len(d1) = Len(d) BY <1>1, <1>3
<1>5. d1[1] = q /\ \A i \in 3 .. Len(d) : d1[i] = d[i] BY <1>3
<1> HIDE DEF d1
<1>6. d2 \in Seq(Byte) /\ Len(d2) = Len(d) BY <1>1, <1>3, <1>4
<1>7. d2[2] = u /\ d2[1] = q /\ \A i \in 3 .. Len(d) : d2[i] = d[i] BY <1>3, <1>4, <1>5
<1> HIDE DEF d2
<1>8. t = d2
  <2> DEFINE f == <<q, u>>  r == Drop(d, 2)  g == f \o r
  <2>1. f \in Seq(Byte) /\ Len(f) = 2 /\ f[1] = q /\ f[2] = u BY <1>1
  <2>2. r \in Seq(Byte) /\ Len(r) = Len(d) - 2 /\ \A i \in 1 .. Len(d) - 2 : r[i] = d[2 + i]
    BY DropType
  <2> HIDE DEF f, r
  <2>3. g \in Seq(Byte) /\ Len(g) = Len(f) + Len(r)
        /\ \A i \in 1 .. Len(f) + Len(r) : g[i] = IF i <= Len(f) THEN f[i] ELSE r[i - Len(f)]
    BY <2>1, <2>2, ConcatProperties
  <2> HIDE DEF g
  <2>4. Len(g) = Len(d) BY <1>0, <2>1, <2>2, <2>3
  <2>5. ASSUME NEW i \in 1 .. Len(d) PROVE g[i] = d2[i]
    <3>1. g[i] = IF i <= 2 THEN f[i] ELSE r[i - 2] BY <1>0, <2>1, <2>2, <2>3
    <3>2. CASE i = 1 BY <1>7, <2>1, <3>1, <3>2
    <3>3. CASE i = 2 BY <1>7, <2>1, <3>1, <3>3
    <3>4. CASE i > 2
      <4>1. i - 2 \in 1 .. Len(d) - 2 /\ 2 + (i - 2) = i /\ i \in 3 .. Len(d) /\ ~ (i <= 2)
        BY <1>0, <3>4
      <4> QED BY <1>7, <2>2, <3>1, <4>1
    <3> QED BY <1>0, <3>2, <3>3, <3>4
  <2>6. g = d2 BY <1>6, <2>3, <2>4, <2>5, SeqEqual
  <2> QED BY <1>2, <1>1, <2>6 DEF f, r, g
<1> QED BY <1>1, <1>6, <1>8 DEF d2, d1, q, u

(* ... and seals the string.                                               *)
LEMMA SealMakes ==
  ASSUME NEW init \in 0 .. SumMod - 1, NEW d \in Seq(Byte), 2 <= Len(d), d[1] = 0, d[2] = 0,
         NEW t, t = unparse_int(2, value(add(NewChecksum(init), d))) \o Drop(d, 2)
  PROVE  t \in Seq(Byte) /\ Len(t) = Len(d) /\ (SumFits(init, Len(d)) => Sealed(init, t))
<1> DEFINE S == Total(init, d)  v == WordMod - 1 - Folded[S]
<1>0. WordMod \in Nat /\ SumMod \in Nat /\ Len(d) \in Nat /\ ByteMod \in Nat /\ init \in Nat
  BY WordFacts
<1>1. S \in 0 .. SumMod - 1 /\ Folded[S] \in 0 .. WordMod - 1
  <2>1. S \in 0 .. SumMod - 1 BY TotalType
  <2> HIDE DEF S
  <2> QED BY <2>1, FoldedIs
<1>2. v \in 0 .. WordMod - 1
  <2> HIDE DEF S
  <2> QED BY <1>0, <1>1
<1>3. t = unparse_int(2, v) \o Drop(d, 2) BY AddIsSum
<1> HIDE DEF v
<1> DEFINE q == v \div ByteMod  u == v % ByteMod
           d1 == [d EXCEPT ![1] = q]  d2 == [d1 EXCEPT ![2] = u]
<1>4. t = d2 /\ t \in Seq(Byte) /\ Len(t) = Len(d) BY <1>2, <1>3, SealFills
<1>5. q \in Byte /\ u \in Byte /\ v = (q * ByteMod) + u BY <1>2, <1>3, SealFills
<1> HIDE DEF q, u
<1> SUFFICES ASSUME SumFits(init, Len(d)) PROVE Sealed(init, t) BY <1>4
<1>6. 1 \in 1 .. Len(d) /\ 2 \in 1 .. Len(d) BY <1>0
<1>7. /\ d1 \in Seq(Byte) /\ Len(d1) = Len(d)
      /\ SumOf(init, d1, Len(d)).sum
           = SumOf(init, d, Len(d)).sum
               + (Weighed(SumOf(init, d, 1 - 1), q) - Weighed(SumOf(init, d, 1 - 1), d[1]))
  BY <1>5, <1>6, SumChanges
<1>8. d1[2] = 0 BY <1>6
<1> HIDE DEF d1
<1>9. /\ d2 \in Seq(Byte) /\ Len(d2) = Len(d)
      /\ SumOf(init, d2, Len(d)).sum
           = SumOf(init, d1, Len(d)).sum
               + (Weighed(SumOf(init, d1, 2 - 1), u) - Weighed(SumOf(init, d1, 2 - 1), d1[2]))
  <2>1. 2 \in 1 .. Len(d1) /\ SumFits(init, Len(d1)) BY <1>6, <1>7
  <2> QED BY <1>5, <1>7, <2>1, SumChanges
<1> HIDE DEF d2
<1>10. SumOf(init, d, 0).parity = FALSE /\ SumOf(init, d1, 0).parity = FALSE
  <2>1. SumOf(init, d, 0) = [sum |-> init, parity |-> FALSE] BY SumStart DEF NewChecksum
  <2>2. SumOf(init, d1, 0) = [sum |-> init, parity |-> FALSE] BY <1>7, SumStart DEF NewChecksum
  <2> QED BY <2>1, <2>2
<1>11. SumOf(init, d1, 1).parity = TRUE
  <2>1. 0 \in 0 .. Len(d1) - 1 /\ SumFits(init, Len(d1)) /\ 0 + 1 = 1 BY <1>0, <1>7
  <2>2. SumOf(init, d1, 0 + 1).parity = ~ SumOf(init, d1, 0).parity BY <1>0, <1>7, <2>1, SumNext
  <2> QED BY <1>10, <2>1, <2>2
<1>12. SumOf(init, d1, Len(d)).sum = S + (q * ByteMod)
  <2>1. 1 - 1 = 0 /\ 0 * ByteMod = 0 BY <1>0
  <2>2. Weighed(SumOf(init, d, 0), q) = q * ByteMod /\ Weighed(SumOf(init, d, 0), 0) = 0
    BY <1>10, <2>1 DEF Weighed
  <2>3. q * ByteMod \in Int BY <1>0, <1>5 DEF Byte
  <2>4. SumOf(init, d, Len(d)).sum = S BY DEF Total
  <2> HIDE DEF S
  <2> QED BY <1>0, <1>1, <1>7, <2>1, <2>2, <2>3, <2>4
<1>13. SumOf(init, d2, Len(d)).sum = (S + (q * ByteMod)) + u
  <2>1. 2 - 1 = 1 OBVIOUS
  <2>2. Weighed(SumOf(init, d1, 1), u) = u /\ Weighed(SumOf(init, d1, 1), 0) = 0 BY <1>11 DEF Weighed
  <2>3. q * ByteMod \in Int /\ u \in Int BY <1>0, <1>5 DEF Byte
  <2> HIDE DEF S
  <2> QED BY <1>0, <1>1, <1>8, <1>9, <1>12, <2>1, <2>2, <2>3
<1>14. Total(init, d2) = S + v
  <2>1. q * ByteMod \in Int /\ u \in Int BY <1>0, <1>5 DEF Byte
  <2>2. Total(init, d2) = SumOf(init, d2, Len(d)).sum BY <1>9 DEF Total
  <2> HIDE DEF S
  <2> QED BY <1>0, <1>1, <1>5, <1>13, <2>1, <2>2
<1>15. Total(init, d2) \in 0 .. SumMod - 1 BY <1>9, TotalType
<1>16. Sealed(init, d2)
  <2>1. Folded[S] + v = WordMod - 1 BY <1>0, <1>1 DEF v
  <2> HIDE DEF S
  <2>2. S \in Nat BY <1>0, <1>1
  <2>3. S + v \in 0 .. SumMod - 1 BY <1>14, <1>15
  <2>4. Folded[S + v] = OnesAdd(Folded[S], v) BY <1>2, <2>2, <2>3, FoldedAdd
  <2>5. OnesAdd(Folded[S], v) = WordMod - 1 BY <1>0, <2>1 DEF OnesAdd
  <2> QED BY <1>14, <2>4, <2>5 DEF Sealed
<1> QED BY <1>4, <1>16
-----------------------------------------------------------------------------
(* The place that Receive chooses.                                         *)
Place == CHOOSE x \in Storage : TRUE

(* It is a place on the heap.                                              *)
LEMMA PlaceIs == Place \in Storage /\ Place # Null
BY SegmentAssumption, BufferAssumption DEF Place

(* The inductive invariant: types and sizes; ...                           *)
Types ==
  /\ heap \in [Storage -> Seq(Byte)] /\ buffer \in Buf /\ received \in Buf
  /\ error \in {"NoError", "PacketTooShort", "BadChecksum", "Unsupported"}
  /\ phase \in {"build", "sent", "check", "parse"} /\ damage \in {"none", "byte", "cut"}
  /\ initial \in 0 .. SumMod - 1
  /\ s \in Seq(Byte) /\ 2 <= Len(s)
  /\ consumed \in Seq(Byte) /\ at \in Nat

(* ... the sender works on a zero field, the receiver has nothing yet; ... *)
Sending ==
  phase \in {"build", "sent"} =>
    /\ received = EmptyBuffer /\ damage = "none" /\ at = 0
    /\ error = "NoError" /\ consumed = <<>>
    /\ phase = "build" => s[1] = 0 /\ s[2] = 0

(* ... what is sent is sealed, if its sum could not wrap; ...              *)
SentSealed == phase # "build" /\ SumFits(initial, Len(s)) => Sealed(initial, s)

(* ... the receiver has it, intact or damaged; ...                         *)
Arrived ==
  phase \in {"check", "parse"} =>
    /\ received = BufferOn(Place)
    /\ damage = "none" => heap[Place] = s
    /\ damage = "byte" => \E i \in 1 .. Len(s), y \in Byte :
                            y # s[i] /\ heap[Place] = [s EXCEPT ![i] = y]

(* ... the chunks added so far count as one add(); ...                     *)
Added ==
  /\ at <= size(received)
  /\ c = add(NewChecksum(initial), SubSeq(str(received), 1, at))

(* ... nothing is parsed before the checksum is judged; ...                *)
Checking == phase = "check" => buffer = received /\ error = "NoError" /\ consumed = <<>>

(* ... and then the error tells the verdict, and no byte gets lost.        *)
Parsing ==
  phase = "parse" =>
    /\ at = size(received) /\ Fits(buffer) /\ consumed \o str(buffer) = str(received)
    /\ value(c) # 0 => error # "NoError" /\ consumed = <<>>
    /\ error = "BadChecksum" => value(c) # 0

IInv == Types /\ Sending /\ SentSealed /\ Arrived /\ Added /\ Checking /\ Parsing
-----------------------------------------------------------------------------
(* The strings of Buffers that are empty or new.                           *)
LEMMA EmptyStr == str(EmptyBuffer) = <<>> /\ size(EmptyBuffer) = 0 /\ EmptyBuffer \in Buf
BY DEF EmptyBuffer, str, size, Buf

(* A new Buffer shows all of its storage.                                  *)
LEMMA NewStr ==
  ASSUME heap \in [Storage -> Seq(Byte)]
  PROVE  str(BufferOn(Place)) = heap[Place] /\ BufferOn(Place) \in Buf /\ Fits(BufferOn(Place))
<1>1. BufferOn(Place) = [storage |-> Place, offset |-> 0] BY DEF BufferOn
<1>2. heap[Place] \in Seq(Byte) BY PlaceIs
<1>3. Drop(heap[Place], 0) = heap[Place] BY <1>2, DropNone
<1> QED BY <1>1, <1>3, PlaceIs DEF str, Buf, Fits

(* The invariant holds of the zero field the sender starts from.           *)
LEMMA InitIInv == Init => IInv
<1> SUFFICES ASSUME Init PROVE IInv OBVIOUS
<1> USE DEF Init
<1>0. WordMod \in Nat /\ WordMod >= 4 BY WordFacts
<1>1. s = <<0 \div ByteMod, 0 % ByteMod>> /\ 0 \div ByteMod \in Byte /\ 0 % ByteMod \in Byte
  <2>1. 0 \in 0 .. WordMod - 1 BY <1>0
  <2> QED BY <2>1, FieldIs
<1>2. 0 \div ByteMod = 0 /\ 0 % ByteMod = 0
  <2>1. ByteMod \in Nat /\ ByteMod > 0 /\ 0 \in 0 .. ByteMod - 1 /\ (ByteMod * 0) + 0 = 0 BY WordFacts
  <2>2. ((ByteMod * 0) + 0) \div ByteMod = 0 /\ ((ByteMod * 0) + 0) % ByteMod = 0
    BY <2>1, DivModUnique
  <2> QED BY <2>1, <2>2
<1>3. s = <<0, 0>> /\ 0 \in Byte BY <1>1, <1>2
<1>4. s \in Seq(Byte) /\ Len(s) = 2 /\ s[1] = 0 /\ s[2] = 0
  <2> HIDE DEF Init
  <2> QED BY <1>3
<1>5. heap \in [Storage -> Seq(Byte)]
  <2>1. <<>> \in Seq(Byte) OBVIOUS
  <2> QED BY <2>1
<1>8. /\ buffer = EmptyBuffer /\ received = EmptyBuffer /\ error = "NoError" /\ phase = "build"
      /\ damage = "none" /\ initial \in 0 .. SumMod - 1 /\ consumed = <<>> /\ at = 0
      /\ c = NewChecksum(initial)
  OBVIOUS
<1> HIDE DEF Init
<1>6. Types
  <2>1. <<>> \in Seq(Byte) OBVIOUS
  <2> QED BY <1>8, <1>4, <1>5, <2>1, EmptyStr DEF Types
<1>7. Added
  <2>1. SubSeq(<<>>, 1, 0) = <<>> OBVIOUS
  <2>2. add(NewChecksum(initial), <<>>) = NewChecksum(initial) BY AddIsFold, FoldEmpty
  <2>3. str(received) = <<>> /\ size(received) = 0 BY <1>8, EmptyStr
  <2>4. SubSeq(str(received), 1, at) = <<>> BY <1>8, <2>1, <2>3
  <2>5. c = add(NewChecksum(initial), SubSeq(str(received), 1, at)) BY <1>8, <2>2, <2>4
  <2>6. at <= size(received) BY <1>8, <2>3
  <2> QED BY <2>5, <2>6 DEF Added
<1> QED BY <1>8, <1>4, <1>6, <1>7 DEF IInv, Sending, SentSealed, Arrived, Checking, Parsing

(* NetUnparser appends; the field stays zero.                              *)
LEMMA UnparseKeeps ==
  ASSUME IInv, NEW len \in Widths, NEW val \in 0 .. Shift(len) - 1, Unparse(len, val)
  PROVE  IInv'
<1> DEFINE u == unparse_int(len, val)
<1>1. /\ phase = "build" /\ Len(s) + len <= MaxPacket /\ s' = s \o u
      /\ UNCHANGED <<heap, buffer, error, phase, initial, received, damage, c, at, consumed>>
  BY DEF Unparse, parserVars
<1>2. val \in Int OBVIOUS
<1>3. u \in Seq(Byte) /\ Len(u) = len BY <1>2, UnparseType
<1> HIDE DEF u
<1>4. s \in Seq(Byte) /\ 2 <= Len(s) /\ s[1] = 0 /\ s[2] = 0 BY <1>1 DEF IInv, Types, Sending
<1>5. /\ s' \in Seq(Byte) /\ Len(s') = Len(s) + Len(u)
      /\ \A i \in 1 .. Len(s) + Len(u) : s'[i] = IF i <= Len(s) THEN s[i] ELSE u[i - Len(s)]
  BY <1>1, <1>3, <1>4, ConcatProperties
<1>6. s'[1] = 0 /\ s'[2] = 0
  <2>1. 1 \in 1 .. Len(s) + Len(u) /\ 2 \in 1 .. Len(s) + Len(u) /\ 1 <= Len(s) BY <1>3, <1>4
  <2> QED BY <1>4, <1>5, <2>1
<1>7. 2 <= Len(s') BY <1>3, <1>4, <1>5
<1>8. Types' BY <1>1, <1>5, <1>7 DEF IInv, Types, Buf
<1>9. Sending' BY <1>1, <1>6 DEF IInv, Sending, EmptyBuffer
<1>10. Added' BY <1>1 DEF IInv, Added, str, size
<1> QED BY <1>1, <1>8, <1>9, <1>10 DEF IInv, SentSealed, Arrived, Checking, Parsing

(* The sender fills the field in: SealMakes.                               *)
LEMMA SealKeeps ==
  ASSUME IInv, Seal
  PROVE  IInv'
<1>1. /\ phase = "build" /\ phase' = "sent"
      /\ s' = unparse_int(2, value(add(NewChecksum(initial), s))) \o Drop(s, 2)
      /\ UNCHANGED <<heap, buffer, error, initial, received, damage, c, at, consumed>>
  BY DEF Seal, parserVars
<1>2. s \in Seq(Byte) /\ 2 <= Len(s) /\ s[1] = 0 /\ s[2] = 0 /\ initial \in 0 .. SumMod - 1
  BY <1>1 DEF IInv, Types, Sending
<1>3. s' \in Seq(Byte) /\ Len(s') = Len(s) /\ (SumFits(initial, Len(s)) => Sealed(initial, s'))
  BY <1>1, <1>2, SealMakes
<1>4. Types' BY <1>1, <1>2, <1>3 DEF IInv, Types, Buf
<1>5. Sending' BY <1>1 DEF IInv, Sending, EmptyBuffer
<1>6. Added' BY <1>1 DEF IInv, Added, str, size
<1>7. SentSealed'
  <2>1. Sealed(initial, s)' = Sealed(initial, s') BY <1>1 DEF Sealed, Total, SumOf
  <2>2. SumFits(initial, Len(s))' = SumFits(initial, Len(s)) BY <1>1, <1>3 DEF SumFits
  <2> QED BY <1>3, <2>1, <2>2 DEF SentSealed
<1> QED BY <1>1, <1>4, <1>5, <1>6, <1>7 DEF IInv, Arrived, Checking, Parsing

(* A segment arrives: data is what was sent, or what became of it.         *)
LEMMA ReceiveKeeps ==
  ASSUME IInv, NEW data \in Seq(Byte), NEW what \in {"none", "byte", "cut"}, Receive(data, what),
         what = "none" => data = s,
         what = "byte" => \E i \in 1 .. Len(s), y \in Byte : y # s[i] /\ data = [s EXCEPT ![i] = y]
  PROVE  IInv'
<1>1. /\ phase = "sent" /\ phase' = "check" /\ heap' = [heap EXCEPT ![Place] = data]
      /\ received' = BufferOn(Place) /\ buffer' = BufferOn(Place) /\ damage' = what
      /\ UNCHANGED <<error, initial, s, c, at, consumed>>
  BY DEF Receive, Place
<1>2. heap \in [Storage -> Seq(Byte)] BY DEF IInv, Types
<1>3. heap' \in [Storage -> Seq(Byte)] /\ heap'[Place] = data BY <1>1, <1>2, PlaceIs
<1>4. error = "NoError" /\ at = 0 /\ consumed = <<>> /\ received = EmptyBuffer
  BY <1>1 DEF IInv, Sending
<1>5. BufferOn(Place) \in Buf BY <1>2, NewStr
<1>6. Types' BY <1>1, <1>3, <1>5 DEF IInv, Types, Buf
<1>7. str(received)' = data
  <2>1. received' = [storage |-> Place, offset |-> 0] BY <1>1 DEF BufferOn
  <2>2. str(received)' = Drop(data, 0) BY <1>3, <2>1, PlaceIs DEF str, Drop
  <2> QED BY <2>2, DropNone
<1>8. Added'
  <2>1. c = add(NewChecksum(initial), SubSeq(<<>>, 1, 0))
    BY <1>4, EmptyStr DEF IInv, Added
  <2>2. SubSeq(<<>>, 1, 0) = <<>> /\ SubSeq(data, 1, 0) = <<>> /\ 0 <= Len(data) OBVIOUS
  <2>3. c' = add(NewChecksum(initial), SubSeq(data, 1, 0)) BY <1>1, <2>1, <2>2
  <2>4. size(received)' = Len(data) BY <1>7 DEF size
  <2>5. add(NewChecksum(initial), SubSeq(str(received), 1, at))'
          = add(NewChecksum(initial), SubSeq(data, 1, 0))
    BY <1>1, <1>4, <1>7 DEF add, NewChecksum
  <2> QED BY <1>1, <1>4, <2>2, <2>3, <2>4, <2>5 DEF Added
<1>9. Arrived' BY <1>1, <1>3 DEF Arrived, BufferOn
<1>10. SentSealed' BY <1>1 DEF IInv, SentSealed, Sealed, Total, SumOf, SumFits
<1>11. Checking' BY <1>1, <1>4 DEF Checking
<1> QED BY <1>1, <1>6, <1>8, <1>9, <1>10, <1>11 DEF IInv, Sending, Parsing

(* A chunk more: two calls of add() are one on the joined bytes.           *)
LEMMA AddsChunkKeeps ==
  ASSUME IInv, NEW k \in 1 .. MaxPacket, AddsChunk(k)
  PROVE  IInv'
<1> DEFINE d == str(received)  a == SubSeq(d, 1, at)  b == SubSeq(d, at + 1, at + k)
<1>1. /\ phase = "check" /\ at + k <= size(received) /\ c' = add(c, b) /\ at' = at + k
      /\ UNCHANGED <<heap, buffer, error, phase, initial, s, received, damage, consumed>>
  BY DEF AddsChunk, parserVars
<1>2. d \in Seq(Byte) /\ size(received) = Len(d) /\ at \in Nat /\ Len(d) \in Nat /\ k \in Nat
  <2>1. d \in Seq(Byte) BY StrType DEF IInv, Types
  <2>2. k \in Nat /\ at \in Nat BY SegmentAssumption DEF IInv, Types
  <2> QED BY <2>1, <2>2 DEF size
<1>3. c = add(NewChecksum(initial), a) BY DEF IInv, Added
<1>4. str(received)' = d /\ size(received)' = Len(d) BY <1>1, <1>2 DEF str, size
<1> HIDE DEF d
<1>5. at <= Len(d) /\ at + k <= Len(d) /\ at + k \in Nat BY <1>1, <1>2
<1>6. a \in Seq(Byte) /\ b \in Seq(Byte) /\ a \o b = SubSeq(d, 1, at + k)
  <2>1. a \in Seq(Byte) BY <1>2, <1>5
  <2>2. b \in Seq(Byte)
    <3>1. \A i \in at + 1 .. at + k : d[i] \in Byte BY <1>2, <1>5
    <3>2. at + 1 \in Int /\ at + k \in Int BY <1>2
    <3> QED BY <3>1, <3>2, SubSeqProperties
  <2>3. 1 \in 1 .. Len(d) + 1 /\ at \in 1 - 1 .. Len(d) /\ at + k \in at .. Len(d) BY <1>2, <1>5
  <2>4. a \o b = SubSeq(d, 1, at + k) BY <1>2, <2>3, ConcatAdjacentSubSeq
  <2> QED BY <2>1, <2>2, <2>4
<1> HIDE DEF a, b
<1>7. add(add(NewChecksum(initial), a), b) = add(NewChecksum(initial), a \o b)
  <2>1. Fold("add", NewChecksum(initial), a \o b)
          = Fold("add", Fold("add", NewChecksum(initial), a), b)
    <3>1. a \in Seq(Byte) /\ b \in Seq(Byte) BY <1>6
    <3> QED BY <3>1, FoldConcat
  <2> QED BY <2>1, AddIsFold
<1>8. c' = add(NewChecksum(initial), SubSeq(d, 1, at + k)) BY <1>1, <1>3, <1>6, <1>7
<1>9. Added'
  <2>1. add(NewChecksum(initial), SubSeq(str(received), 1, at))'
          = add(NewChecksum(initial), SubSeq(d, 1, at + k))
    BY <1>1, <1>4 DEF add, NewChecksum
  <2> QED BY <1>1, <1>4, <1>5, <1>8, <2>1 DEF Added
<1>10. Types' BY <1>1, <1>5 DEF IInv, Types, Buf
<1>11. SentSealed' BY <1>1 DEF IInv, SentSealed, Sealed, Total, SumOf, SumFits
<1>12. Arrived' BY <1>1 DEF IInv, Arrived, BufferOn
<1>13. Checking' BY <1>1 DEF IInv, Checking
<1> QED BY <1>1, <1>9, <1>10, <1>11, <1>12, <1>13 DEF IInv, Sending, Parsing

(* What a step of the parser leaves alone.                                 *)
LEMMA ParserKeeps ==
  ASSUME IInv, phase \in {"check", "parse"}, phase' = "parse",
         UNCHANGED <<heap, initial, s, received, damage, c, at>>,
         buffer' \in Buf, consumed' \in Seq(Byte),
         error' \in {"NoError", "PacketTooShort", "BadChecksum", "Unsupported"},
         Parsing'
  PROVE  IInv'
<1>1. Types' BY DEF IInv, Types, Buf
<1>2. Added' BY DEF IInv, Added, str, size
<1>3. SentSealed' BY DEF IInv, SentSealed, Sealed, Total, SumOf, SumFits
<1>4. Arrived' BY DEF IInv, Arrived, BufferOn
<1> QED BY <1>1, <1>2, <1>3, <1>4 DEF IInv, Sending, Checking

(* The verdict goes into the error.                                        *)
LEMMA JudgesKeeps ==
  ASSUME IInv, Judges
  PROVE  IInv'
<1>1. /\ phase = "check" /\ phase' = "parse" /\ at = size(received)
      /\ UNCHANGED <<heap, initial, s, received, damage, c, at, consumed, buffer>>
      /\ error' = IF value(c) = 0 THEN error ELSE "BadChecksum"
  BY DEF Judges, parserVars, set_error
<1>2. buffer = received /\ error = "NoError" /\ consumed = <<>> /\ received = BufferOn(Place)
      /\ heap \in [Storage -> Seq(Byte)] /\ buffer \in Buf
  BY <1>1 DEF IInv, Types, Checking, Arrived
<1>3. Fits(buffer) /\ str(received) = heap[Place] /\ heap[Place] \in Seq(Byte)
  BY <1>2, NewStr, PlaceIs
<1>4. <<>> \o heap[Place] = heap[Place] /\ <<>> \in Seq(Byte) BY <1>3
<1>5. consumed \o str(buffer) = str(received) BY <1>2, <1>3, <1>4
<1>6. Parsing'
  <2>1. str(buffer)' = str(buffer) /\ str(received)' = str(received)
        /\ size(received)' = size(received)
    BY <1>1 DEF str, size
  <2>2. Fits(buffer)' BY <1>1, <1>3 DEF Fits
  <2>3. value(c)' = value(c) BY <1>1 DEF value
  <2> QED BY <1>1, <1>2, <1>5, <2>1, <2>2, <2>3 DEF Parsing
<1>7. error' \in {"NoError", "PacketTooShort", "BadChecksum", "Unsupported"} BY <1>1, <1>2
<1> QED BY <1>1, <1>2, <1>4, <1>6, <1>7, ParserKeeps

(* Taking n bytes off the front, whoever reads them.                       *)
LEMMA TakeKeeps ==
  ASSUME IInv, phase = "parse", NEW n \in Nat, Take(n),
         consumed' = IF error' = "NoError" THEN consumed \o SubSeq(str(buffer), 1, n) ELSE consumed,
         UNCHANGED <<heap, phase, initial, s, received, damage, c, at>>
  PROVE  IInv'
<1>1. /\ error' = IF n > size(buffer) THEN "PacketTooShort" ELSE error
      /\ buffer' = IF error' = "NoError" THEN Discard(buffer, n) ELSE buffer
  BY DEF Take, check_size
<1>2. /\ heap \in [Storage -> Seq(Byte)] /\ buffer \in Buf /\ consumed \in Seq(Byte)
      /\ error \in {"NoError", "PacketTooShort", "BadChecksum", "Unsupported"}
      /\ at = size(received) /\ Fits(buffer) /\ consumed \o str(buffer) = str(received)
      /\ value(c) # 0 => error # "NoError" /\ consumed = <<>>
      /\ error = "BadChecksum" => value(c) # 0
  BY DEF IInv, Types, Parsing
<1>3. str(received)' = str(received) /\ size(received)' = size(received) /\ value(c)' = value(c)
  BY DEF str, size, value
<1>4. error' \in {"NoError", "PacketTooShort", "BadChecksum", "Unsupported"} BY <1>1, <1>2
<1>5. CASE error' = "NoError"
  <2> DEFINE d == str(buffer)  front == SubSeq(d, 1, n)
  <2>1. error = "NoError" /\ ~ (n > size(buffer)) BY <1>1, <1>5
  <2>2. d \in Seq(Byte) /\ size(buffer) = Len(d) /\ Len(d) \in Nat
    <3>1. d \in Seq(Byte) BY <1>2, StrType
    <3> QED BY <3>1 DEF size
  <2>3. n <= size(buffer) BY <2>1, <2>2
  <2>4. Discard(buffer, n) \in Buf /\ Fits(Discard(buffer, n)) /\ str(Discard(buffer, n)) = Drop(d, n)
    BY <1>2, <2>3, DiscardIs
  <2>5. buffer' = Discard(buffer, n) /\ consumed' = consumed \o front BY <1>1, <1>5
  <2>6. str(buffer)' = Drop(d, n) BY <2>4, <2>5 DEF str
  <2>7. Fits(buffer)' BY <2>4, <2>5 DEF Fits
  <2> HIDE DEF d
  <2>8. front \in Seq(Byte) /\ front \o Drop(d, n) = d /\ Drop(d, n) \in Seq(Byte)
    <3>1. n \in 0 .. Len(d) BY <2>2, <2>3
    <3>2. front \in Seq(Byte) /\ front \o Drop(d, n) = d BY <2>2, <3>1, FrontAndRest
    <3>3. Drop(d, n) \in Seq(Byte) BY <2>2, DropType
    <3> QED BY <3>2, <3>3
  <2> HIDE DEF front
  <2>9. (consumed \o front) \o Drop(d, n) = consumed \o d
    <3> DEFINE r == Drop(d, n)
    <3>1. consumed \in Seq(Byte) /\ front \in Seq(Byte) /\ r \in Seq(Byte) BY <1>2, <2>8
    <3> HIDE DEF r
    <3>2. (consumed \o front) \o r = consumed \o (front \o r) BY <3>1, RegroupBytes
    <3> QED BY <2>8, <3>2 DEF r
  <2>10. consumed' \in Seq(Byte)
    <3>1. consumed \in Seq(Byte) /\ front \in Seq(Byte) BY <1>2, <2>8
    <3>2. consumed \o front \in Seq(Byte) BY <3>1, ConcatProperties
    <3> QED BY <2>5, <3>2
  <2>11. consumed' \o str(buffer)' = str(received)'
    BY <1>2, <1>3, <2>5, <2>6, <2>9 DEF d
  <2>12. Parsing' BY <1>2, <1>3, <1>5, <2>1, <2>7, <2>11 DEF Parsing
  <2>13. buffer' \in Buf BY <2>4, <2>5
  <2> QED BY <1>4, <2>10, <2>12, <2>13, ParserKeeps
<1>6. CASE error' # "NoError"
  <2>1. buffer' = buffer /\ consumed' = consumed BY <1>1, <1>6
  <2>2. str(buffer)' = str(buffer) /\ Fits(buffer)' BY <1>2, <2>1 DEF str, Fits
  <2>3. error' = "BadChecksum" => error = "BadChecksum" BY <1>1
  <2>4. Parsing' BY <1>2, <1>3, <1>6, <2>1, <2>2, <2>3 DEF Parsing
  <2> QED BY <1>2, <1>4, <2>1, <2>4, ParserKeeps
<1> QED BY <1>5, <1>6

(* u8(), u16() and u32() return the bytes they take: UnparseParse.         *)
LEMMA ParsesKeeps ==
  ASSUME IInv, NEW len \in Widths, Parses(len)
  PROVE  IInv'
<1>1. /\ phase = "parse" /\ Take(len)
      /\ consumed' = IF error' = "NoError" THEN consumed \o unparse_int(len, parse_int(len)) ELSE consumed
      /\ UNCHANGED <<heap, phase, initial, s, received, damage, c, at>>
  BY DEF Parses
<1>2. error' = check_size(len) BY <1>1 DEF Take
<1>3. len \in Nat BY DEF Widths
<1>4. ASSUME error' = "NoError"
      PROVE  unparse_int(len, parse_int(len)) = SubSeq(str(buffer), 1, len)
  <2> DEFINE d == str(buffer)  p == SubSeq(d, 1, len)
  <2>1. d \in Seq(Byte) /\ size(buffer) = Len(d) /\ Len(d) \in Nat
    <3>1. d \in Seq(Byte) BY StrType DEF IInv, Types
    <3> QED BY <3>1 DEF size
  <2>2. ~ (len > size(buffer)) BY <1>2, <1>4 DEF check_size
  <2>3. parse_int(len) = Fold("digits", 0, p) BY <1>2, <1>4, FrontIntIsFold DEF parse_int
  <2> HIDE DEF d
  <2>4. len <= Len(d) BY <1>3, <2>1, <2>2
  <2>5. p \in Seq(Byte) /\ Len(p) = len BY <1>3, <2>1, <2>4
  <2> HIDE DEF p
  <2>6. unparse_int(len, Number(p, len)) = p BY <2>5, UnparseParse
  <2>7. SubSeq(p, 1, len) = p BY <2>5, SubSeqFull
  <2> QED BY <2>3, <2>6, <2>7 DEF Number, p, d
<1>5. consumed' = IF error' = "NoError" THEN consumed \o SubSeq(str(buffer), 1, len) ELSE consumed
  BY <1>1, <1>4
<1> QED BY <1>1, <1>3, <1>5, TakeKeeps

(* remove_prefix() takes bytes.                                            *)
LEMMA SkipsKeeps ==
  ASSUME IInv, NEW n \in 1 .. MaxPacket, Skips(n)
  PROVE  IInv'
<1>1. n \in Nat BY SegmentAssumption
<1> QED BY <1>1, TakeKeeps DEF Skips

(* A caller sets an error of its own.                                      *)
LEMMA RejectsKeeps ==
  ASSUME IInv, Rejects
  PROVE  IInv'
<1>1. /\ phase = "parse" /\ error' = "Unsupported"
      /\ UNCHANGED <<heap, phase, initial, s, received, damage, c, at, consumed, buffer>>
  BY DEF Rejects, set_error
<1>2. buffer \in Buf /\ consumed \in Seq(Byte) BY DEF IInv, Types
<1>3. Parsing'
  <2>1. str(buffer)' = str(buffer) /\ str(received)' = str(received)
        /\ size(received)' = size(received) /\ value(c)' = value(c) /\ Fits(buffer)' = Fits(buffer)
    BY <1>1 DEF str, size, value, Fits
  <2>2. at = size(received) /\ Fits(buffer) /\ consumed \o str(buffer) = str(received)
        /\ (value(c) # 0 => consumed = <<>>)
    BY <1>1 DEF IInv, Parsing
  <2> QED BY <1>1, <2>1, <2>2 DEF Parsing
<1> QED BY <1>1, <1>2, <1>3, ParserKeeps

(* The segment arrives intact, changed or cut.                             *)
LEMMA ArrivesKeeps ==
  ASSUME IInv, \/ Arrives
               \/ \E i \in 1 .. Len(s), byte \in 0 .. ByteMod - 1 : ArrivesChanged(i, byte)
               \/ \E i \in 0 .. Len(s) - 1 : ArrivesCut(i)
  PROVE  IInv'
<1>1. s \in Seq(Byte) /\ Len(s) \in Nat BY DEF IInv, Types
<1>2. CASE Arrives
  <2>1. Receive(s, "none") BY <1>2 DEF Arrives
  <2> QED BY <1>1, <2>1, ReceiveKeeps
<1>3. ASSUME NEW i \in 1 .. Len(s), NEW byte \in 0 .. ByteMod - 1, ArrivesChanged(i, byte)
      PROVE  IInv'
  <2> DEFINE data == [s EXCEPT ![i] = byte]
  <2>1. byte # s[i] /\ Receive(data, "byte") BY <1>3 DEF ArrivesChanged
  <2>2. byte \in Byte BY DEF Byte
  <2>3. data \in Seq(Byte) /\ Len(data) = Len(s) BY <1>1, <2>2
  <2>4. \E j \in 1 .. Len(s), y \in Byte : y # s[j] /\ data = [s EXCEPT ![j] = y] BY <2>1, <2>2
  <2> HIDE DEF data
  <2> QED BY <2>1, <2>3, <2>4, ReceiveKeeps
<1>4. ASSUME NEW i \in 0 .. Len(s) - 1, ArrivesCut(i) PROVE IInv'
  <2> DEFINE data == SubSeq(s, 1, i)
  <2>1. Receive(data, "cut") BY <1>4 DEF ArrivesCut
  <2>2. data \in Seq(Byte) BY <1>1
  <2> HIDE DEF data
  <2> QED BY <2>1, <2>2, ReceiveKeeps
<1> QED BY <1>2, <1>3, <1>4

(* Every step preserves the invariant.                                     *)
LEMMA NextIInv == IInv /\ [Next]_vars => IInv'
<1> SUFFICES ASSUME IInv, [Next]_vars PROVE IInv' OBVIOUS
<1>1. CASE \E len \in Widths : \E val \in 0 .. Shift(len) - 1 : Unparse(len, val)
  BY <1>1, UnparseKeeps
<1>2. CASE Seal BY <1>2, SealKeeps
<1>3. CASE \/ Arrives
           \/ \E i \in 1 .. Len(s), byte \in 0 .. ByteMod - 1 : ArrivesChanged(i, byte)
           \/ \E i \in 0 .. Len(s) - 1 : ArrivesCut(i)
  BY <1>3, ArrivesKeeps
<1>4. CASE \E k \in 1 .. MaxPacket : AddsChunk(k) BY <1>4, AddsChunkKeeps
<1>5. CASE Judges BY <1>5, JudgesKeeps
<1>6. CASE \E len \in Widths : Parses(len) BY <1>6, ParsesKeeps
<1>7. CASE \E n \in 1 .. MaxPacket : Skips(n) BY <1>7, SkipsKeeps
<1>8. CASE Rejects BY <1>8, RejectsKeeps
<1>9. CASE UNCHANGED vars
  <2> USE <1>9 DEF vars, parserVars
  <2>1. Types' BY DEF IInv, Types, Buf
  <2>2. Sending' /\ Checking' BY DEF IInv, Sending, Checking, EmptyBuffer
  <2>3. SentSealed' BY DEF IInv, SentSealed, Sealed, Total, SumOf, SumFits
  <2>4. Arrived' BY DEF IInv, Arrived, BufferOn
  <2>5. Added' BY DEF IInv, Added, str, size
  <2>6. Parsing' BY DEF IInv, Parsing, str, size, value, Fits
  <2> QED BY <2>1, <2>2, <2>3, <2>4, <2>5, <2>6 DEF IInv
<1> QED BY <1>1, <1>2, <1>3, <1>4, <1>5, <1>6, <1>7, <1>8, <1>9 DEF Next

(* The invariant holds throughout.                                         *)
LEMMA Invariance == Spec => []IInv
<1>1. Init => IInv BY InitIInv
<1>2. IInv /\ [Next]_vars => IInv' BY NextIInv
<1> QED BY <1>1, <1>2, PTL DEF Spec

(* InternetChecksum computes the checksum of RFC 1071, whatever the sizes  *)
(* of the chunks that add() is given, for any size of a byte and any       *)
(* initial sum that leaves room for what is added.                         *)
THEOREM ChecksumIsRFC1071 == Spec => []ChecksumAgrees
<1>1. ASSUME IInv PROVE ChecksumAgrees
  <2> SUFFICES ASSUME SumFits(initial, at)
               PROVE  value(c) = Reference(initial, SubSeq(str(received), 1, at))
    BY DEF ChecksumAgrees
  <2> DEFINE d == str(received)  e == SubSeq(d, 1, at)
  <2>1. /\ d \in Seq(Byte) /\ size(received) = Len(d) /\ at \in Nat /\ at <= size(received)
        /\ initial \in 0 .. SumMod - 1 /\ c = add(NewChecksum(initial), e)
    BY <1>1, StrType DEF IInv, Types, Added, size
  <2> HIDE DEF d
  <2>2. e \in Seq(Byte) /\ Len(e) = at BY <2>1
  <2> HIDE DEF e
  <2>3. SubSeq(e, 1, Len(e)) = e /\ Len(e) \in 0 .. Len(e) BY <2>1, <2>2, SubSeqFull
  <2>4. c = SumOf(initial, e, Len(e)) BY <2>1, <2>3, AddIsFold DEF SumOf
  <2>5. Folded[SumOf(initial, e, Len(e)).sum] = Fold("ones", FirstWord(initial), Words(e))
    <3>1. Folded[SumOf(initial, e, Len(e)).sum]
            = Fold("ones", FirstWord(initial), Words(SubSeq(e, 1, Len(e))))
      BY <2>1, <2>2, <2>3, SumIsReference
    <3> QED BY <2>3, <3>1
  <2>6. Reference(initial, e) = WordMod - 1 - Fold("ones", FirstWord(initial), Words(e))
    BY OnesIsFold DEF Reference, Words
  <2>7. value(c) = WordMod - 1 - Folded[SumOf(initial, e, Len(e)).sum] BY <2>4 DEF value
  <2> QED BY <2>5, <2>6, <2>7 DEF e, d
<1> QED BY <1>1, Invariance, PTL

(* The verdict of the receiver is that of the whole segment.               *)
LEMMA Verdict ==
  ASSUME IInv, phase = "parse"
  PROVE  value(c) = 0 <=> Sealed(initial, heap[Place])
<1>1. /\ heap \in [Storage -> Seq(Byte)] /\ initial \in 0 .. SumMod - 1
      /\ received = BufferOn(Place) /\ at = size(received)
      /\ c = add(NewChecksum(initial), SubSeq(str(received), 1, at))
  BY DEF IInv, Types, Arrived, Added, Parsing
<1> DEFINE d == heap[Place]
<1>2. d \in Seq(Byte) /\ str(received) = d BY <1>1, NewStr, PlaceIs
<1>3. at = Len(d) BY <1>1, <1>2 DEF size
<1> HIDE DEF d
<1>4. SubSeq(d, 1, Len(d)) = d BY <1>2, SubSeqFull
<1>5. c = add(NewChecksum(initial), d) BY <1>1, <1>2, <1>3, <1>4
<1>6. value(add(NewChecksum(initial), d)) = 0 <=> Sealed(initial, d) BY <1>1, <1>2, ValueZero
<1> QED BY <1>5, <1>6 DEF d

(* A segment that arrives as it was sent passes the receiver's checksum,   *)
(* if the initial sum leaves room for it.                                  *)
THEOREM IntactPasses == Spec => []IntactVerifies
<1>1. ASSUME IInv PROVE IntactVerifies
  <2> SUFFICES ASSUME damage = "none", SumFits(initial, Len(s)), error = "BadChecksum" PROVE FALSE
    BY DEF IntactVerifies
  <2>1. phase = "parse" BY <1>1 DEF IInv, Types, Sending, Checking
  <2>2. heap[Place] = s /\ Sealed(initial, s) BY <1>1, <2>1 DEF IInv, Arrived, SentSealed
  <2>3. value(c) # 0 BY <1>1, <2>1 DEF IInv, Parsing
  <2> QED BY <1>1, <2>1, <2>2, <2>3, Verdict
<1> QED BY <1>1, Invariance, PTL

(* A segment with one byte changed is never parsed, if the initial sum     *)
(* leaves room for it.                                                     *)
THEOREM DamageIsCaught == Spec => []DamageDetected
<1>1. ASSUME IInv PROVE DamageDetected
  <2> SUFFICES ASSUME damage = "byte", phase = "parse", SumFits(initial, Len(s))
               PROVE  error # "NoError" /\ consumed = <<>>
    BY DEF DamageDetected
  <2>1. PICK i \in 1 .. Len(s), y \in Byte : y # s[i] /\ heap[Place] = [s EXCEPT ![i] = y]
    BY <1>1 DEF IInv, Arrived
  <2>2. s \in Seq(Byte) /\ initial \in 0 .. SumMod - 1 /\ Sealed(initial, s)
    BY <1>1 DEF IInv, Types, SentSealed
  <2>3. ~ Sealed(initial, heap[Place]) BY <2>1, <2>2, DamageShows
  <2>4. value(c) # 0 BY <1>1, <2>3, Verdict
  <2> QED BY <1>1, <2>4 DEF IInv, Parsing
<1> QED BY <1>1, Invariance, PTL

(* What the parser returned and what it has left is what arrived.          *)
THEOREM ParserInventsNothing == Spec => []ParsesWhatArrived
<1>1. IInv => ParsesWhatArrived BY DEF IInv, Parsing, ParsesWhatArrived
<1> QED BY <1>1, Invariance, PTL

(* An error of the parser is final: set_error() replaces it, nothing       *)
(* clears it, and no byte is taken.                                        *)
THEOREM ErrorIsFinal == Spec => ErrorSticks
<1> DEFINE A == error # "NoError" => error' # "NoError" /\ UNCHANGED <<buffer, consumed>>
<1>1. ASSUME IInv, [Next]_vars PROVE [A]_vars
  <2> SUFFICES ASSUME error # "NoError", Next
               PROVE  error' # "NoError" /\ UNCHANGED <<buffer, consumed>>
    BY <1>1
  <2>1. phase = "parse" BY <1>1 DEF IInv, Types, Sending, Checking
  <2>2. CASE \E len \in Widths : Parses(len)
    BY <2>2 DEF Parses, Take, check_size
  <2>3. CASE \E n \in 1 .. MaxPacket : Skips(n)
    BY <2>3 DEF Skips, Take, check_size
  <2>4. CASE Rejects BY <2>4 DEF Rejects, set_error
  <2>5. /\ ~ (\E len \in Widths : \E val \in 0 .. Shift(len) - 1 : Unparse(len, val))
        /\ ~ Seal /\ ~ Judges /\ ~ (\E k \in 1 .. MaxPacket : AddsChunk(k))
    BY <2>1 DEF Unparse, Seal, Judges, AddsChunk
  <2>6. /\ ~ Arrives
        /\ ~ (\E i \in 1 .. Len(s), byte \in 0 .. ByteMod - 1 : ArrivesChanged(i, byte))
        /\ ~ (\E i \in 0 .. Len(s) - 1 : ArrivesCut(i))
    BY <2>1 DEF Arrives, ArrivesChanged, ArrivesCut, Receive
  <2> QED BY <2>2, <2>3, <2>4, <2>5, <2>6 DEF Next
<1> QED BY <1>1, Invariance, PTL DEF Spec, ErrorSticks
=============================================================================
