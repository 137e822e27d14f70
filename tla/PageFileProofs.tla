--------------------------- MODULE PageFileProofs ---------------------------
(***************************************************************************)
(* What serialize writes on a page deserialize reads back, for every range *)
(* of a byte and size of a page; and the page file keeps what a commit or  *)
(* a rollback has left: the properties of module PageFile for every file,  *)
(* if no file is used that was left in the middle of a commit, and if the  *)
(* free list fits its page.                                                *)
(***************************************************************************)
EXTENDS PageFile, FreeListProofs, FiniteSetTheorems

\* A function on the numbers is defined by its value at 0 and a step, itself a
\* function.
Recursive(S) ==
    \A first \in S : \A step \in [Nat -> [S -> S]] :
        \E f \in [Nat -> S] : f[0] = first /\ \A i \in Nat : f[i + 1] = step[i][f[i]]

LEMMA Recursion == ASSUME NEW S PROVE Recursive(S)
<1> SUFFICES ASSUME NEW first \in S, NEW step \in [Nat -> [S -> S]]
             PROVE  \E f \in [Nat -> S] : f[0] = first /\ \A i \in Nat : f[i + 1] = step[i][f[i]]
    BY DEF Recursive
<1> DEFINE good(f, n) == f[0] = first /\ \A i \in Nat : i < n => f[i + 1] = step[i][f[i]]
           T == {n \in Nat : \E f \in [Nat -> S] : good(f, n)}
<1>1. 0 \in T
  <2>1. good([i \in Nat |-> first], 0)
      OBVIOUS
  <2>2. [i \in Nat |-> first] \in [Nat -> S]
      OBVIOUS
  <2> HIDE DEF good
  <2> QED BY <2>1, <2>2
<1>2. ASSUME NEW n \in Nat, n \in T PROVE n + 1 \in T
  <2>1. PICK f \in [Nat -> S] : good(f, n)
      BY <1>2
  <2> DEFINE g == [i \in Nat |-> IF i = n + 1 THEN step[n][f[n]] ELSE f[i]]
  <2>2. g \in [Nat -> S]
      OBVIOUS
  <2>3. g[0] = first
      BY <2>1
  <2>4. ASSUME NEW i \in Nat, i < n + 1 PROVE g[i + 1] = step[i][g[i]]
    <3>1. g[i] = f[i] /\ i + 1 \in Nat
        BY <2>4
    <3>2. CASE i = n
      <4>1. g[i + 1] = step[i][f[i]]
          BY <3>1, <3>2
      <4> QED BY <3>1, <4>1
    <3>3. CASE i # n
      <4>1. i < n /\ i + 1 # n + 1
          BY <2>4, <3>3
      <4>2. g[i + 1] = f[i + 1]
          BY <3>1, <4>1
      <4> QED BY <2>1, <3>1, <4>1, <4>2
    <3> QED BY <3>2, <3>3
  <2>5. good(g, n + 1)
      BY <2>3, <2>4
  <2> HIDE DEF good, g
  <2> QED BY <2>2, <2>5
<1>3. \A n \in Nat : n \in T
  <2> HIDE DEF T
  <2>1. \A n \in Nat : n \in T => n + 1 \in T
      BY <1>2
  <2> QED BY <1>1, <2>1, SetInduction
<1>4. ASSUME NEW n \in Nat, NEW m \in Nat, NEW f \in [Nat -> S], NEW g \in [Nat -> S],
             good(f, n), good(g, m)
      PROVE  \A i \in Nat : i <= n /\ i <= m => f[i] = g[i]
  <2> DEFINE U == {i \in Nat : i <= n /\ i <= m => f[i] = g[i]}
  <2>1. 0 \in U
      BY <1>4
  <2>2. ASSUME NEW i \in Nat, i \in U PROVE i + 1 \in U
    <3> SUFFICES ASSUME i + 1 <= n /\ i + 1 <= m PROVE f[i + 1] = g[i + 1]
        OBVIOUS
    <3>1. i < n /\ i < m /\ f[i] = g[i]
        BY <2>2
    <3> QED BY <1>4, <3>1
  <2> HIDE DEF U
  <2>3. Nat \subseteq U
    <3>1. \A i \in Nat : i \in U => i + 1 \in U
        BY <2>2
    <3> QED BY <2>1, <3>1, SetInduction
  <2> QED BY <2>3 DEF U
<1> DEFINE pick(n) == CHOOSE f \in [Nat -> S] : good(f, n)
           F == [n \in Nat |-> pick(n)[n]]
<1>5. \A n \in Nat : pick(n) \in [Nat -> S] /\ good(pick(n), n)
  <2> HIDE DEF good
  <2> QED BY <1>3
<1>6. F \in [Nat -> S]
  <2> HIDE DEF pick
  <2> QED BY <1>5
<1>7. F[0] = first
  <2> HIDE DEF pick
  <2>1. pick(0)[0] = first
      BY <1>5
  <2> QED BY <2>1
<1>8. ASSUME NEW i \in Nat PROVE F[i + 1] = step[i][F[i]]
  <2> HIDE DEF pick
  <2>1. i + 1 \in Nat /\ i < i + 1 /\ i <= i /\ i <= i + 1
      OBVIOUS
  <2>2. pick(i)[i] = pick(i + 1)[i]
    <3> HIDE DEF good
    <3>1. PICK p \in [Nat -> S] : p = pick(i) /\ good(p, i)
        BY <1>5
    <3>2. PICK q \in [Nat -> S] : q = pick(i + 1) /\ good(q, i + 1)
        BY <1>5, <2>1
    <3>3. p[i] = q[i]
        BY <1>4, <2>1, <3>1, <3>2
    <3> QED BY <3>1, <3>2, <3>3
  <2>3. pick(i + 1)[i + 1] = step[i][pick(i + 1)[i]]
      BY <1>5, <2>1
  <2> QED BY <2>1, <2>2, <2>3
<1> HIDE DEF F
<1> QED BY <1>6, <1>7, <1>8

\* How many numbers a width has.
LEMMA ValuesAre ==
    /\ Values[0] = 1
    /\ \A i \in Nat : Values[i] \in Nat /\ Values[i] > 0 /\ Values[i + 1] = ByteRange * Values[i]
<1>1. ByteRange \in Nat /\ ByteRange > 1
    BY FormatAssumption
<1> DEFINE S == Nat \ {0}
           step == [i \in Nat |-> [x \in S |-> ByteRange * x]]
<1>2. step \in [Nat -> [S -> S]] /\ 1 \in S
  <2>1. \A x \in S : ByteRange * x \in S
      BY <1>1
  <2> QED BY <2>1
<1>3. PICK f \in [Nat -> S] : f[0] = 1 /\ \A i \in Nat : f[i + 1] = step[i][f[i]]
  <2> HIDE DEF step, S
  <2>1. Recursive(S)
      BY Recursion, Zenon
  <2> QED BY <1>2, <2>1 DEF Recursive
<1>4. \A i \in Nat : f[i + 1] = ByteRange * f[i]
    BY <1>3
<1> DEFINE def(g, i) == IF i = 0 THEN 1 ELSE ByteRange * g[i - 1]
<1>5. f = [i \in Nat |-> def(f, i)]
  <2>1. \A i \in Nat : f[i] = def(f, i)
    <3> SUFFICES ASSUME NEW i \in Nat, i # 0 PROVE f[i] = ByteRange * f[i - 1]
        BY <1>3
    <3>1. i - 1 \in Nat /\ (i - 1) + 1 = i
        OBVIOUS
    <3>2. f[(i - 1) + 1] = ByteRange * f[i - 1]
        BY <1>4, <3>1
    <3> QED BY <3>1, <3>2
  <2> HIDE DEF def
  <2> QED BY <2>1
<1>6. Values = [i \in Nat |-> def(Values, i)]
  <2> HIDE DEF def
  <2>1. Values = CHOOSE g : g = [i \in Nat |-> def(g, i)]
      BY Zenon DEF Values, def
  <2> QED BY <1>5, <2>1, Zenon
<1>7. Values[0] = 1 /\ \A i \in Nat : Values[i + 1] = ByteRange * Values[i]
  <2>1. \A i \in Nat : Values[i] = def(Values, i)
    <3> HIDE DEF def
    <3> QED BY <1>6, Zenon
  <2>2. \A i \in Nat : i + 1 \in Nat /\ i + 1 # 0 /\ (i + 1) - 1 = i
      OBVIOUS
  <2> QED BY <2>1, <2>2
<1> DEFINE T == {i \in Nat : Values[i] \in Nat /\ Values[i] > 0}
<1>8. 0 \in T
    BY <1>7
<1>9. ASSUME NEW i \in Nat, i \in T PROVE i + 1 \in T
  <2>1. Values[i + 1] = ByteRange * Values[i] /\ Values[i] \in Nat /\ Values[i] > 0
      BY <1>7, <1>9
  <2> QED BY <1>1, <2>1
<1>10. Nat \subseteq T
  <2> HIDE DEF T
  <2>1. \A i \in Nat : i \in T => i + 1 \in T
      BY <1>9
  <2> QED BY <1>8, <2>1, SetInduction
<1> QED BY <1>7, <1>10

\* What a sum is, one number after the other.
LEMMA SumIs ==
    ASSUME NEW s \in Seq(Int)
    PROVE  /\ SumOf(s, 0) = 0 /\ \A i \in 0 .. Len(s) : SumOf(s, i) \in Int
           /\ \A i \in 1 .. Len(s) : SumOf(s, i) = SumOf(s, i - 1) + s[i]
<1>1. Len(s) \in Nat /\ \A i \in 1 .. Len(s) : s[i] \in Int
    BY RangeIs
<1> DEFINE of(i) == IF i \in 1 .. Len(s) THEN s[i] ELSE 0
           step == [i \in Nat |-> [x \in Int |-> x + of(i + 1)]]
<1>2. step \in [Nat -> [Int -> Int]]
  <2>1. \A i \in Nat : of(i + 1) \in Int
      BY <1>1
  <2> HIDE DEF of
  <2> QED BY <2>1
<1>3. PICK f \in [Nat -> Int] : f[0] = 0 /\ \A i \in Nat : f[i + 1] = step[i][f[i]]
  <2> DEFINE S == Int
  <2>1. step \in [Nat -> [S -> S]] /\ 0 \in S
      BY <1>2
  <2>2. Recursive(S)
      BY Recursion, Zenon
  <2> HIDE DEF step, S
  <2>3. \E f \in [Nat -> S] : f[0] = 0 /\ \A i \in Nat : f[i + 1] = step[i][f[i]]
      BY <2>1, <2>2 DEF Recursive
  <2> QED BY <2>3, Zenon DEF S
<1>4. ASSUME NEW i \in 1 .. Len(s) PROVE f[i] = f[i - 1] + s[i]
  <2>1. i - 1 \in Nat /\ (i - 1) + 1 = i /\ f[i - 1] \in Int
      BY <1>1, <1>3
  <2>2. f[(i - 1) + 1] = step[i - 1][f[i - 1]]
      BY <1>3, <2>1
  <2>3. step[i - 1][f[i - 1]] = f[i - 1] + of(i)
    <3> HIDE DEF of
    <3> QED BY <2>1
  <2> QED BY <2>1, <2>2, <2>3
<1> DEFINE D == 0 .. Len(s)
           def(g, j) == IF j = 0 THEN 0 ELSE g[j - 1] + s[j]
           g0 == [j \in D |-> f[j]]
<1>5. \A j \in D : g0[j] = def(g0, j)
  <2> SUFFICES ASSUME NEW j \in D PROVE g0[j] = def(g0, j)
      OBVIOUS
  <2>1. CASE j = 0
      BY <1>3, <2>1
  <2>2. CASE j # 0
    <3>1. j \in 1 .. Len(s) /\ j - 1 \in D
        BY <1>1, <2>2
    <3> QED BY <1>4, <2>2, <3>1
  <2> QED BY <2>1, <2>2
<1>6. g0 = [j \in D |-> def(g0, j)]
  <2> HIDE DEF def
  <2> QED BY <1>5
<1> DEFINE F == CHOOSE g : g = [j \in D |-> def(g, j)]
<1>7. F = [j \in D |-> def(F, j)]
  <2> HIDE DEF def, g0
  <2> QED BY <1>6, Zenon
<1>8. \A i : SumOf(s, i) = F[i]
    BY Zenon DEF SumOf
<1> HIDE DEF F
<1>9. F[0] = 0 /\ \A j \in 1 .. Len(s) : F[j] = F[j - 1] + s[j]
  <2>1. \A j \in D : F[j] = def(F, j)
    <3> HIDE DEF def
    <3> QED BY <1>7
  <2>2. 0 \in D /\ \A j \in 1 .. Len(s) : j \in D /\ j # 0
      BY <1>1
  <2> QED BY <2>1, <2>2
<1> DEFINE T == {j \in Nat : j \in D => F[j] \in Int}
<1>10. 0 \in T
    BY <1>9
<1>11. ASSUME NEW j \in Nat, j \in T PROVE j + 1 \in T
  <2> SUFFICES ASSUME j + 1 \in D PROVE F[j + 1] \in Int
      OBVIOUS
  <2>1. j + 1 \in 1 .. Len(s) /\ (j + 1) - 1 = j /\ F[j] \in Int /\ s[j + 1] \in Int
      BY <1>1, <1>11
  <2>2. F[j + 1] = F[(j + 1) - 1] + s[j + 1]
      BY <1>9, <2>1
  <2> QED BY <2>1, <2>2
<1>12. \A j \in D : F[j] \in Int
  <2> HIDE DEF T
  <2>1. \A j \in Nat : j \in T => j + 1 \in T
      BY <1>11
  <2>2. Nat \subseteq T
      BY <1>10, <2>1, SetInduction
  <2> QED BY <1>1, <2>2 DEF T
<1> QED BY <1>8, <1>9, <1>12

\* Division.
LEMMA DivMod ==
    ASSUME NEW x \in Nat, NEW m \in Nat, m > 0
    PROVE  x \div m \in Nat /\ x % m \in 0 .. m - 1 /\ x = (m * (x \div m)) + (x % m)
OBVIOUS
LEMMA DivModIs ==
    ASSUME NEW x \in Nat, NEW m \in Nat, NEW a \in Int, NEW c \in Nat,
           m > 0, c < m, x = (m * a) + c
    PROVE  x % m = c /\ x \div m = a
OBVIOUS

\* A digit more: the rest of a number grows by it.
LEMMA NextDigit ==
    ASSUME NEW x \in Nat, NEW v \in Nat, NEW b \in Nat, v > 0, b > 0
    PROVE  x % (b * v) = (x % v) + (((x \div v) % b) * v)
<1> DEFINE q == x \div v
           r == x % v
           a == q \div b
           d == q % b
<1>1. q \in Nat /\ r \in 0 .. v - 1 /\ x = (v * q) + r
    BY DivMod
<1> HIDE DEF q, r
<1>2. a \in Nat /\ d \in 0 .. b - 1 /\ q = (b * a) + d
    BY <1>1, DivMod
<1> HIDE DEF a, d
<1> DEFINE w == b * v
           c == r + (d * v)
<1>3. w \in Nat /\ w > 0 /\ c \in Nat
  <2>1. d * v \in Nat /\ b * v \in Nat
      BY <1>2
  <2>2. b * v > 0
      OBVIOUS
  <2> QED BY <1>1, <2>1, <2>2
<1>4. c < w
  <2>1. d * v <= (b - 1) * v
      BY <1>2
  <2>2. (b - 1) * v = (b * v) - v
      OBVIOUS
  <2> QED BY <1>1, <1>2, <2>1, <2>2
<1>5. x = (w * a) + c
  <2>1. v * q = ((b * v) * a) + (d * v)
      BY <1>2
  <2>2. d * v \in Int /\ (b * v) * a \in Int
      BY <1>2
  <2> QED BY <1>1, <2>1, <2>2
<1> HIDE DEF w, c
<1>6. x % w = c
    BY <1>2, <1>3, <1>4, <1>5, DivModIs
<1> QED BY <1>6 DEF w, c, r, d, q

\* What Unsigned reads: digit by digit.
LEMMA UnsignedIs ==
    ASSUME NEW page, NEW pos \in Nat, NEW size \in Nat, NEW x \in Nat,
           \A i \in 0 .. size - 1 : page[pos + i] = (x \div Values[i]) % ByteRange
    PROVE  Unsigned(page, pos, size) = x % Values[size]
<1>1. ByteRange \in Nat /\ ByteRange > 0
    BY FormatAssumption
<1> DEFINE s == [i \in 1 .. size |-> page[pos + i - 1] * Values[i - 1]]
<1>2. ASSUME NEW i \in 1 .. size
      PROVE  /\ s[i] = ((x \div Values[i - 1]) % ByteRange) * Values[i - 1] /\ s[i] \in Int
             /\ x % Values[i] = (x % Values[i - 1]) + s[i]
  <2>1. i - 1 \in 0 .. size - 1 /\ i - 1 \in Nat /\ (i - 1) + 1 = i /\ pos + i - 1 = pos + (i - 1)
      OBVIOUS
  <2> DEFINE v == Values[i - 1]
  <2>2. v \in Nat /\ v > 0 /\ Values[i] = ByteRange * v
      BY <2>1, ValuesAre
  <2>3. page[pos + i - 1] = (x \div v) % ByteRange
      BY <2>1
  <2>4. s[i] = page[pos + i - 1] * v
      OBVIOUS
  <2> HIDE DEF v, s
  <2>5. x % (ByteRange * v) = (x % v) + (((x \div v) % ByteRange) * v)
      BY <1>1, <2>2, NextDigit, Zenon
  <2>6. ((x \div v) % ByteRange) * v \in Int
    <3>1. (x \div v) \in Nat
        BY <2>2, DivMod
    <3>2. (x \div v) % ByteRange \in Nat
        BY <1>1, <3>1, DivMod
    <3> QED BY <2>2, <3>2
  <2> QED BY <2>2, <2>3, <2>4, <2>5, <2>6 DEF v
<1>3. s \in Seq(Int) /\ Len(s) = size
  <2> HIDE DEF s
  <2>1. s = [i \in 1 .. size |-> s[i]]
      BY DEF s
  <2>2. s \in [1 .. size -> Int]
      BY <1>2, <2>1
  <2>3. s \in Seq(Int)
      BY <2>2, SeqDef
  <2> QED BY <2>2, <2>3, LenProperties
<1> HIDE DEF s
<1>4. /\ SumOf(s, 0) = 0
      /\ \A i \in 1 .. size : SumOf(s, i) = SumOf(s, i - 1) + s[i]
    BY <1>3, SumIs
<1> DEFINE T == {i \in Nat : i \in 0 .. size => SumOf(s, i) = x % Values[i]}
<1>5. 0 \in T
  <2>1. x % 1 = 0
      OBVIOUS
  <2> QED BY <1>4, <2>1, ValuesAre
<1>6. ASSUME NEW j \in Nat, j \in T PROVE j + 1 \in T
  <2> SUFFICES ASSUME j + 1 \in 0 .. size PROVE SumOf(s, j + 1) = x % Values[j + 1]
      OBVIOUS
  <2>1. j + 1 \in 1 .. size /\ (j + 1) - 1 = j /\ SumOf(s, j) = x % Values[j]
      BY <1>6
  <2>2. SumOf(s, j + 1) = SumOf(s, j) + s[j + 1]
      BY <1>4, <2>1
  <2>3. x % Values[j + 1] = (x % Values[j]) + s[j + 1]
      BY <1>2, <2>1
  <2> QED BY <2>1, <2>2, <2>3
<1>7. size \in T
  <2> HIDE DEF T
  <2>1. \A j \in Nat : j \in T => j + 1 \in T
      BY <1>6
  <2> QED BY <1>5, <2>1, SetInduction
<1>8. SumOf(s, size) = x % Values[size]
    BY <1>7
<1> QED BY <1>8 DEF Unsigned, s

\* More bytes have more numbers, half of which have no sign bit.
LEMMA ValuesGrow ==
    ASSUME NEW i \in Nat
    PROVE  /\ Values[i + 1] \in Nat /\ 2 * Values[i] <= Values[i + 1]
           /\ Values[i + 1] \div 2 \in Nat /\ Values[i + 1] \div 2 > 0
           /\ Values[i + 1] = 2 * (Values[i + 1] \div 2)
<1> DEFINE b == ByteRange
           v == Values[i]
           h == b \div 2
<1>1. b \in Nat /\ b > 1 /\ b % 2 = 0
    BY FormatAssumption
<1>2. v \in Nat /\ v > 0 /\ Values[i + 1] = b * v /\ Values[i + 1] \in Nat
    BY ValuesAre
<1> HIDE DEF b, v
<1>3. h \in Nat /\ h > 0 /\ b = 2 * h
    BY <1>1
<1> HIDE DEF h
<1>4. h * v \in Nat /\ h * v > 0 /\ b * v = 2 * (h * v) /\ h * v >= v
  <2>1. h * v >= v
      BY <1>2, <1>3
  <2>2. (2 * h) * v = 2 * (h * v)
      BY <1>2, <1>3
  <2> QED BY <1>2, <1>3, <2>1, <2>2
<1>5. (2 * (h * v)) \div 2 = h * v
  <2> DEFINE m == h * v
  <2>1. m \in Nat
      BY <1>4
  <2> HIDE DEF m
  <2>2. (2 * m) \div 2 = m
      BY <2>1
  <2> QED BY <2>2 DEF m
<1>6. Values[i + 1] = 2 * (h * v) /\ Values[i + 1] \div 2 = h * v
    BY <1>2, <1>4, <1>5
<1> DEFINE m == h * v
<1>7. m \in Nat /\ m > 0 /\ m >= v /\ Values[i + 1] = 2 * m /\ Values[i + 1] \div 2 = m
    BY <1>4, <1>6
<1> HIDE DEF m
<1> QED BY <1>2, <1>7 DEF v

\* The widths of the code.
LEMMA Widths ==
    /\ CharSize = 1 /\ ShortSize = 2 /\ IntSize = 4 /\ LongSize = 8
    /\ \A size \in {CharSize, ShortSize, IntSize} :
           /\ Values[size] \in Nat /\ Values[size] \div 2 \in Nat /\ Values[size] \div 2 > 0
           /\ Values[size] = 2 * (Values[size] \div 2)
    /\ Values[ShortSize] \div 2 <= Values[IntSize] \div 2
    /\ Values[LongSize] \in Nat /\ Values[IntSize] < Values[LongSize]
    /\ \A i \in IntSize .. LongSize : Values[i] \in Nat /\ Values[IntSize] <= Values[i]
<1>1. CharSize = 1 /\ ShortSize = 2 /\ IntSize = 4 /\ LongSize = 8
    BY DEF CharSize, ShortSize, IntSize, LongSize
<1>2. \A i \in Nat : Values[i] \in Nat /\ Values[i] > 0 /\ 2 * Values[i] <= Values[i + 1]
    BY ValuesAre, ValuesGrow
<1>3. \A i \in {1, 2, 4} : /\ Values[i] \in Nat /\ Values[i] \div 2 \in Nat /\ Values[i] \div 2 > 0
                          /\ Values[i] = 2 * (Values[i] \div 2)
  <2>2. ASSUME NEW i \in Nat
        PROVE  /\ Values[i + 1] \in Nat /\ Values[i + 1] \div 2 \in Nat /\ Values[i + 1] \div 2 > 0
               /\ Values[i + 1] = 2 * (Values[i + 1] \div 2)
      BY ValuesGrow
  <2>3. ASSUME NEW j \in Nat, j > 0
        PROVE  /\ Values[j] \in Nat /\ Values[j] \div 2 \in Nat /\ Values[j] \div 2 > 0
               /\ Values[j] = 2 * (Values[j] \div 2)
    <3>1. PICK i \in Nat : j = i + 1
      <4>1. j - 1 \in Nat /\ j = (j - 1) + 1
          BY <2>3
      <4> QED BY <4>1
    <3> QED BY <2>2, <3>1, Zenon
  <2>4. \A i \in {1, 2, 4} : i \in Nat /\ i > 0
      OBVIOUS
  <2> QED BY <2>3, <2>4
<1>4. /\ \A i \in 2 .. 8 : Values[i] \in Nat /\ Values[i] > 0
      /\ Values[2] <= Values[3] /\ Values[3] <= Values[4] /\ Values[4] <= Values[5]
      /\ Values[5] <= Values[6] /\ Values[6] <= Values[7] /\ Values[7] < Values[8]
  <2>1. \A i \in Nat : Values[i] \in Nat /\ Values[i] > 0 /\ Values[i] < Values[i + 1]
      BY <1>2
  <2>2. 2 + 1 = 3 /\ 3 + 1 = 4 /\ 4 + 1 = 5 /\ 5 + 1 = 6 /\ 6 + 1 = 7 /\ 7 + 1 = 8
      OBVIOUS
  <2>3. /\ Values[2] < Values[3] /\ Values[3] < Values[4] /\ Values[4] < Values[5]
        /\ Values[5] < Values[6] /\ Values[6] < Values[7] /\ Values[7] < Values[8]
      BY <2>1, <2>2
  <2> QED BY <2>1, <2>3
<1>5. Values[2] \div 2 <= Values[4] \div 2
    BY <1>4
<1>6. \A i \in 4 .. 8 : Values[i] \in Nat /\ Values[4] <= Values[i]
  <2> SUFFICES ASSUME NEW i \in 4 .. 8 PROVE Values[i] \in Nat /\ Values[4] <= Values[i]
      OBVIOUS
  <2>1. i \in {4, 5, 6, 7, 8}
      OBVIOUS
  <2> QED BY <1>4, <2>1
<1>7. Values[4] < Values[8] /\ Values[8] \in Nat
    BY <1>4
<1> QED BY <1>1, <1>3, <1>5, <1>6, <1>7

\* A number below the sign bit is read as it is, one with it as a negative one.
LEMMA SignedIs ==
    ASSUME NEW size \in {CharSize, ShortSize, IntSize}, NEW x \in Nat, x < Values[size]
    PROVE  Signed(x, size) = IF x < Values[size] \div 2 THEN x ELSE x - Values[size]
<1> DEFINE v == Values[size]
           h == v \div 2
<1>1. v \in Nat /\ h \in Nat /\ h > 0 /\ v = 2 * h
    BY Widths
<1>2. Signed(x, size) = ((x + h) % v) - h
    BY DEF Signed
<1>3. x < v
    OBVIOUS
<1> HIDE DEF v, h
<1>4. CASE x < h
  <2>1. x + h < v /\ x + h \in Nat /\ x + h = (v * 0) + (x + h)
      BY <1>1, <1>4
  <2>2. (x + h) % v = x + h
      BY <1>1, <2>1, DivModIs
  <2> QED BY <1>1, <1>2, <1>4, <2>2 DEF h, v
<1>5. CASE ~(x < h)
  <2>1. x - h < v /\ x - h \in Nat /\ x + h \in Nat /\ x + h = (v * 1) + (x - h)
      BY <1>1, <1>3, <1>5
  <2>2. (x + h) % v = x - h
      BY <1>1, <2>1, DivModIs
  <2> QED BY <1>1, <1>2, <1>5, <2>2 DEF h, v
<1> QED BY <1>4, <1>5

\* A page has some bytes from a position on.
Bears(page, pos, bytes) == \A i \in DOMAIN bytes : page[pos + i - 1] = bytes[i]

\* What IntBytes writes is read back, up to its width.
LEMMA BytesRead ==
    ASSUME NEW page, NEW pos \in Nat, NEW size \in Nat, NEW x \in Nat, NEW m \in 0 .. size,
           Bears(page, pos, IntBytes(x, size))
    PROVE  Unsigned(page, pos, m) = x % Values[m]
<1>1. \A i \in 0 .. m - 1 : page[pos + i] = (x \div Values[i]) % ByteRange
  <2> SUFFICES ASSUME NEW i \in 0 .. m - 1 PROVE page[pos + i] = (x \div Values[i]) % ByteRange
      OBVIOUS
  <2>1. i + 1 \in 1 .. size /\ (i + 1) - 1 = i /\ pos + (i + 1) - 1 = pos + i
      OBVIOUS
  <2>2. \A j \in 1 .. size : page[pos + j - 1] = (x \div Values[j - 1]) % ByteRange
      BY DEF Bears, IntBytes
  <2> QED BY <2>1, <2>2
<1> QED BY <1>1, UnsignedIs

\* A number below the sign bit is read as it was written.
LEMMA SignedRead ==
    ASSUME NEW page, NEW pos \in Nat, NEW size \in {CharSize, ShortSize, IntSize},
           NEW width \in Nat, size <= width, NEW x \in Nat, x < Values[size] \div 2,
           Bears(page, pos, IntBytes(x, width))
    PROVE  ReadSigned(page, pos, size) = x
<1>1. /\ Values[size] \in Nat /\ Values[size] \div 2 \in Nat /\ Values[size] > 0
      /\ Values[size] = 2 * (Values[size] \div 2)
    BY Widths
<1>2. x < Values[size]
    BY <1>1
<1>3. size \in 0 .. width
    BY Widths
<1>4. Unsigned(page, pos, size) = x % Values[size]
    BY <1>3, BytesRead
<1>5. x % Values[size] = x
    BY <1>1, <1>2
<1>6. Signed(x, size) = x
    BY <1>2, SignedIs
<1> QED BY <1>4, <1>5, <1>6 DEF ReadSigned

\* A number of eight bytes is read as it was written exactly if it is below the
\* sign bit of an int.
LEMMA LongRead ==
    ASSUME NEW page, NEW pos \in Nat, NEW x \in Nat, Bears(page, pos, Long(x))
    PROVE  /\ LongFits(x) => ReadLong(page, pos) = x
           /\ x < Values[LongSize] /\ ReadLong(page, pos) = x => LongFits(x)
<1> DEFINE v == Values[4]
           h == v \div 2
           w == Values[8]
<1>1. v \in Nat /\ h \in Nat /\ h > 0 /\ v = 2 * h /\ w \in Nat /\ v < w
    BY Widths
<1>2. \A i \in 4 .. 7 : page[pos + i] = (x \div Values[i]) % ByteRange
  <2> SUFFICES ASSUME NEW i \in 4 .. 7 PROVE page[pos + i] = (x \div Values[i]) % ByteRange
      OBVIOUS
  <2>1. i + 1 \in 1 .. 8 /\ (i + 1) - 1 = i /\ pos + (i + 1) - 1 = pos + i
      OBVIOUS
  <2>2. \A j \in 1 .. 8 : page[pos + j - 1] = (x \div Values[j - 1]) % ByteRange
      BY DEF Bears, Long, IntBytes, LongSize
  <2> QED BY <2>1, <2>2
<1>3. Bears(page, pos, IntBytes(x, 8))
    BY DEF Long, LongSize
<1>4. LongFits(x) <=> x < h
    BY DEF LongFits, IntSize
<1>5. ReadLong(page, pos) = IF \A i \in 4 .. 7 : page[pos + i] = 0
                            THEN ReadSigned(page, pos, 4) % w ELSE -1
    BY DEF ReadLong, IntSize, LongSize, NoNumber
<1>6. ByteRange \in Nat /\ ByteRange > 0
    BY FormatAssumption
<1>7. ASSUME x < h PROVE ReadLong(page, pos) = x
  <2>1. ReadSigned(page, pos, 4) = x
      BY <1>3, <1>7, SignedRead, Widths
  <2>2. \A i \in 4 .. 7 : page[pos + i] = 0
    <3> SUFFICES ASSUME NEW i \in 4 .. 7 PROVE page[pos + i] = 0
        OBVIOUS
    <3>1. Values[i] \in Nat /\ x < Values[i]
      <4>1. Values[i] \in Nat /\ Values[4] <= Values[i]
          BY Widths
      <4> QED BY <1>1, <1>7, <4>1
    <3>2. x = (Values[i] * 0) + x
        BY <3>1
    <3>3. x \div Values[i] = 0
        BY <3>1, <3>2, DivModIs
    <3>4. 0 % ByteRange = 0
        BY <1>6
    <3> QED BY <1>2, <3>3, <3>4
  <2>3. x % w = x
    <3>1. x < w /\ x = (w * 0) + x
        BY <1>1, <1>7
    <3> HIDE DEF w
    <3> QED BY <1>1, <3>1, DivModIs
  <2> QED BY <1>5, <2>1, <2>2, <2>3
<1>8. ASSUME x < w, ReadLong(page, pos) = x PROVE x < h
  <2>1. \A i \in 4 .. 7 : page[pos + i] = 0
      BY <1>5, <1>8
  <2>2. x < v
    <3>1. ASSUME NEW i \in 4 .. 7, x < Values[i + 1] PROVE x < Values[i]
      <4>1. i \in Nat /\ Values[i] \in Nat /\ Values[i] > 0 /\ Values[i + 1] = ByteRange * Values[i]
          BY ValuesAre
      <4>2. (x \div Values[i]) % ByteRange = 0
          BY <1>2, <2>1
      <4> DEFINE u == Values[i]
      <4>3. x % (ByteRange * u) = (x % u) + (((x \div u) % ByteRange) * u)
          BY <1>6, <4>1, NextDigit, Zenon
      <4>4. x % Values[i + 1] = x
        <5>1. Values[i + 1] \in Nat
            BY <1>6, <4>1
        <5>2. x = (Values[i + 1] * 0) + x
            BY <5>1
        <5> QED BY <3>1, <5>1, <5>2, DivModIs
      <4>5. x = x % u
        <5> HIDE DEF u
        <5>1. 0 * u = 0 /\ x % u \in Nat
            BY <4>1, DivMod DEF u
        <5>2. x % (ByteRange * u) = x /\ (x \div u) % ByteRange = 0
            BY <4>1, <4>2, <4>4 DEF u
        <5> QED BY <4>3, <5>1, <5>2
      <4>6. x % u \in 0 .. u - 1
          BY <4>1, DivMod
      <4> QED BY <4>1, <4>5, <4>6
    <3>2. x < Values[7]
        BY <1>8, <3>1
    <3>3. x < Values[6]
        BY <3>1, <3>2
    <3>4. x < Values[5]
        BY <3>1, <3>3
    <3> QED BY <3>1, <3>4
  <2>3. Unsigned(page, pos, 4) = x
    <3>1. Unsigned(page, pos, 4) = x % v
        BY <1>3, BytesRead
    <3>2. x = (v * 0) + x
        BY <1>1
    <3> HIDE DEF v
    <3> QED BY <1>1, <2>2, <3>1, <3>2, DivModIs
  <2> SUFFICES ASSUME ~(x < h) PROVE FALSE
      OBVIOUS
  <2>4. ReadSigned(page, pos, 4) = x - v
    <3>1. Signed(x, 4) = x - v
        BY <2>2, SignedIs, Widths
    <3> QED BY <2>3, <3>1 DEF ReadSigned
  <2>5. (x - v) % w = x
      BY <1>5, <1>8, <2>1, <2>4
  <2>6. (x - v) % w = (x - v) + w
    <3> DEFINE d == x - v
    <3>1. d \in Int /\ -w <= d /\ d < 0
        BY <1>1, <2>2
    <3>2. w \in Nat /\ w > 0
        BY <1>1
    <3> HIDE DEF d, w
    <3>3. d % w = d + w
        BY <3>1, <3>2
    <3> QED BY <3>3 DEF d
  <2> QED BY <1>1, <2>5, <2>6
<1> QED BY <1>4, <1>7, <1>8 DEF LongSize

\* A set of numbers with a bound has a largest one.
LEMMA MaxIs ==
    ASSUME NEW n \in Nat, NEW T, T \subseteq 1 .. n, T # {}
    PROVE  Max(T) \in T
<1> DEFINE R == OpToRel(<, Nat)
           D == {k \in Nat : n - k \in T}
<1>1. IsWellFoundedOn(R, Nat)
    BY NatLessThanWellFounded
<1>2. D \subseteq Nat /\ D # {}
  <2>1. PICK t \in T : TRUE
      OBVIOUS
  <2>2. n - t \in Nat /\ n - (n - t) = t
      BY <2>1
  <2> QED BY <2>1, <2>2
<1>3. PICK k \in D : \A m \in D : <<m, k>> \notin R
  <2> HIDE DEF R, D
  <2> QED BY <1>1, <1>2, WFMin
<1>4. ASSUME NEW y \in T, ~(n - k >= y) PROVE FALSE
  <2>1. n - y \in Nat /\ n - (n - y) = y /\ n - y < k /\ k \in Nat
      BY <1>4
  <2> QED BY <1>3, <2>1 DEF OpToRel
<1> QED BY <1>3, <1>4 DEF Max

\* What is written over a position is what every write that covers it puts there.
LEMMA WrittenIs ==
    ASSUME NEW ws, NEW n \in Nat, DOMAIN ws = 1 .. n, NEW p \in Position
    PROVE  \/ Written(ws)[p] = 0 /\ \A w \in Range(ws) : ~Covers(w, p)
           \/ \E w \in Range(ws) : Covers(w, p) /\ Written(ws)[p] = ByteOf(w, p)
<1> DEFINE over == {i \in DOMAIN ws : Covers(ws[i], p)}
<1>1. Written(ws)[p] = IF over = {} THEN 0 ELSE ByteOf(ws[Max(over)], p)
    BY DEF Written
<1>2. CASE over = {}
    BY <1>1, <1>2 DEF Range
<1>3. CASE over # {}
  <2>1. Max(over) \in over
      BY <1>3, MaxIs
  <2> QED BY <1>1, <1>3, <2>1 DEF Range
<1> QED BY <1>2, <1>3

\* What is written is bytes.
LEMMA WrittenType ==
    ASSUME NEW ws, NEW n \in Nat, DOMAIN ws = 1 .. n,
           \A w \in Range(ws) : \A i \in DOMAIN w[2] : w[2][i] \in Byte
    PROVE  Written(ws) \in [Position -> Byte]
<1>1. 0 \in Byte
    BY FormatAssumption DEF Byte
<1>2. \A p \in Position : Written(ws)[p] \in Byte
    BY <1>1, WrittenIs DEF Covers, ByteOf
<1>3. Written(ws) = [p \in Position |-> Written(ws)[p]]
    BY DEF Written
<1> QED BY <1>2, <1>3

\* Writes that do not touch each other all stay in the page.
Apart(ws) == \A u, w \in Range(ws) : \A p \in Position : Covers(u, p) /\ Covers(w, p) => u = w
Inside(w) == w[1] \in Nat /\ \A i \in DOMAIN w[2] : i \in Int /\ w[1] + i - 1 \in Position

\* Such a write is in the page, if it lies there.
LEMMA WritesStay ==
    ASSUME NEW ws, NEW n \in Nat, DOMAIN ws = 1 .. n, Apart(ws),
           NEW w \in Range(ws), Inside(w)
    PROVE  Bears(Written(ws), w[1], w[2])
<1> SUFFICES ASSUME NEW i \in DOMAIN w[2] PROVE Written(ws)[w[1] + i - 1] = w[2][i]
    BY DEF Bears
<1> DEFINE p == w[1] + i - 1
<1>1. p \in Position /\ (w[1] + i - 1) - w[1] + 1 = i
    BY DEF Inside, Position
<1>2. Covers(w, p) /\ ByteOf(w, p) = w[2][i]
    BY <1>1 DEF Covers, ByteOf
<1> HIDE DEF p
<1>3. Written(ws)[p] = ByteOf(w, p)
    BY <1>1, <1>2, WrittenIs DEF Apart
<1> QED BY <1>2, <1>3 DEF p

\* The bytes of an integer.
LEMMA BytesAre ==
    ASSUME NEW x \in Nat, NEW size \in Nat
    PROVE  /\ DOMAIN IntBytes(x, size) = 1 .. size
           /\ \A i \in 1 .. size : IntBytes(x, size)[i] \in Byte
<1> SUFFICES ASSUME NEW i \in 1 .. size PROVE (x \div Values[i - 1]) % ByteRange \in Byte
    BY DEF IntBytes
<1>1. i - 1 \in Nat
    OBVIOUS
<1>2. Values[i - 1] \in Nat /\ Values[i - 1] > 0
    BY <1>1, ValuesAre
<1>3. x \div Values[i - 1] \in Nat
    BY <1>2, DivMod
<1>4. ByteRange \in Nat /\ ByteRange > 0
    BY FormatAssumption
<1> QED BY <1>3, <1>4, DivMod DEF Byte

\* A page of numbers of eight bytes each, as of the meta page and the free list.
LEMMA LongsWritten ==
    ASSUME NEW ws, NEW n \in Nat, DOMAIN ws = 1 .. n,
           NEW m \in Nat, NEW g \in [0 .. m -> Nat],
           Range(ws) = {<<8 * k, Long(g[k])>> : k \in 0 .. m}
    PROVE  /\ Written(ws) \in [Position -> Byte]
           /\ 8 * (m + 1) <= PageSize =>
                  \A k \in 0 .. m : Bears(Written(ws), 8 * k, Long(g[k]))
<1>1. \A k \in 0 .. m : /\ DOMAIN Long(g[k]) = 1 .. 8
                        /\ \A i \in 1 .. 8 : Long(g[k])[i] \in Byte
    BY BytesAre, Widths DEF Long
<1>2. Written(ws) \in [Position -> Byte]
  <2>1. ASSUME NEW w \in Range(ws) PROVE \A i \in DOMAIN w[2] : w[2][i] \in Byte
    <3>1. PICK k \in 0 .. m : w = <<8 * k, Long(g[k])>>
        OBVIOUS
    <3>2. w[2] = Long(g[k])
        BY <3>1
    <3> QED BY <1>1, <3>2, Zenon
  <2> QED BY <2>1, WrittenType
<1>3. Apart(ws)
  <2> SUFFICES ASSUME NEW u \in Range(ws), NEW w \in Range(ws), NEW p \in Position,
                      Covers(u, p), Covers(w, p)
               PROVE  u = w
      BY DEF Apart
  <2>1. PICK k \in 0 .. m : u = <<8 * k, Long(g[k])>>
      OBVIOUS
  <2>2. PICK l \in 0 .. m : w = <<8 * l, Long(g[l])>>
      OBVIOUS
  <2>3. /\ u[1] = 8 * k /\ DOMAIN u[2] = 1 .. 8
        /\ w[1] = 8 * l /\ DOMAIN w[2] = 1 .. 8
    <3>1. u[1] = 8 * k /\ u[2] = Long(g[k]) /\ w[1] = 8 * l /\ w[2] = Long(g[l])
        BY <2>1, <2>2
    <3> QED BY <1>1, <3>1, Zenon
  <2>4. p - 8 * k + 1 \in 1 .. 8 /\ p - 8 * l + 1 \in 1 .. 8
      BY <2>3 DEF Covers
  <2>5. k = l
      BY <2>4, FormatAssumption DEF Position
  <2> QED BY <2>1, <2>2, <2>5
<1>4. ASSUME 8 * (m + 1) <= PageSize, NEW k \in 0 .. m
      PROVE  Bears(Written(ws), 8 * k, Long(g[k]))
  <2> DEFINE w == <<8 * k, Long(g[k])>>
  <2>1. w \in Range(ws)
      OBVIOUS
  <2>2. w[1] = 8 * k /\ w[2] = Long(g[k])
      OBVIOUS
  <2> HIDE DEF w
  <2>3. Inside(w)
    <3>1. DOMAIN w[2] = 1 .. 8
        BY <1>1, <2>2, Zenon
    <3>2. \A i \in 1 .. 8 : 8 * k + i - 1 \in 0 .. PageSize - 1
        BY <1>4, FormatAssumption
    <3> QED BY <2>2, <3>1, <3>2 DEF Inside, Position
  <2>4. Bears(Written(ws), w[1], w[2])
      BY <1>3, <2>1, <2>3, WritesStay
  <2> QED BY <2>2, <2>4
<1> QED BY <1>2, <1>4

\* Meta::deserialize returns what Meta::serialize wrote.
LEMMA MetaReads ==
    ASSUME NEW a \in Nat, NEW b \in Nat, NEW m, m = [freelistPage |-> a, root |-> b]
    PROVE  /\ SerializeMeta(m) \in [Position -> Byte]
           /\ LongFits(a) /\ LongFits(b) => DeserializeMeta(SerializeMeta(m)) = m
<1> DEFINE ws == << <<0, Long(a)>>, <<8, Long(b)>> >>
           g == [k \in 0 .. 1 |-> IF k = 0 THEN a ELSE b]
<1>1. DOMAIN ws = 1 .. 2
    OBVIOUS
<1>2. g \in [0 .. 1 -> Nat] /\ g[0] = a /\ g[1] = b
    OBVIOUS
<1>3. Range(ws) = {<<8 * k, Long(g[k])>> : k \in 0 .. 1}
  <2>1. Range(ws) = {<<0, Long(a)>>, <<8, Long(b)>>}
    <3>1. 1 .. 2 = {1, 2} /\ ws[1] = <<0, Long(a)>> /\ ws[2] = <<8, Long(b)>>
        OBVIOUS
    <3> HIDE DEF ws
    <3> QED BY <1>1, <3>1 DEF Range
  <2>2. 0 .. 1 = {0, 1} /\ 8 * 0 = 0 /\ 8 * 1 = 8
      OBVIOUS
  <2> HIDE DEF ws, g
  <2> QED BY <1>2, <2>1, <2>2
<1>4. SerializeMeta(m) = Written(ws)
    BY Widths DEF SerializeMeta
<1> HIDE DEF ws, g
<1>5. /\ Written(ws) \in [Position -> Byte]
      /\ 8 * (1 + 1) <= PageSize => \A k \in 0 .. 1 : Bears(Written(ws), 8 * k, Long(g[k]))
    BY <1>1, <1>2, <1>3, LongsWritten
<1>6. Bears(Written(ws), 0, Long(a)) /\ Bears(Written(ws), 8, Long(b))
  <2>1. 8 * (1 + 1) <= PageSize
      BY FormatAssumption, Widths
  <2>2. Bears(Written(ws), 8 * 0, Long(g[0])) /\ Bears(Written(ws), 8 * 1, Long(g[1]))
      BY <1>5, <2>1
  <2> QED BY <1>2, <2>2
<1>7. ASSUME LongFits(a), LongFits(b) PROVE DeserializeMeta(SerializeMeta(m)) = m
  <2>1. ReadLong(Written(ws), 0) = a /\ ReadLong(Written(ws), 8) = b
      BY <1>6, <1>7, LongRead
  <2> QED BY <1>4, <2>1, Widths DEF DeserializeMeta
<1> QED BY <1>4, <1>5, <1>7

\* FreeList::deserialize returns what FreeList::serialize wrote, if it fits.
LEMMA FreeListReads ==
    ASSUME NEW f, f \in [maxPage : Nat, releasedPages : Seq(Nat)]
    PROVE  /\ SerializeFreeList(f) \in [Position -> Byte]
           /\ IsFreeList(f) /\ FreeListFits(f) => FreeListReadsBack(f)
<1> DEFINE max == f.maxPage
           pages == f.releasedPages
           n == Len(pages)
           a == << <<0, Long(max)>>, <<8, Long(n)>> >>
           b == [i \in 1 .. n |-> <<(i + 1) * 8, Long(pages[i])>>]
           ws == a \o b
           g == [k \in 0 .. n + 1 |-> IF k = 0 THEN max ELSE IF k = 1 THEN n ELSE pages[k - 1]]
<1>1. /\ max \in Nat /\ pages \in Seq(Nat) /\ n \in Nat /\ DOMAIN pages = 1 .. n
      /\ \A i \in 1 .. n : pages[i] \in Nat
      /\ f = [maxPage |-> max, releasedPages |-> pages]
    BY LenProperties, ElementOfSeq
<1> HIDE DEF max, pages, n
<1>2. /\ n + 1 \in Nat /\ g \in [0 .. n + 1 -> Nat] /\ g[0] = max /\ g[1] = n
      /\ \A i \in 1 .. n : g[i + 1] = pages[i]
  <2>1. \A k \in 0 .. n + 1 : k # 0 /\ k # 1 => pages[k - 1] \in Nat
      BY <1>1
  <2>2. \A i \in 1 .. n : i + 1 \in 0 .. n + 1 /\ i + 1 # 0 /\ i + 1 # 1 /\ (i + 1) - 1 = i
      BY <1>1
  <2> QED BY <1>1, <2>1, <2>2
<1>3. \E k \in Nat : DOMAIN ws = 1 .. k
      /\ Range(ws) = {<<0, Long(max)>>, <<8, Long(n)>>}
                         \cup {<<(i + 1) * 8, Long(pages[i])>> : i \in 1 .. n}
  <2> DEFINE A == {<<0, Long(max)>>, <<8, Long(n)>>}
             B == {<<(i + 1) * 8, Long(pages[i])>> : i \in 1 .. n}
             S == A \cup B
  <2>1. a \in Seq(S) /\ Range(a) = A
    <3>1. DOMAIN a = 1 .. 2 /\ a[1] = <<0, Long(max)>> /\ a[2] = <<8, Long(n)>>
          /\ 1 .. 2 = {1, 2} /\ Len(a) = 2
        OBVIOUS
    <3>2. a \in Seq(S)
        OBVIOUS
    <3> HIDE DEF a
    <3> QED BY <3>1, <3>2 DEF Range
  <2>2. b \in Seq(S) /\ Range(b) = B
    <3>1. b \in [1 .. n -> S]
        OBVIOUS
    <3>2. b \in Seq(S)
      <4> HIDE DEF b, S
      <4> QED BY <1>1, <3>1, SeqDef
    <3>3. Range(b) = B
        BY DEF Range
    <3> QED BY <3>2, <3>3
  <2> HIDE DEF a, b, A, B
  <2>3. Range(a \o b) = Range(a) \cup Range(b)
      BY <2>1, <2>2, RangeConcatenation
  <2>4. a \o b \in Seq(S)
      BY <2>1, <2>2, ConcatProperties
  <2> HIDE DEF S
  <2>5. Len(a \o b) \in Nat /\ DOMAIN (a \o b) = 1 .. Len(a \o b)
      BY <2>4, LenProperties
  <2> QED BY <2>1, <2>2, <2>3, <2>5 DEF A, B
<1>4. Range(ws) = {<<8 * k, Long(g[k])>> : k \in 0 .. n + 1}
  <2> HIDE DEF ws, g
  <2>1. \A k \in 0 .. n + 1 : k = 0 \/ k = 1 \/ (k - 1 \in 1 .. n /\ ((k - 1) + 1) * 8 = 8 * k
                                                  /\ (k - 1) + 1 = k)
      BY <1>1
  <2>2. \A i \in 1 .. n : i + 1 \in 0 .. n + 1 /\ (i + 1) * 8 = 8 * (i + 1)
      BY <1>1
  <2>3. 8 * 0 = 0 /\ 8 * 1 = 8 /\ 0 \in 0 .. n + 1 /\ 1 \in 0 .. n + 1
      BY <1>1
  <2>4. \A k \in 0 .. n + 1 : <<8 * k, Long(g[k])>> \in Range(ws)
    <3> SUFFICES ASSUME NEW k \in 0 .. n + 1 PROVE <<8 * k, Long(g[k])>> \in Range(ws)
        OBVIOUS
    <3>1. CASE k = 0
        BY <1>2, <1>3, <2>3, <3>1
    <3>2. CASE k = 1
        BY <1>2, <1>3, <2>3, <3>2
    <3>3. CASE k # 0 /\ k # 1
      <4> DEFINE i == k - 1
      <4>1. i \in 1 .. n /\ (i + 1) * 8 = 8 * k /\ i + 1 = k
          BY <2>1, <3>3
      <4> HIDE DEF i
      <4>2. g[k] = pages[i]
          BY <1>2, <4>1
      <4> QED BY <1>3, <4>1, <4>2
    <3> QED BY <3>1, <3>2, <3>3
  <2>5. ASSUME NEW w \in Range(ws) PROVE \E k \in 0 .. n + 1 : w = <<8 * k, Long(g[k])>>
    <3>1. CASE w = <<0, Long(max)>>
        BY <1>2, <2>3, <3>1
    <3>2. CASE w = <<8, Long(n)>>
        BY <1>2, <2>3, <3>2
    <3>3. CASE \E i \in 1 .. n : w = <<(i + 1) * 8, Long(pages[i])>>
        BY <1>2, <2>2, <3>3
    <3> QED BY <1>3, <3>1, <3>2, <3>3
  <2> QED BY <2>4, <2>5
<1>5. SerializeFreeList(f) = Written(ws)
    BY <1>1, Widths DEF SerializeFreeList, FreeListWrites, ReleasedAt, max, n, pages
<1>6. /\ Written(ws) \in [Position -> Byte]
      /\ 8 * ((n + 1) + 1) <= PageSize =>
             \A k \in 0 .. n + 1 : Bears(Written(ws), 8 * k, Long(g[k]))
  <2>1. PICK k \in Nat : DOMAIN ws = 1 .. k
      BY <1>3
  <2> HIDE DEF ws, g
  <2> QED BY <1>2, <1>4, <2>1, LongsWritten
<1> HIDE DEF ws, g
<1>7. ASSUME IsFreeList(f), FreeListFits(f) PROVE FreeListReadsBack(f)
  <2>1. PageSize \in Nat /\ PageSize <= Values[2] \div 2
      BY FormatAssumption, Widths
  <2>2. (2 + n) * 8 <= PageSize
      BY <1>7, Widths DEF FreeListFits, n, pages
  <2>3. \A k \in 0 .. n + 1 : Bears(Written(ws), 8 * k, Long(g[k]))
      BY <1>1, <1>6, <2>2
  <2>4. LongFits(max) /\ \A i \in 1 .. n : LongFits(pages[i])
      BY <1>1, <1>7 DEF IsFreeList, max, pages
  <2>5. LongFits(n)
    <3>1. Values[2] \div 2 \in Nat /\ Values[2] \div 2 <= Values[4] \div 2 /\ Values[4] \div 2 \in Nat
        BY Widths
    <3>2. n < Values[4] \div 2
        BY <1>1, <2>1, <2>2, <3>1
    <3> QED BY <3>2, Widths DEF LongFits
  <2>6. ReadLong(Written(ws), 0) = max
    <3>1. Bears(Written(ws), 0, Long(max))
      <4>1. 0 \in 0 .. n + 1 /\ 8 * 0 = 0
          BY <1>1
      <4> QED BY <1>2, <2>3, <4>1
    <3> QED BY <1>1, <2>4, <3>1, LongRead
  <2>7. ReadLong(Written(ws), 8) = n
    <3>1. Bears(Written(ws), 8, Long(n))
      <4>1. 1 \in 0 .. n + 1 /\ 8 * 1 = 8
          BY <1>1
      <4> QED BY <1>2, <2>3, <4>1
    <3> QED BY <1>1, <2>5, <3>1, LongRead
  <2>8. ASSUME NEW i \in 1 .. n PROVE ReadLong(Written(ws), (i + 1) * 8) = pages[i]
    <3>1. i + 1 \in 0 .. n + 1 /\ 8 * (i + 1) = (i + 1) * 8 /\ (i + 1) * 8 \in Nat
        BY <1>1
    <3>2. Bears(Written(ws), (i + 1) * 8, Long(pages[i]))
        BY <1>2, <2>3, <3>1
    <3> QED BY <1>1, <2>4, <3>1, <3>2, LongRead
  <2>9. n \in 0 .. PageSize \div 8 - 2
    <3>1. n + 2 <= PageSize \div 8
        BY <1>1, <2>1, <2>2
    <3> QED BY <1>1, <2>1, <3>1
  <2>10. pages = [i \in 1 .. n |-> ReadLong(Written(ws), (i + 1) * 8)]
    <3>1. pages = [i \in 1 .. n |-> pages[i]]
        BY <1>1, LenProperties DEF n
    <3> QED BY <2>8, <3>1
  <2>11. DeserializeFreeList(Written(ws))
            = [maxPage |-> max, releasedPages |-> [i \in 1 .. n |-> ReadLong(Written(ws), (i + 1) * 8)]]
      BY <2>6, <2>7, <2>9, Widths DEF DeserializeFreeList, ReleasedAt
  <2> QED BY <1>1, <1>5, <2>10, <2>11 DEF FreeListReadsBack
<1> QED BY <1>5, <1>6, <1>7

\* An empty page reads as numbers 0.
LEMMA EmptyReads ==
    /\ EmptyPage \in [Position -> Byte]
    /\ DeserializeMeta(EmptyPage) = [freelistPage |-> 0, root |-> 0]
    /\ DeserializeFreeList(EmptyPage) = EmptyFreeList
<1>1. ByteRange \in Nat /\ ByteRange > 0 /\ PageSize \in Nat /\ 16 <= PageSize
    BY FormatAssumption, Widths
<1>2. EmptyPage \in [Position -> Byte]
    BY <1>1 DEF EmptyPage, Byte
<1>3. \A i \in 1 .. 8 : Long(0)[i] = 0
  <2> SUFFICES ASSUME NEW i \in 1 .. 8 PROVE (0 \div Values[i - 1]) % ByteRange = 0
      BY Widths DEF Long, IntBytes
  <2>1. i - 1 \in Nat
      OBVIOUS
  <2>2. Values[i - 1] \in Nat /\ Values[i - 1] > 0
      BY <2>1, ValuesAre
  <2> DEFINE v == Values[i - 1]
  <2> HIDE DEF v
  <2>3. 0 \div v = 0
    <3>1. v \in Nat /\ v > 0 /\ 0 = (v * 0) + 0
        BY <2>2 DEF v
    <3> QED BY <3>1, DivModIs
  <2>4. 0 % ByteRange = 0
      BY <1>1
  <2> QED BY <2>3, <2>4 DEF v
<1>4. ASSUME NEW pos \in {0, 8} PROVE ReadLong(EmptyPage, pos) = 0
  <2>1. DOMAIN Long(0) = 1 .. 8
      BY BytesAre, Widths DEF Long
  <2>2. \A i \in 1 .. 8 : EmptyPage[pos + i - 1] = 0
      BY <1>1 DEF EmptyPage, Position
  <2>3. Bears(EmptyPage, pos, Long(0))
      BY <1>3, <2>1, <2>2 DEF Bears
  <2>4. LongFits(0)
      BY Widths DEF LongFits
  <2> QED BY <2>3, <2>4, LongRead
<1>5. DeserializeMeta(EmptyPage) = [freelistPage |-> 0, root |-> 0]
    BY <1>4, Widths DEF DeserializeMeta
<1>6. DeserializeFreeList(EmptyPage) = EmptyFreeList
  <2>1. 0 \in 0 .. PageSize \div 8 - 2
    <3>1. 2 <= PageSize \div 8
        BY <1>1
    <3> QED BY <1>1, <3>1
  <2>2. ReadLong(EmptyPage, 0) = 0 /\ ReadLong(EmptyPage, 8) = 0
      BY <1>4
  <2>3. DeserializeFreeList(EmptyPage)
            = [maxPage |-> 0, releasedPages |-> [i \in 1 .. 0 |-> ReadLong(EmptyPage, ReleasedAt(i))]]
      BY <2>1, <2>2, Widths DEF DeserializeFreeList
  <2>4. [i \in 1 .. 0 |-> ReadLong(EmptyPage, ReleasedAt(i))] = <<>>
      OBVIOUS
  <2> QED BY <2>3, <2>4 DEF EmptyFreeList, InitialPage
<1> QED BY <1>2, <1>5, <1>6

-----------------------------------------------------------------------------
(***************************************************************************)
(* Nodes.                                                                  *)
(***************************************************************************)
\* What a node has, if it fits.
LEMMA NodeIs ==
    ASSUME NEW n, IsNode(n)
    PROVE  /\ n = [items |-> n.items, kids |-> n.kids]
           /\ Len(n.items) \in Nat /\ DOMAIN n.items = 1 .. Len(n.items)
           /\ n.items = [i \in 1 .. Len(n.items) |-> n.items[i]]
           /\ \A i \in 1 .. Len(n.items) :
                  /\ n.items[i] = [key |-> n.items[i].key, value |-> n.items[i].value]
                  /\ n.items[i].key \in Seq(Byte) /\ n.items[i].value \in Seq(Byte)
                  /\ Len(n.items[i].key) \in Nat /\ Len(n.items[i].value) \in Nat
           /\ n.kids \in Seq(Nat)
           /\ IsLeaf(n) <=> n.kids = <<>>
           /\ ~IsLeaf(n) => /\ Len(n.kids) = Len(n.items) + 1
                            /\ n.kids = [i \in 1 .. Len(n.items) + 1 |-> n.kids[i]]
                            /\ \A i \in 1 .. Len(n.items) + 1 : n.kids[i] \in Nat
<1> DEFINE T == [key : Seq(Byte), value : Seq(Byte)]
<1>1. n = [items |-> n.items, kids |-> n.kids] /\ n.items \in Seq(T) /\ n.kids \in Seq(Nat)
    BY DEF IsNode
<1>2. /\ Len(n.items) \in Nat /\ DOMAIN n.items = 1 .. Len(n.items)
      /\ n.items = [i \in 1 .. Len(n.items) |-> n.items[i]]
      /\ \A i \in 1 .. Len(n.items) : n.items[i] \in T
  <2> HIDE DEF T
  <2> QED BY <1>1, RangeIs, LenProperties
<1>3. ASSUME NEW i \in 1 .. Len(n.items)
      PROVE  /\ n.items[i] = [key |-> n.items[i].key, value |-> n.items[i].value]
             /\ n.items[i].key \in Seq(Byte) /\ n.items[i].value \in Seq(Byte)
             /\ Len(n.items[i].key) \in Nat /\ Len(n.items[i].value) \in Nat
  <2>1. n.items[i] \in T
      BY <1>2
  <2>2. /\ n.items[i] = [key |-> n.items[i].key, value |-> n.items[i].value]
        /\ n.items[i].key \in Seq(Byte) /\ n.items[i].value \in Seq(Byte)
      BY <2>1
  <2> QED BY <2>2, LenProperties
<1>4. ASSUME ~IsLeaf(n)
      PROVE  /\ Len(n.kids) = Len(n.items) + 1
             /\ n.kids = [i \in 1 .. Len(n.items) + 1 |-> n.kids[i]]
             /\ \A i \in 1 .. Len(n.items) + 1 : n.kids[i] \in Nat
  <2>1. Len(n.kids) = Len(n.items) + 1
      BY <1>4 DEF IsNode
  <2>2. n.kids = [i \in 1 .. Len(n.kids) |-> n.kids[i]] /\ \A i \in 1 .. Len(n.kids) : n.kids[i] \in Nat
      BY <1>1, LenProperties, ElementOfSeq
  <2> QED BY <2>1, <2>2
<1>5. IsLeaf(n) <=> n.kids = <<>>
    BY DEF IsLeaf
<1> QED BY <1>1, <1>2, <1>3, <1>4, <1>5

\* The lengths of keys and values, as chars, are what they are.
LEMMA LengthsAre ==
    ASSUME NEW n, IsNode(n), LengthsFit(n), NEW i \in 1 .. Len(n.items)
    PROVE  /\ CharLength(n.items[i].key) = Len(n.items[i].key)
           /\ CharLength(n.items[i].value) = Len(n.items[i].value)
           /\ Len(n.items[i].key) < Values[1] \div 2 /\ Len(n.items[i].value) < Values[1] \div 2
<1>1. Len(n.items[i].key) \in Nat /\ Len(n.items[i].value) \in Nat /\ DOMAIN n.items = 1 .. Len(n.items)
    BY NodeIs
<1>2. Len(n.items[i].key) <= CharMax /\ Len(n.items[i].value) <= CharMax
    BY <1>1 DEF LengthsFit
<1>3. /\ Values[1] = ByteRange /\ ByteRange \in Nat
      /\ Values[1] \in Nat /\ Values[1] \div 2 \in Nat /\ Values[1] = 2 * (Values[1] \div 2)
  <2>1. Values[0 + 1] = ByteRange * Values[0] /\ Values[0] = 1 /\ ByteRange \in Nat
      BY ValuesAre, FormatAssumption
  <2>2. Values[1] = ByteRange
      BY <2>1
  <2> QED BY <2>1, <2>2, Widths
<1>4. ASSUME NEW x \in Nat, x <= CharMax PROVE x < Values[1] \div 2 /\ x < Values[1]
    BY <1>3, <1>4 DEF CharMax
<1>5. ASSUME NEW x \in Nat, x <= CharMax PROVE Signed(x, 1) = x
    BY <1>4, <1>5, SignedIs, Widths
<1> QED BY <1>1, <1>2, <1>4, <1>5, Widths DEF CharLength

\* Where the parts of a node are: the slots from the start of the page on, the
\* items from its end on, and the slots before the items.
LEMMA Layout ==
    ASSUME NEW n, IsNode(n), NodeFits(n),
           NEW ptr, ptr = Pointer(IsLeaf(n)), NEW m, m = Len(n.items)
    PROVE  /\ ptr = (IF IsLeaf(n) THEN 0 ELSE 8) /\ m \in Nat /\ PageSize \in Nat
           /\ \A i : HeaderAt(IsLeaf(n), i) = 3 + (i - 1) * (ptr + 2)
           /\ EndAt(n, 1) = PageSize - 1
           /\ \A i \in 1 .. m + 1 : EndAt(n, i) \in Int
           /\ \A i \in 1 .. m :
                  EndAt(n, i + 1) = EndAt(n, i) - Len(n.items[i].key) - Len(n.items[i].value) - 2
           /\ \A i \in 1 .. m + 1 : \A j \in 1 .. m + 1 : i <= j => EndAt(n, j) <= EndAt(n, i)
           /\ 3 + m * (ptr + 2) + ptr <= EndAt(n, m + 1)
<1>1. ptr = (IF IsLeaf(n) THEN 0 ELSE 8)
    BY Widths DEF Pointer
<1>2. \A i : HeaderAt(IsLeaf(n), i) = 3 + (i - 1) * (ptr + 2)
    BY Widths DEF HeaderAt, HeaderSize
<1> DEFINE k(i) == Len(n.items[i].key)
           v(i) == Len(n.items[i].value)
           lens == [j \in DOMAIN n.items |-> LengthOf(n.items[j]) + LengthsSize]
           sizes == [j \in DOMAIN n.items |-> SizeOf(IsLeaf(n), n.items[j])]
<1>3. m \in Nat /\ DOMAIN n.items = 1 .. m /\ \A i \in 1 .. m : k(i) \in Nat /\ v(i) \in Nat
    BY NodeIs
<1> HIDE DEF k, v
<1>4. LengthsFit(n) /\ Size(n) < PageSize
    BY DEF NodeFits
<1>5. ASSUME NEW i \in 1 .. m
      PROVE  /\ lens[i] = k(i) + v(i) + 2 /\ sizes[i] = ptr + 2 + 2 + k(i) + v(i)
             /\ lens[i] \in Int /\ sizes[i] \in Int
  <2>1. LengthOf(n.items[i]) = k(i) + v(i)
      BY <1>4, LengthsAre DEF LengthOf, k, v
  <2>2. lens[i] = LengthOf(n.items[i]) + 2 /\ sizes[i] = SizeOf(IsLeaf(n), n.items[i])
      BY <1>3, Widths DEF LengthsSize
  <2>3. sizes[i] = ptr + 2 + 2 + k(i) + v(i)
      BY <2>2, Widths DEF SizeOf, LengthsSize, k, v
  <2> QED BY <1>1, <1>3, <2>1, <2>2, <2>3
<1>6. lens \in Seq(Int) /\ sizes \in Seq(Int) /\ Len(lens) = m /\ Len(sizes) = m
  <2>1. lens \in [1 .. m -> Int] /\ sizes \in [1 .. m -> Int]
    <3>1. lens = [i \in 1 .. m |-> lens[i]] /\ sizes = [i \in 1 .. m |-> sizes[i]]
        BY <1>3
    <3> HIDE DEF lens, sizes
    <3> QED BY <1>5, <3>1
  <2> HIDE DEF lens, sizes
  <2>2. lens \in Seq(Int) /\ sizes \in Seq(Int)
      BY <1>3, <2>1, SeqDef
  <2> QED BY <1>3, <2>1, <2>2, LenProperties
<1>7. /\ \A i : EndAt(n, i) = PageSize - 1 - SumOf(lens, i - 1)
      /\ Size(n) = 3 + ptr + SumOf(sizes, m)
    BY Widths DEF EndAt, LastPosition, Size, HeaderSize
<1> HIDE DEF lens, sizes
<1>8. /\ SumOf(lens, 0) = 0 /\ SumOf(sizes, 0) = 0
      /\ \A i \in 0 .. m : SumOf(lens, i) \in Int /\ SumOf(sizes, i) \in Int
      /\ \A i \in 1 .. m : /\ SumOf(lens, i) = SumOf(lens, i - 1) + lens[i]
                           /\ SumOf(sizes, i) = SumOf(sizes, i - 1) + sizes[i]
    BY <1>6, SumIs
<1>9. PageSize \in Nat
    BY FormatAssumption
<1>10. EndAt(n, 1) = PageSize - 1 /\ \A i \in 1 .. m + 1 : EndAt(n, i) \in Int
  <2>1. \A i \in 1 .. m + 1 : i - 1 \in 0 .. m
      BY <1>3
  <2>2. EndAt(n, 1) = PageSize - 1
    <3>1. 1 - 1 = 0
        OBVIOUS
    <3>2. EndAt(n, 1) = PageSize - 1 - SumOf(lens, 0)
        BY <1>7, <3>1
    <3> QED BY <1>8, <1>9, <3>2
  <2>3. ASSUME NEW i \in 1 .. m + 1 PROVE EndAt(n, i) \in Int
    <3>1. SumOf(lens, i - 1) \in Int
        BY <1>8, <2>1
    <3>2. EndAt(n, i) = PageSize - 1 - SumOf(lens, i - 1)
        BY <1>7
    <3> QED BY <1>9, <3>1, <3>2
  <2> QED BY <2>2, <2>3
<1>11. ASSUME NEW i \in 1 .. m PROVE EndAt(n, i + 1) = EndAt(n, i) - k(i) - v(i) - 2
  <2>1. (i + 1) - 1 = i /\ i - 1 \in 0 .. m /\ i \in 0 .. m
      BY <1>3
  <2>2. SumOf(lens, i) = SumOf(lens, i - 1) + (k(i) + v(i) + 2)
      BY <1>5, <1>8
  <2>3. EndAt(n, i + 1) = PageSize - 1 - SumOf(lens, i) /\ EndAt(n, i) = PageSize - 1 - SumOf(lens, i - 1)
      BY <1>7, <2>1
  <2>4. k(i) \in Nat /\ v(i) \in Nat /\ SumOf(lens, i - 1) \in Int
      BY <1>3, <1>8, <2>1
  <2> DEFINE a == SumOf(lens, i - 1)
             b == SumOf(lens, i)
             c == k(i)
             d == v(i)
             x == EndAt(n, i)
             y == EndAt(n, i + 1)
  <2>5. a \in Int /\ c \in Nat /\ d \in Nat /\ b = a + (c + d + 2)
        /\ y = PageSize - 1 - b /\ x = PageSize - 1 - a
      BY <2>2, <2>3, <2>4, Zenon
  <2> HIDE DEF a, b, c, d, x, y
  <2>6. y = x - c - d - 2
      BY <1>9, <2>5
  <2> QED BY <2>6 DEF c, d, x, y
<1> DEFINE T == {j \in Nat : j \in 1 .. m + 1 => \A i \in 1 .. j : EndAt(n, j) <= EndAt(n, i)}
           U == {j \in Nat : j \in 0 .. m => SumOf(sizes, j) = SumOf(lens, j) + j * (ptr + 2)}
<1>12. \A i \in 1 .. m + 1 : \A j \in 1 .. m + 1 : i <= j => EndAt(n, j) <= EndAt(n, i)
  <2>1. 0 \in T
      OBVIOUS
  <2>2. ASSUME NEW j \in Nat, j \in T PROVE j + 1 \in T
    <3> SUFFICES ASSUME j + 1 \in 1 .. m + 1, NEW i \in 1 .. j + 1
                 PROVE  EndAt(n, j + 1) <= EndAt(n, i)
        OBVIOUS
    <3>1. CASE i = j + 1
        BY <1>10, <3>1
    <3>2. CASE i # j + 1
      <4>1. i \in 1 .. j /\ j \in 1 .. m /\ j \in 1 .. m + 1 /\ i \in 1 .. m + 1
          BY <1>3, <3>2
      <4>2. EndAt(n, j) <= EndAt(n, i)
          BY <2>2, <4>1
      <4>3. EndAt(n, j + 1) = EndAt(n, j) - k(j) - v(j) - 2
          BY <1>11, <4>1
      <4>4. k(j) \in Nat /\ v(j) \in Nat /\ EndAt(n, j) \in Int /\ EndAt(n, i) \in Int
          BY <1>3, <1>10, <4>1
      <4> QED BY <4>2, <4>3, <4>4
    <3> QED BY <3>1, <3>2
  <2>3. Nat \subseteq T
    <3> HIDE DEF T
    <3>1. \A j \in Nat : j \in T => j + 1 \in T
        BY <2>2
    <3> QED BY <2>1, <3>1, SetInduction
  <2> QED BY <1>3, <2>3
<1>13. SumOf(sizes, m) = SumOf(lens, m) + m * (ptr + 2)
  <2>1. 0 \in U
    <3>1. 0 * (ptr + 2) = 0
        BY <1>1
    <3> QED BY <1>8, <3>1
  <2>2. ASSUME NEW j \in Nat, j \in U PROVE j + 1 \in U
    <3> SUFFICES ASSUME j + 1 \in 0 .. m
                 PROVE  SumOf(sizes, j + 1) = SumOf(lens, j + 1) + (j + 1) * (ptr + 2)
        OBVIOUS
    <3>1. j + 1 \in 1 .. m /\ (j + 1) - 1 = j /\ j \in 0 .. m
        BY <1>3
    <3>2. SumOf(sizes, j) = SumOf(lens, j) + j * (ptr + 2)
        BY <2>2, <3>1
    <3>3. SumOf(sizes, j + 1) = SumOf(sizes, j) + (ptr + 2 + 2 + k(j + 1) + v(j + 1))
        BY <1>5, <1>8, <3>1
    <3>4. SumOf(lens, j + 1) = SumOf(lens, j) + (k(j + 1) + v(j + 1) + 2)
        BY <1>5, <1>8, <3>1
    <3>5. (j + 1) * (ptr + 2) = j * (ptr + 2) + ptr + 2 /\ j * (ptr + 2) \in Int
        BY <1>1
    <3>6. k(j + 1) \in Nat /\ v(j + 1) \in Nat /\ SumOf(sizes, j) \in Int /\ SumOf(lens, j) \in Int
        BY <1>3, <1>8, <3>1
    <3> DEFINE x == j * (ptr + 2)
               y == (j + 1) * (ptr + 2)
               a == SumOf(sizes, j)
               b == SumOf(lens, j)
               c == k(j + 1)
               d == v(j + 1)
    <3>7. y = x + ptr + 2 /\ x \in Int /\ ptr \in Int
        BY <1>1, <3>5
    <3>8. /\ a \in Int /\ b \in Int /\ c \in Nat /\ d \in Nat /\ a = b + x
          /\ SumOf(sizes, j + 1) = a + (ptr + 2 + 2 + c + d)
          /\ SumOf(lens, j + 1) = b + (c + d + 2)
        BY <3>2, <3>3, <3>4, <3>6, Zenon
    <3> HIDE DEF x, y, a, b, c, d, T, U
    <3>9. a + (ptr + 2 + 2 + c + d) = (b + (c + d + 2)) + y
      <4>1. b \in Int /\ c \in Int /\ d \in Int /\ a = b + x
          BY <3>8
      <4> DEFINE e == c + d
                 q == x + ptr
      <4>2. e \in Int /\ q \in Int /\ c + d + 2 = e + 2 /\ y = q + 2
          BY <3>7, <4>1
      <4>3. ptr + 2 + 2 + c + d = ptr + (e + 4)
          BY <3>7, <4>1
      <4>4. (b + x) + (ptr + (e + 4)) = b + (q + (e + 4))
          BY <3>7, <4>1, <4>2
      <4> HIDE DEF e, q
      <4>5. b + (q + (e + 4)) = (b + (e + 2)) + (q + 2)
          BY <4>1, <4>2
      <4> QED BY <4>1, <4>2, <4>3, <4>4, <4>5
    <3>10. SumOf(sizes, j + 1) = SumOf(lens, j + 1) + y
        BY <3>8, <3>9, Zenon
    <3> QED BY <3>10 DEF y
  <2>3. m \in U
    <3> HIDE DEF U
    <3>1. \A j \in Nat : j \in U => j + 1 \in U
        BY <2>2
    <3> QED BY <1>3, <2>1, <3>1, SetInduction
  <2> QED BY <1>3, <2>3
<1>14. 3 + m * (ptr + 2) + ptr <= EndAt(n, m + 1)
  <2>1. EndAt(n, m + 1) = PageSize - 1 - SumOf(lens, m)
    <3>1. (m + 1) - 1 = m
        BY <1>3
    <3> QED BY <1>7, <3>1
  <2>2. m * (ptr + 2) \in Int /\ SumOf(lens, m) \in Int
      BY <1>1, <1>3, <1>8
  <2> DEFINE x == m * (ptr + 2)
             d == SumOf(lens, m)
             z == Size(n)
             e == EndAt(n, m + 1)
  <2>3. z = 3 + ptr + (d + x) /\ e = PageSize - 1 - d
      BY <1>7, <1>13, <2>1, Zenon
  <2>4. x \in Int /\ d \in Int /\ ptr \in Int /\ z < PageSize
      BY <1>1, <1>4, <2>2
  <2> HIDE DEF x, d, z, e
  <2>5. 3 + x + ptr <= e
      BY <1>9, <2>3, <2>4
  <2> QED BY <2>5 DEF x, e
<1> QED BY <1>1, <1>2, <1>3, <1>9, <1>10, <1>11, <1>12, <1>14 DEF k, v

\* The writes of Node::serialize: the header; of each item a slot with the page
\* of a child and the offset, and the item itself; the last child.
HeadWrite(n) == <<0, <<IF IsLeaf(n) THEN 1 ELSE 0>> \o IntBytes(Len(n.items), 2)>>
KidWrite(n, i) == <<HeaderAt(IsLeaf(n), i), Long(n.kids[i])>>
OffsetWrite(n, i) ==
    <<HeaderAt(IsLeaf(n), i) + Pointer(IsLeaf(n)), IntBytes(EndAt(n, i + 1), 2)>>
ValueWrite(n, i) == <<EndAt(n, i) - Len(n.items[i].value), n.items[i].value>>
ValueLengthWrite(n, i) ==
    <<EndAt(n, i) - Len(n.items[i].value) - 1, IntBytes(Len(n.items[i].value), 1)>>
KeyWrite(n, i) ==
    <<EndAt(n, i) - Len(n.items[i].value) - 1 - Len(n.items[i].key), n.items[i].key>>
KeyLengthWrite(n, i) ==
    <<EndAt(n, i) - Len(n.items[i].value) - 1 - Len(n.items[i].key) - 1,
      IntBytes(Len(n.items[i].key), 1)>>

SlotWrites(n, i) == {OffsetWrite(n, i)} \cup (IF IsLeaf(n) THEN {} ELSE {KidWrite(n, i)})
BodyWrites(n, i) ==
    {ValueWrite(n, i), ValueLengthWrite(n, i), KeyWrite(n, i), KeyLengthWrite(n, i)}

\* A string no longer than a char counts is copied as a whole.
LEMMA CopiedAll ==
    ASSUME NEW s \in Seq(Byte)
    PROVE  Copied(s, Len(s)) = s
<1>1. Len(s) \in Nat
    BY LenProperties
<1>2. SubSeq(s, 1, Len(s)) = s
    BY SubSeqFull
<1> QED BY <1>1, <1>2 DEF Copied

\* An item's writes are these.
LEMMA ItemWritesAre ==
    ASSUME NEW n, IsNode(n), NodeFits(n), NEW i \in 1 .. Len(n.items)
    PROVE  /\ Range(ItemWrites(n, i)) = SlotWrites(n, i) \cup BodyWrites(n, i)
           /\ \A S : Range(ItemWrites(n, i)) \subseteq S => ItemWrites(n, i) \in Seq(S)
<1> DEFINE k == CharLength(n.items[i].key)
           v == CharLength(n.items[i].value)
           a == IF IsLeaf(n) THEN <<>> ELSE <<KidWrite(n, i)>>
           b == <<OffsetWrite(n, i), ValueWrite(n, i), ValueLengthWrite(n, i),
                  KeyWrite(n, i), KeyLengthWrite(n, i)>>
<1>1. /\ k = Len(n.items[i].key) /\ v = Len(n.items[i].value)
      /\ n.items[i].key \in Seq(Byte) /\ n.items[i].value \in Seq(Byte)
    BY NodeIs, LengthsAre DEF NodeFits
<1>2. Copied(n.items[i].key, k) = n.items[i].key /\ Copied(n.items[i].value, v) = n.items[i].value
    BY <1>1, CopiedAll
<1>3. ItemWrites(n, i) = a \o b
  <2>1. ItemWrites(n, i) =
            (IF IsLeaf(n) THEN <<>> ELSE << <<HeaderAt(IsLeaf(n), i), Long(n.kids[i])>> >>)
            \o << <<HeaderAt(IsLeaf(n), i) + Pointer(IsLeaf(n)), IntBytes(EndAt(n, i + 1), 2)>>,
                  <<EndAt(n, i) - v, Copied(n.items[i].value, v)>>,
                  <<EndAt(n, i) - v - 1, IntBytes(v, 1)>>,
                  <<EndAt(n, i) - v - 1 - k, Copied(n.items[i].key, k)>>,
                  <<EndAt(n, i) - v - 1 - k - 1, IntBytes(k, 1)>> >>
      BY Widths DEF ItemWrites, OffsetOf
  <2> HIDE DEF k, v
  <2> QED BY <1>1, <1>2, <2>1
          DEF KidWrite, OffsetWrite, ValueWrite, ValueLengthWrite, KeyWrite, KeyLengthWrite
<1> DEFINE A == IF IsLeaf(n) THEN {} ELSE {KidWrite(n, i)}
           B == {OffsetWrite(n, i), ValueWrite(n, i), ValueLengthWrite(n, i),
                 KeyWrite(n, i), KeyLengthWrite(n, i)}
<1>4. Range(a) = A /\ \A S : A \subseteq S => a \in Seq(S)
  <2>1. CASE IsLeaf(n)
    <3>1. a = <<>> /\ A = {} /\ DOMAIN a = {}
        BY <2>1
    <3> QED BY <3>1, EmptySeq DEF Range
  <2>2. CASE ~IsLeaf(n)
    <3> DEFINE w == KidWrite(n, i)
    <3>1. a = <<w>> /\ A = {w}
        BY <2>2
    <3> HIDE DEF w, a, A
    <3>2. DOMAIN a = {1} /\ a[1] = w
        BY <3>1
    <3>3. ASSUME NEW S, A \subseteq S PROVE a \in Seq(S)
        BY <3>1, <3>3
    <3> QED BY <3>1, <3>2, <3>3 DEF Range
  <2> QED BY <2>1, <2>2
<1>5. Range(b) = B /\ \A S : B \subseteq S => b \in Seq(S)
  <2> DEFINE w1 == OffsetWrite(n, i)
             w2 == ValueWrite(n, i)
             w3 == ValueLengthWrite(n, i)
             w4 == KeyWrite(n, i)
             w5 == KeyLengthWrite(n, i)
  <2>1. b = <<w1, w2, w3, w4, w5>> /\ B = {w1, w2, w3, w4, w5}
      OBVIOUS
  <2> HIDE DEF b, B, w1, w2, w3, w4, w5
  <2>2. DOMAIN b = {1, 2, 3, 4, 5} /\ b[1] = w1 /\ b[2] = w2 /\ b[3] = w3 /\ b[4] = w4 /\ b[5] = w5
      BY <2>1
  <2>3. ASSUME NEW S, B \subseteq S PROVE b \in Seq(S)
      BY <2>1, <2>3
  <2>4. Range(b) = {b[x] : x \in DOMAIN b}
      BY DEF Range
  <2> QED BY <2>1, <2>2, <2>3, <2>4
<1> HIDE DEF a, b, A, B
<1>6. ASSUME NEW S, A \cup B \subseteq S PROVE a \o b \in Seq(S) /\ Range(a \o b) = A \cup B
  <2>1. a \in Seq(S) /\ b \in Seq(S)
      BY <1>4, <1>5, <1>6
  <2>2. Range(a \o b) = Range(a) \cup Range(b)
      BY <2>1, RangeConcatenation
  <2> QED BY <1>4, <1>5, <2>1, <2>2, ConcatProperties
<1>7. Range(a \o b) = A \cup B
    BY <1>6
<1>8. A \cup B = SlotWrites(n, i) \cup BodyWrites(n, i)
    BY DEF A, B, SlotWrites, BodyWrites
<1>9. \A S : Range(ItemWrites(n, i)) \subseteq S => ItemWrites(n, i) \in Seq(S)
    BY <1>3, <1>6, <1>7
<1> QED BY <1>3, <1>7, <1>8, <1>9

\* Together.
LEMMA NodeWritesAre ==
    ASSUME NEW n, IsNode(n), NodeFits(n), NEW m, m = Len(n.items)
    PROVE  /\ \E l \in Nat : DOMAIN NodeWrites(n) = 1 .. l
           /\ Range(NodeWrites(n)) =
                  {HeadWrite(n)} \cup (UNION {SlotWrites(n, i) \cup BodyWrites(n, i) : i \in 1 .. m})
                      \cup (IF IsLeaf(n) THEN {} ELSE {KidWrite(n, m + 1)})
<1>1. m \in Nat /\ DOMAIN n.items = 1 .. m
    BY NodeIs
<1> DEFINE head == HeadWrite(n)
           kid == KidWrite(n, m + 1)
           ss == [i \in 1 .. m |-> ItemWrites(n, i)]
           M == UNION {SlotWrites(n, i) \cup BodyWrites(n, i) : i \in 1 .. m}
           L == IF IsLeaf(n) THEN {} ELSE {kid}
           S == {head} \cup M \cup L
           c == IF IsLeaf(n) THEN <<>> ELSE <<kid>>
<1>2. NodeWrites(n) = <<head>> \o FlattenSeq(ss) \o c
  <2>1. ~IsLeaf(n) => Last(n.kids) = n.kids[m + 1] /\ HeaderAt(FALSE, m + 1) = HeaderAt(IsLeaf(n), m + 1)
    <3> SUFFICES ASSUME ~IsLeaf(n)
                 PROVE  Last(n.kids) = n.kids[m + 1] /\ HeaderAt(FALSE, m + 1) = HeaderAt(IsLeaf(n), m + 1)
        OBVIOUS
    <3>1. Len(n.kids) = m + 1 /\ IsLeaf(n) = FALSE
        BY NodeIs DEF IsLeaf
    <3> QED BY <3>1 DEF Last
  <2>2. NodeWrites(n) = <<head>> \o FlattenSeq(ss)
            \o (IF IsLeaf(n) THEN <<>> ELSE << <<HeaderAt(FALSE, m + 1), Long(Last(n.kids))>> >>)
      BY <1>1, Widths DEF NodeWrites, HeadWrite
  <2> HIDE DEF ss, head
  <2> QED BY <2>1, <2>2 DEF KidWrite
<1>3. \A i \in 1 .. m : ItemWrites(n, i) \in Seq(S)
                        /\ Range(ItemWrites(n, i)) = SlotWrites(n, i) \cup BodyWrites(n, i)
  <2> SUFFICES ASSUME NEW i \in 1 .. m
               PROVE  ItemWrites(n, i) \in Seq(S)
                      /\ Range(ItemWrites(n, i)) = SlotWrites(n, i) \cup BodyWrites(n, i)
      OBVIOUS
  <2>1. SlotWrites(n, i) \cup BodyWrites(n, i) \subseteq S
      OBVIOUS
  <2> HIDE DEF S
  <2> QED BY <2>1, ItemWritesAre
<1>4. FlattenSeq(ss) \in Seq(S) /\ Range(FlattenSeq(ss)) = M
  <2>1. ss \in Seq(Seq(S)) /\ Len(ss) = m
    <3> HIDE DEF S
    <3>1. ss \in [1 .. m -> Seq(S)]
        BY <1>3
    <3> HIDE DEF ss
    <3>2. ss \in Seq(Seq(S))
        BY <1>1, <3>1, SeqDef
    <3> QED BY <1>1, <3>1, <3>2, LenProperties
  <2>2. CASE m = 0
    <3>1. ss = <<>> /\ M = {}
        BY <2>2
    <3>2. FlattenSeq(ss) = <<>>
        BY <2>1, <2>2, <3>1, FlattenNone
    <3>3. Range(<<>>) = {}
        BY DEF Range
    <3> HIDE DEF S, ss, M
    <3> QED BY <3>1, <3>2, <3>3, EmptySeq
  <2>3. CASE m # 0
    <3>1. \A i \in 1 .. m : Range(ss[i]) = SlotWrites(n, i) \cup BodyWrites(n, i)
        BY <1>3
    <3>2. M = UNION {Range(ss[i]) : i \in 1 .. m}
      <4> HIDE DEF ss
      <4> QED BY <3>1
    <3> HIDE DEF S, ss, M
    <3>3. ss # <<>>
        BY <2>1, <2>3, EmptySeq
    <3> QED BY <2>1, <3>2, <3>3, FlattenRange
  <2> QED BY <2>2, <2>3
<1>5. <<head>> \in Seq(S) /\ Range(<<head>>) = {head}
  <2>1. head \in S
      OBVIOUS
  <2> HIDE DEF head, S
  <2> QED BY <2>1 DEF Range
<1>6. c \in Seq(S) /\ Range(c) = L
  <2>1. CASE IsLeaf(n)
    <3>1. c = <<>> /\ L = {} /\ DOMAIN c = {}
        BY <2>1
    <3> HIDE DEF S, c, L
    <3> QED BY <3>1, EmptySeq DEF Range
  <2>2. CASE ~IsLeaf(n)
    <3>1. c = <<kid>> /\ L = {kid} /\ kid \in S
        BY <2>2
    <3> HIDE DEF S, c, L, kid
    <3> QED BY <3>1 DEF Range
  <2> QED BY <2>1, <2>2
<1> DEFINE d == <<head>> \o FlattenSeq(ss)
<1> HIDE DEF S, ss, c
<1>7. d \in Seq(S) /\ Range(d) = {head} \cup M
  <2> DEFINE a == <<head>>
             b == FlattenSeq(ss)
  <2>1. a \in Seq(S) /\ b \in Seq(S) /\ Range(a) = {head} /\ Range(b) = M /\ d = a \o b
      BY <1>4, <1>5
  <2> HIDE DEF a, b, d, M, head
  <2>2. Range(a \o b) = Range(a) \cup Range(b)
      BY <2>1, RangeConcatenation
  <2>3. a \o b \in Seq(S)
      BY <2>1, ConcatProperties
  <2> QED BY <2>1, <2>2, <2>3, Zenon
<1> HIDE DEF d
<1>8. d \o c \in Seq(S) /\ Range(d \o c) = {head} \cup M \cup L
  <2> HIDE DEF M, L, head
  <2> QED BY <1>6, <1>7, ConcatProperties, RangeConcatenation
<1>9. NodeWrites(n) = d \o c
    BY <1>2 DEF d
<1>10. \E l \in Nat : DOMAIN NodeWrites(n) = 1 .. l
    BY <1>8, <1>9, LenProperties
<1>11. Range(NodeWrites(n)) = {head} \cup M \cup L
    BY <1>8, <1>9, Zenon
<1> QED BY <1>10, <1>11, Zenon

\* Which positions they cover.
LEMMA NodeCovers ==
    ASSUME NEW n, IsNode(n), NodeFits(n),
           NEW ptr, ptr = Pointer(IsLeaf(n)), NEW m, m = Len(n.items), NEW p \in Int
    PROVE  /\ Covers(HeadWrite(n), p) <=> 0 <= p /\ p < 3
           /\ \A i \in 1 .. m + 1 : Covers(KidWrite(n, i), p)
                  <=> HeaderAt(IsLeaf(n), i) <= p /\ p < HeaderAt(IsLeaf(n), i) + 8
           /\ \A i \in 1 .. m :
                  LET k == Len(n.items[i].key)
                      v == Len(n.items[i].value)
                      at == HeaderAt(IsLeaf(n), i) + ptr
                      end == EndAt(n, i)
                  IN  /\ Covers(OffsetWrite(n, i), p) <=> at <= p /\ p < at + 2
                      /\ Covers(ValueWrite(n, i), p) <=> end - v <= p /\ p < end
                      /\ Covers(ValueLengthWrite(n, i), p) <=> p = end - v - 1
                      /\ Covers(KeyWrite(n, i), p) <=> end - v - 1 - k <= p /\ p < end - v - 1
                      /\ Covers(KeyLengthWrite(n, i), p) <=> p = end - v - 1 - k - 1
<1>1. /\ ptr = (IF IsLeaf(n) THEN 0 ELSE 8) /\ m \in Nat
      /\ \A i : HeaderAt(IsLeaf(n), i) = 3 + (i - 1) * (ptr + 2)
      /\ \A i \in 1 .. m + 1 : EndAt(n, i) \in Int
    BY Layout
<1>2. /\ \A size \in Nat : \A x : DOMAIN IntBytes(x, size) = 1 .. size
      /\ \A x : DOMAIN Long(x) = 1 .. 8
    BY Widths DEF IntBytes, Long
<1>3. ASSUME NEW a \in Int, NEW b, NEW l \in Nat, DOMAIN b = 1 .. l
      PROVE  Covers(<<a, b>>, p) <=> a <= p /\ p < a + l
    BY <1>3 DEF Covers
<1>4. \A i \in 1 .. m + 1 : HeaderAt(IsLeaf(n), i) \in Int
    BY <1>1
<1>5. Covers(HeadWrite(n), p) <=> 0 <= p /\ p < 3
  <2> DEFINE b == <<IF IsLeaf(n) THEN 1 ELSE 0>> \o IntBytes(m, 2)
  <2>1. IntBytes(m, 2) = [i \in 1 .. 2 |-> IntBytes(m, 2)[i]]
      BY DEF IntBytes
  <2>2. DOMAIN b = 1 .. 3
    <3> DEFINE a == <<IF IsLeaf(n) THEN 1 ELSE 0>>
               c == IntBytes(m, 2)
    <3>1. a \in Seq(Int) /\ Len(a) = 1
        OBVIOUS
    <3>2. \A x \in Byte : x \in Int
        BY FormatAssumption DEF Byte
    <3>3. DOMAIN c = 1 .. 2 /\ \A i \in 1 .. 2 : c[i] \in Int
        BY <1>1, <3>2, BytesAre
    <3>4. c = [i \in 1 .. 2 |-> c[i]]
        BY <2>1
    <3> HIDE DEF a, c
    <3>5. c \in [1 .. 2 -> Int]
        BY <3>3, <3>4
    <3>6. c \in Seq(Int)
        BY <3>5, SeqDef
    <3>7. Len(c) = 2
        BY <3>3, <3>6, LenProperties
    <3>8. a \o c \in Seq(Int) /\ Len(a \o c) = Len(a) + Len(c)
        BY <3>1, <3>6, ConcatProperties, Zenon
    <3>9. Len(a \o c) = 3
        BY <3>1, <3>7, <3>8
    <3>10. DOMAIN (a \o c) = 1 .. 3
        BY <3>8, <3>9, LenProperties, Zenon
    <3> QED BY <3>10 DEF a, c
  <2>3. HeadWrite(n) = <<0, b>>
      BY DEF HeadWrite
  <2> HIDE DEF b
  <2>4. Covers(<<0, b>>, p) <=> 0 <= p /\ p < 0 + 3
    <3>1. 0 \in Int /\ 3 \in Nat
        OBVIOUS
    <3> QED BY <1>3, <2>2, <3>1, Zenon
  <2> QED BY <2>3, <2>4
<1>6. ASSUME NEW i \in 1 .. m + 1
      PROVE  Covers(KidWrite(n, i), p)
                  <=> HeaderAt(IsLeaf(n), i) <= p /\ p < HeaderAt(IsLeaf(n), i) + 8
    BY <1>2, <1>3, <1>4 DEF KidWrite
<1> SUFFICES ASSUME NEW i \in 1 .. m
             PROVE  LET k == Len(n.items[i].key)
                        v == Len(n.items[i].value)
                        at == HeaderAt(IsLeaf(n), i) + ptr
                        end == EndAt(n, i)
                    IN  /\ Covers(OffsetWrite(n, i), p) <=> at <= p /\ p < at + 2
                        /\ Covers(ValueWrite(n, i), p) <=> end - v <= p /\ p < end
                        /\ Covers(ValueLengthWrite(n, i), p) <=> p = end - v - 1
                        /\ Covers(KeyWrite(n, i), p) <=> end - v - 1 - k <= p /\ p < end - v - 1
                        /\ Covers(KeyLengthWrite(n, i), p) <=> p = end - v - 1 - k - 1
    BY <1>5, <1>6
<1> DEFINE k == Len(n.items[i].key)
           v == Len(n.items[i].value)
           at == HeaderAt(IsLeaf(n), i) + ptr
           end == EndAt(n, i)
<1>7. /\ Covers(OffsetWrite(n, i), p) <=> at <= p /\ p < at + 2
      /\ Covers(ValueWrite(n, i), p) <=> end - v <= p /\ p < end
      /\ Covers(ValueLengthWrite(n, i), p) <=> p = end - v - 1
      /\ Covers(KeyWrite(n, i), p) <=> end - v - 1 - k <= p /\ p < end - v - 1
      /\ Covers(KeyLengthWrite(n, i), p) <=> p = end - v - 1 - k - 1
  <2>1. /\ k \in Nat /\ v \in Nat /\ at \in Int /\ end \in Int
        /\ DOMAIN n.items[i].key = 1 .. k /\ DOMAIN n.items[i].value = 1 .. v
    <3>1. n.items[i].key \in Seq(Byte) /\ n.items[i].value \in Seq(Byte)
        BY NodeIs
    <3>2. i \in 1 .. m + 1
        BY <1>1
    <3>3. HeaderAt(IsLeaf(n), i) \in Int /\ end \in Int /\ ptr \in Int
        BY <1>1, <1>4, <3>2
    <3>4. k \in Nat /\ v \in Nat /\ DOMAIN n.items[i].key = 1 .. k /\ DOMAIN n.items[i].value = 1 .. v
        BY <3>1, LenProperties
    <3>5. at \in Int
        BY <3>3
    <3> QED BY <3>3, <3>4, <3>5
  <2>2. Covers(OffsetWrite(n, i), p) <=> at <= p /\ p < at + 2
    <3>1. OffsetWrite(n, i) = <<at, IntBytes(EndAt(n, i + 1), 2)>>
        BY DEF OffsetWrite
    <3> HIDE DEF at
    <3> QED BY <1>2, <1>3, <2>1, <3>1
  <2>3. Covers(ValueWrite(n, i), p) <=> end - v <= p /\ p < end
    <3>1. ValueWrite(n, i) = <<end - v, n.items[i].value>>
        BY DEF ValueWrite
    <3> HIDE DEF end, v
    <3>2. end - v \in Int /\ (end - v) + v = end
        BY <2>1
    <3> QED BY <1>3, <2>1, <3>1, <3>2
  <2>4. Covers(ValueLengthWrite(n, i), p) <=> p = end - v - 1
    <3>1. ValueLengthWrite(n, i) = <<end - v - 1, IntBytes(v, 1)>>
        BY DEF ValueLengthWrite
    <3> HIDE DEF end, v
    <3>2. end - v - 1 \in Int
        BY <2>1
    <3>3. Covers(ValueLengthWrite(n, i), p) <=> end - v - 1 <= p /\ p < end - v - 1 + 1
        BY <1>2, <1>3, <3>1, <3>2
    <3> QED BY <3>2, <3>3
  <2>5. Covers(KeyWrite(n, i), p) <=> end - v - 1 - k <= p /\ p < end - v - 1
    <3>1. KeyWrite(n, i) = <<end - v - 1 - k, n.items[i].key>>
        BY DEF KeyWrite
    <3> HIDE DEF end, v, k
    <3>2. end - v - 1 - k \in Int /\ (end - v - 1 - k) + k = end - v - 1
        BY <2>1
    <3> QED BY <1>3, <2>1, <3>1, <3>2
  <2>6. Covers(KeyLengthWrite(n, i), p) <=> p = end - v - 1 - k - 1
    <3>1. KeyLengthWrite(n, i) = <<end - v - 1 - k - 1, IntBytes(k, 1)>>
        BY DEF KeyLengthWrite
    <3> HIDE DEF end, v, k
    <3>2. end - v - 1 - k - 1 \in Int
        BY <2>1
    <3>3. Covers(KeyLengthWrite(n, i), p) <=> end - v - 1 - k - 1 <= p /\ p < end - v - 1 - k - 1 + 1
        BY <1>2, <1>3, <3>1, <3>2
    <3> QED BY <3>2, <3>3
  <2> QED BY <2>2, <2>3, <2>4, <2>5, <2>6
<1> QED BY <1>7

\* Two slots, or two items, have no position in common.
LEMMA OneSlot ==
    ASSUME NEW n, IsNode(n), NodeFits(n),
           NEW ptr, ptr = Pointer(IsLeaf(n)), NEW p \in Int, NEW i \in Nat, NEW j \in Nat,
           HeaderAt(IsLeaf(n), i) <= p, p < HeaderAt(IsLeaf(n), i) + ptr + 2,
           HeaderAt(IsLeaf(n), j) <= p, p < HeaderAt(IsLeaf(n), j) + ptr + 2
    PROVE  i = j
<1>1. ptr \in {0, 8} /\ \A x : HeaderAt(IsLeaf(n), x) = 3 + (x - 1) * (ptr + 2)
    BY Widths DEF Pointer, HeaderAt, HeaderSize
<1>2. CASE ptr = 0
  <2>1. \A x \in Nat : HeaderAt(IsLeaf(n), x) = 3 + (x - 1) * 2
      BY <1>1, <1>2
  <2> QED BY <1>2, <2>1
<1>3. CASE ptr = 8
  <2>1. \A x \in Nat : HeaderAt(IsLeaf(n), x) = 3 + (x - 1) * 10
      BY <1>1, <1>3
  <2> QED BY <1>3, <2>1
<1> QED BY <1>1, <1>2, <1>3

\* The same of items.
LEMMA OneItem ==
    ASSUME NEW n, IsNode(n), NodeFits(n), NEW m, m = Len(n.items), NEW p \in Int,
           NEW i \in 1 .. m, NEW j \in 1 .. m,
           EndAt(n, i + 1) <= p, p < EndAt(n, i), EndAt(n, j + 1) <= p, p < EndAt(n, j)
    PROVE  i = j
<1>1. m \in Nat /\ \A x \in 1 .. m + 1 : EndAt(n, x) \in Int
    BY Layout
<1>2. \A x \in 1 .. m + 1 : \A y \in 1 .. m + 1 : x <= y => EndAt(n, y) <= EndAt(n, x)
    BY Layout
<1>3. i + 1 \in 1 .. m + 1 /\ j + 1 \in 1 .. m + 1 /\ i \in 1 .. m + 1 /\ j \in 1 .. m + 1
    BY <1>1
<1>4. CASE i < j
  <2>1. EndAt(n, j) <= EndAt(n, i + 1)
      BY <1>2, <1>3, <1>4
  <2> QED BY <1>1, <1>3, <2>1
<1>5. CASE j < i
  <2>1. EndAt(n, i) <= EndAt(n, j + 1)
      BY <1>2, <1>3, <1>5
  <2> QED BY <1>1, <1>3, <2>1
<1> QED BY <1>1, <1>4, <1>5

\* The slots end where the last item begins.
LEMMA SlotsEnd ==
    ASSUME NEW n, IsNode(n), NodeFits(n),
           NEW ptr, ptr = Pointer(IsLeaf(n)), NEW m, m = Len(n.items)
    PROVE  /\ HeaderAt(IsLeaf(n), m + 1) + ptr \in Int
           /\ HeaderAt(IsLeaf(n), m + 1) + ptr <= EndAt(n, m + 1)
           /\ \A i \in 1 .. m :
                  /\ EndAt(n, m + 1) <= EndAt(n, i + 1) /\ EndAt(n, i) <= PageSize - 1
                  /\ HeaderAt(IsLeaf(n), i) + ptr + 2 <= HeaderAt(IsLeaf(n), m + 1)
           /\ \A i \in 1 .. m + 1 : HeaderAt(IsLeaf(n), i) \in Int /\ 3 <= HeaderAt(IsLeaf(n), i)
<1>1. /\ ptr = (IF IsLeaf(n) THEN 0 ELSE 8) /\ m \in Nat
      /\ \A x : HeaderAt(IsLeaf(n), x) = 3 + (x - 1) * (ptr + 2)
    BY Layout
<1>2. /\ EndAt(n, 1) = PageSize - 1
      /\ \A i \in 1 .. m + 1 : \A j \in 1 .. m + 1 : i <= j => EndAt(n, j) <= EndAt(n, i)
      /\ 3 + m * (ptr + 2) + ptr <= EndAt(n, m + 1)
    BY Layout
<1>3. HeaderAt(IsLeaf(n), m + 1) = 3 + m * (ptr + 2)
  <2>1. (m + 1) - 1 = m
      BY <1>1
  <2> QED BY <1>1, <2>1
<1>4. HeaderAt(IsLeaf(n), m + 1) + ptr \in Int /\ HeaderAt(IsLeaf(n), m + 1) + ptr <= EndAt(n, m + 1)
  <2> DEFINE x == m * (ptr + 2)
  <2>1. ptr \in Nat
      BY <1>1
  <2>2. x \in Int
      BY <1>1, <2>1
  <2>3. HeaderAt(IsLeaf(n), m + 1) = 3 + x /\ 3 + x + ptr <= EndAt(n, m + 1)
      BY <1>2, <1>3, Zenon
  <2> HIDE DEF x
  <2> QED BY <2>1, <2>2, <2>3
<1>5. ASSUME NEW i \in 1 .. m
      PROVE  EndAt(n, m + 1) <= EndAt(n, i + 1) /\ EndAt(n, i) <= PageSize - 1
  <2>1. 1 \in 1 .. m + 1 /\ i \in 1 .. m + 1 /\ i + 1 \in 1 .. m + 1 /\ m + 1 \in 1 .. m + 1
        /\ i + 1 <= m + 1 /\ 1 <= i
      BY <1>1
  <2> QED BY <1>2, <2>1
<1>6. ASSUME NEW i \in 1 .. m + 1
      PROVE  HeaderAt(IsLeaf(n), i) \in Int /\ 3 <= HeaderAt(IsLeaf(n), i)
             /\ (i \in 1 .. m => HeaderAt(IsLeaf(n), i) + ptr + 2 <= HeaderAt(IsLeaf(n), m + 1))
  <2>1. CASE ptr = 0
    <3>1. HeaderAt(IsLeaf(n), i) = 3 + (i - 1) * 2 /\ HeaderAt(IsLeaf(n), m + 1) = 3 + m * 2
        BY <1>1, <1>3, <2>1
    <3> QED BY <1>1, <2>1, <3>1
  <2>2. CASE ptr = 8
    <3>1. HeaderAt(IsLeaf(n), i) = 3 + (i - 1) * 10 /\ HeaderAt(IsLeaf(n), m + 1) = 3 + m * 10
      <4>1. ptr + 2 = 10
          BY <2>2
      <4>2. HeaderAt(IsLeaf(n), i) = 3 + (i - 1) * (ptr + 2)
          BY <1>1, Zenon
      <4> QED BY <1>3, <4>1, <4>2, Zenon
    <3> QED BY <1>1, <2>2, <3>1
  <2> QED BY <1>1, <2>1, <2>2
<1>7. \A i \in 1 .. m : i \in 1 .. m + 1
    BY <1>1
<1> QED BY <1>4, <1>5, <1>6, <1>7

\* Where a write over a position belongs.
InHead(n, w, p) == w = HeadWrite(n) /\ 0 <= p /\ p < 3
InSlot(n, i, w, p) ==
    LET at == HeaderAt(IsLeaf(n), i)
        ptr == Pointer(IsLeaf(n))
    IN  /\ 3 <= at /\ at <= p /\ p < at + ptr + 2
        /\ p < HeaderAt(IsLeaf(n), Len(n.items) + 1) + ptr
        /\ w = IF p < at + ptr THEN KidWrite(n, i) ELSE OffsetWrite(n, i)
InItem(n, i, w, p) ==
    LET value == EndAt(n, i) - Len(n.items[i].value)
        key == value - 1 - Len(n.items[i].key)
    IN  /\ EndAt(n, i + 1) <= p /\ p < EndAt(n, i)
        /\ HeaderAt(IsLeaf(n), Len(n.items) + 1) + Pointer(IsLeaf(n)) <= p
        /\ w = IF p < key THEN KeyLengthWrite(n, i) ELSE IF p < value - 1 THEN KeyWrite(n, i)
               ELSE IF p < value THEN ValueLengthWrite(n, i) ELSE ValueWrite(n, i)

\* A position tells which write covers it: the header, the slots from there on, or the
\* items down from the end.
LEMMA WhichWrite ==
    ASSUME NEW n, IsNode(n), NodeFits(n), NEW m, m = Len(n.items),
           NEW w \in Range(NodeWrites(n)), NEW p \in Int, Covers(w, p)
    PROVE  /\ p \in Position
           /\ \/ InHead(n, w, p)
              \/ \E i \in 1 .. m + 1 : InSlot(n, i, w, p)
              \/ \E i \in 1 .. m : InItem(n, i, w, p)
<1> DEFINE ptr == Pointer(IsLeaf(n))
           end == HeaderAt(IsLeaf(n), m + 1) + ptr
<1>1. ptr = (IF IsLeaf(n) THEN 0 ELSE 8) /\ m \in Nat /\ PageSize \in Nat
    BY Layout
<1>2. /\ end \in Int /\ end <= EndAt(n, m + 1)
      /\ \A i \in 1 .. m :
             /\ EndAt(n, m + 1) <= EndAt(n, i + 1) /\ EndAt(n, i) <= PageSize - 1
             /\ HeaderAt(IsLeaf(n), i) + ptr + 2 <= HeaderAt(IsLeaf(n), m + 1)
      /\ \A i \in 1 .. m + 1 : HeaderAt(IsLeaf(n), i) \in Int /\ 3 <= HeaderAt(IsLeaf(n), i)
    BY SlotsEnd
<1>3. EndAt(n, m + 1) \in Int /\ EndAt(n, m + 1) <= PageSize - 1
  <2>1. EndAt(n, 1) = PageSize - 1 /\ 1 \in 1 .. m + 1 /\ m + 1 \in 1 .. m + 1 /\ 1 <= m + 1
      BY <1>1, Layout
  <2> QED BY <2>1, Layout
<1>4. \/ w = HeadWrite(n)
      \/ \E i \in 1 .. m : w \in SlotWrites(n, i) \cup BodyWrites(n, i)
      \/ ~IsLeaf(n) /\ w = KidWrite(n, m + 1)
    BY NodeWritesAre
<1>5. CASE w = HeadWrite(n)
  <2>1. 0 <= p /\ p < 3
      BY <1>5, NodeCovers
  <2>2. m + 1 \in 1 .. m + 1
      BY <1>1
  <2>3. 3 <= HeaderAt(IsLeaf(n), m + 1) /\ HeaderAt(IsLeaf(n), m + 1) \in Int
      BY <1>2, <2>2
  <2>4. p \in Position
    <3>1. ptr \in Nat
        BY <1>1
    <3> HIDE DEF ptr
    <3> QED BY <1>1, <1>2, <1>3, <2>1, <2>3, <3>1 DEF Position
  <2> QED BY <1>5, <2>1, <2>4 DEF InHead
<1>6. ASSUME NEW i \in 1 .. m + 1, ~IsLeaf(n), w = KidWrite(n, i) PROVE p \in Position /\ InSlot(n, i, w, p)
  <2> DEFINE at == HeaderAt(IsLeaf(n), i)
             last == HeaderAt(IsLeaf(n), m + 1)
  <2>1. at <= p /\ p < at + 8
      BY <1>6, NodeCovers
  <2>2. ptr = 8 /\ end = last + 8
      BY <1>1, <1>6
  <2>3. at \in Int /\ 3 <= at /\ last \in Int /\ at <= last
    <3>1. i \in 1 .. m \/ i = m + 1
        BY <1>1
    <3>2. m + 1 \in 1 .. m + 1
        BY <1>1
    <3>3. at \in Int /\ 3 <= at /\ last \in Int /\ (i \in 1 .. m => at + 8 + 2 <= last)
        BY <1>2, <2>2, <3>2
    <3>4. i = m + 1 => at = last
        OBVIOUS
    <3> HIDE DEF at, last
    <3> QED BY <3>1, <3>3, <3>4
  <2> HIDE DEF at, last, ptr, end
  <2>4. p < at + ptr + 2 /\ p < last + ptr /\ p < at + ptr
      BY <2>1, <2>2, <2>3
  <2>5. p \in Position
      BY <1>1, <1>2, <1>3, <2>1, <2>2, <2>3 DEF Position
  <2> QED BY <1>6, <2>1, <2>3, <2>4, <2>5 DEF InSlot, at, last, ptr
<1>7. ASSUME NEW i \in 1 .. m, w = OffsetWrite(n, i) PROVE p \in Position /\ InSlot(n, i, w, p)
  <2> DEFINE at == HeaderAt(IsLeaf(n), i)
             last == HeaderAt(IsLeaf(n), m + 1)
  <2>1. at + ptr <= p /\ p < at + ptr + 2
      BY <1>7, NodeCovers
  <2>2. at \in Int /\ 3 <= at /\ last \in Int /\ at + ptr + 2 <= last /\ ptr \in Nat /\ end = last + ptr
    <3>1. i \in 1 .. m + 1 /\ m + 1 \in 1 .. m + 1
        BY <1>1
    <3> QED BY <1>1, <1>2, <3>1
  <2> HIDE DEF at, last, ptr, end
  <2>3. at <= p /\ p < last + ptr /\ ~ p < at + ptr
      BY <2>1, <2>2
  <2>4. p \in Position
      BY <1>1, <1>2, <1>3, <2>2, <2>3 DEF Position
  <2> QED BY <1>7, <2>1, <2>2, <2>3, <2>4 DEF InSlot, at, last, ptr
<1>8. ASSUME NEW i \in 1 .. m, w \in BodyWrites(n, i) PROVE p \in Position /\ InItem(n, i, w, p)
  <2> DEFINE k == Len(n.items[i].key)
             v == Len(n.items[i].value)
             e == EndAt(n, i)
             f == EndAt(n, i + 1)
  <2>1. k \in Nat /\ v \in Nat /\ e \in Int /\ f = e - k - v - 2 /\ e <= PageSize - 1 /\ end <= f /\ 3 <= end
    <3>1. i \in 1 .. m + 1 /\ i + 1 \in 1 .. m + 1 /\ m + 1 \in 1 .. m + 1
        BY <1>1
    <3>2. k \in Nat /\ v \in Nat
        BY NodeIs
    <3>3. e \in Int /\ f \in Int /\ f = e - k - v - 2
        BY <3>1, Layout
    <3>4. e <= PageSize - 1 /\ EndAt(n, m + 1) <= f
        BY <1>2
    <3>5. 3 <= end
      <4>1. ptr \in Nat /\ HeaderAt(IsLeaf(n), m + 1) \in Int /\ 3 <= HeaderAt(IsLeaf(n), m + 1)
          BY <1>1, <1>2, <3>1
      <4> QED BY <4>1
    <3>6. end <= f
      <4> DEFINE d == EndAt(n, m + 1)
      <4>1. end <= d /\ d <= f /\ end \in Int /\ d \in Int /\ f \in Int
          BY <1>2, <1>3, <3>3, <3>4
      <4> HIDE DEF end, d, f
      <4> QED BY <4>1
    <3> QED BY <3>2, <3>3, <3>4, <3>5, <3>6
  <2>2. \/ w = ValueWrite(n, i) /\ e - v <= p /\ p < e
        \/ w = ValueLengthWrite(n, i) /\ p = e - v - 1
        \/ w = KeyWrite(n, i) /\ e - v - 1 - k <= p /\ p < e - v - 1
        \/ w = KeyLengthWrite(n, i) /\ p = e - v - 1 - k - 1
      BY <1>8, NodeCovers DEF BodyWrites
  <2> HIDE DEF end, f, e, v, k
  <2>3. p \in Position /\ f <= p /\ p < e /\ end <= p
      BY <1>1, <1>2, <2>1, <2>2 DEF Position
  <2>4. w = IF p < e - v - 1 - k THEN KeyLengthWrite(n, i) ELSE IF p < e - v - 1 THEN KeyWrite(n, i)
            ELSE IF p < e - v THEN ValueLengthWrite(n, i) ELSE ValueWrite(n, i)
      BY <2>1, <2>2
  <2> QED BY <2>3, <2>4 DEF InItem, end, f, e, v, k
<1>9. ASSUME NEW i \in 1 .. m, w \in SlotWrites(n, i) PROVE w = OffsetWrite(n, i) \/ (~IsLeaf(n) /\ w = KidWrite(n, i))
    BY <1>9 DEF SlotWrites
<1>10. \A i \in 1 .. m : i \in 1 .. m + 1
    BY <1>1
<1>11. m + 1 \in 1 .. m + 1
    BY <1>1
<1> HIDE DEF ptr, end
<1>12. CASE \E i \in 1 .. m : w \in SlotWrites(n, i) \cup BodyWrites(n, i)
    BY <1>6, <1>7, <1>8, <1>9, <1>10, <1>12
<1>13. CASE ~IsLeaf(n) /\ w = KidWrite(n, m + 1)
    BY <1>6, <1>11, <1>13
<1> QED BY <1>4, <1>5, <1>12, <1>13

\* No two of the writes are over each other, and all are inside the buffer.
LEMMA NodeApart ==
    ASSUME NEW n, IsNode(n), NodeFits(n)
    PROVE  Apart(NodeWrites(n))
<1> DEFINE m == Len(n.items)
           ptr == Pointer(IsLeaf(n))
<1> SUFFICES ASSUME NEW u \in Range(NodeWrites(n)), NEW w \in Range(NodeWrites(n)), NEW p \in Position,
                    Covers(u, p), Covers(w, p)
             PROVE  u = w
    BY DEF Apart
<1>1. m \in Nat /\ PageSize \in Nat /\ p \in Int
    BY Layout DEF Position
<1>2. /\ \/ InHead(n, u, p) \/ \E i \in 1 .. m + 1 : InSlot(n, i, u, p)
         \/ \E i \in 1 .. m : InItem(n, i, u, p)
      /\ \/ InHead(n, w, p) \/ \E i \in 1 .. m + 1 : InSlot(n, i, w, p)
         \/ \E i \in 1 .. m : InItem(n, i, w, p)
    BY <1>1, WhichWrite
<1> DEFINE end == HeaderAt(IsLeaf(n), m + 1) + ptr
<1>3. /\ end \in Int /\ 3 <= end
      /\ \A i \in 1 .. m + 1 : HeaderAt(IsLeaf(n), i) \in Int /\ 3 <= HeaderAt(IsLeaf(n), i)
  <2>1. /\ end \in Int
        /\ \A i \in 1 .. m + 1 : HeaderAt(IsLeaf(n), i) \in Int /\ 3 <= HeaderAt(IsLeaf(n), i)
      BY SlotsEnd
  <2>2. ptr \in Nat /\ HeaderAt(IsLeaf(n), m + 1) \in Int /\ 3 <= HeaderAt(IsLeaf(n), m + 1)
    <3>1. m + 1 \in 1 .. m + 1
        BY <1>1
    <3> QED BY <2>1, <3>1, Widths DEF Pointer
  <2> HIDE DEF ptr
  <2> QED BY <2>1, <2>2
<1>4. ASSUME NEW x, InHead(n, x, p) PROVE p < 3 /\ x = HeadWrite(n)
    BY <1>4 DEF InHead
<1>5. ASSUME NEW x, NEW i \in 1 .. m + 1, InSlot(n, i, x, p)
      PROVE  /\ HeaderAt(IsLeaf(n), i) <= p /\ p < HeaderAt(IsLeaf(n), i) + ptr + 2
             /\ 3 <= HeaderAt(IsLeaf(n), i) /\ p < end
             /\ x = IF p < HeaderAt(IsLeaf(n), i) + ptr THEN KidWrite(n, i) ELSE OffsetWrite(n, i)
    BY <1>5 DEF InSlot
<1>6. ASSUME NEW x, NEW i \in 1 .. m, InItem(n, i, x, p)
      PROVE  EndAt(n, i + 1) <= p /\ p < EndAt(n, i) /\ end <= p
    BY <1>6 DEF InItem
<1>7. ASSUME NEW x, NEW y, NEW i \in 1 .. m, InItem(n, i, x, p), InItem(n, i, y, p) PROVE x = y
    BY <1>7 DEF InItem
<1>8. ASSUME NEW x, NEW y, NEW i \in 1 .. m + 1, NEW j \in 1 .. m + 1, InSlot(n, i, x, p), InSlot(n, j, y, p)
      PROVE  x = y
  <2>1. i = j
    <3>1. i \in Nat /\ j \in Nat
        BY <1>1
    <3>2. /\ HeaderAt(IsLeaf(n), i) <= p /\ p < HeaderAt(IsLeaf(n), i) + ptr + 2
          /\ HeaderAt(IsLeaf(n), j) <= p /\ p < HeaderAt(IsLeaf(n), j) + ptr + 2
        BY <1>5, <1>8
    <3> QED BY <1>1, <3>1, <3>2, OneSlot
  <2> QED BY <1>8, <2>1 DEF InSlot
<1>9. ASSUME NEW x, NEW y, NEW i \in 1 .. m, NEW j \in 1 .. m, InItem(n, i, x, p), InItem(n, j, y, p)
      PROVE  x = y
  <2>1. i = j
    <3>1. EndAt(n, i + 1) <= p /\ p < EndAt(n, i) /\ EndAt(n, j + 1) <= p /\ p < EndAt(n, j)
        BY <1>6, <1>9
    <3> QED BY <1>1, <3>1, OneItem
  <2> QED BY <1>7, <1>9, <2>1
<1>10. ASSUME NEW x, NEW y, NEW i \in 1 .. m + 1, InHead(n, x, p), InSlot(n, i, y, p) PROVE FALSE
  <2>1. p < 3 /\ HeaderAt(IsLeaf(n), i) <= p /\ 3 <= HeaderAt(IsLeaf(n), i)
      BY <1>4, <1>5, <1>10
  <2>2. HeaderAt(IsLeaf(n), i) \in Int
      BY <1>3
  <2> QED BY <1>1, <2>1, <2>2
<1>11. ASSUME NEW x, NEW y, NEW i \in 1 .. m, InHead(n, x, p), InItem(n, i, y, p) PROVE FALSE
  <2>1. p < 3 /\ end <= p
      BY <1>4, <1>6, <1>11
  <2> HIDE DEF end
  <2> QED BY <1>1, <1>3, <2>1
<1>12. ASSUME NEW x, NEW y, NEW i \in 1 .. m + 1, NEW j \in 1 .. m, InSlot(n, i, x, p), InItem(n, j, y, p)
       PROVE  FALSE
  <2>1. p < end /\ end <= p
      BY <1>5, <1>6, <1>12
  <2> HIDE DEF end
  <2> QED BY <1>1, <1>3, <2>1
<1> HIDE DEF m, end, ptr
<1>13. CASE InHead(n, u, p)
    BY <1>2, <1>4, <1>10, <1>11, <1>13
<1>14. CASE \E i \in 1 .. m + 1 : InSlot(n, i, u, p)
    BY <1>2, <1>8, <1>10, <1>12, <1>14
<1>15. CASE \E i \in 1 .. m : InItem(n, i, u, p)
    BY <1>2, <1>9, <1>11, <1>12, <1>15
<1> QED BY <1>2, <1>13, <1>14, <1>15

\* And all of them lie in the page.
LEMMA NodeInside ==
    ASSUME NEW n, IsNode(n), NodeFits(n), NEW m, m = Len(n.items), NEW w \in Range(NodeWrites(n))
    PROVE  /\ Inside(w)
           /\ \A i \in DOMAIN w[2] : w[2][i] \in Byte
<1>1. /\ m \in Nat /\ \A i \in 1 .. m + 1 : EndAt(n, i) \in Nat /\ HeaderAt(IsLeaf(n), i) \in Nat
      /\ Pointer(IsLeaf(n)) \in Nat
  <2>1. m \in Nat /\ \A i \in 1 .. m + 1 : EndAt(n, i) \in Int
      BY Layout
  <2>2. Pointer(IsLeaf(n)) \in Nat
      BY Widths DEF Pointer
  <2>3. \A i \in 1 .. m + 1 : HeaderAt(IsLeaf(n), i) \in Int /\ 3 <= HeaderAt(IsLeaf(n), i)
      BY SlotsEnd
  <2>4. m + 1 \in 1 .. m + 1
      BY <2>1
  <2>5. EndAt(n, m + 1) \in Nat
    <3>1. HeaderAt(IsLeaf(n), m + 1) + Pointer(IsLeaf(n)) <= EndAt(n, m + 1)
        BY SlotsEnd
    <3>2. EndAt(n, m + 1) \in Int /\ HeaderAt(IsLeaf(n), m + 1) \in Int /\ 3 <= HeaderAt(IsLeaf(n), m + 1)
        BY <2>1, <2>3, <2>4
    <3> QED BY <2>2, <3>1, <3>2
  <2>6. ASSUME NEW i \in 1 .. m + 1 PROVE EndAt(n, i) \in Nat
    <3>1. i <= m + 1
        BY <2>1
    <3>2. EndAt(n, m + 1) <= EndAt(n, i)
        BY <2>4, <3>1, Layout
    <3> QED BY <2>1, <2>5, <3>2
  <2> QED BY <2>1, <2>2, <2>3, <2>6
<1>2. \/ w = HeadWrite(n)
      \/ \E i \in 1 .. m : w \in SlotWrites(n, i) \cup BodyWrites(n, i)
      \/ ~IsLeaf(n) /\ w = KidWrite(n, m + 1)
    BY NodeWritesAre
<1>3. \A i \in 1 .. m : i \in 1 .. m + 1 /\ i + 1 \in 1 .. m + 1
    BY <1>1
<1>4. m + 1 \in 1 .. m + 1
    BY <1>1
<1>5. \A i \in 1 .. m : /\ n.items[i].key \in Seq(Byte) /\ n.items[i].value \in Seq(Byte)
                        /\ Len(n.items[i].key) \in Nat /\ Len(n.items[i].value) \in Nat
    BY NodeIs
<1>6. \/ w = HeadWrite(n)
      \/ \E i \in 1 .. m + 1 : ~IsLeaf(n) /\ w = KidWrite(n, i)
      \/ \E i \in 1 .. m : w \in {OffsetWrite(n, i), ValueWrite(n, i), ValueLengthWrite(n, i),
                                   KeyWrite(n, i), KeyLengthWrite(n, i)}
    BY <1>2, <1>3, <1>4 DEF SlotWrites, BodyWrites
<1>7. /\ w[1] \in Nat
      /\ \E l \in Nat : DOMAIN w[2] = 1 .. l
      /\ \A i \in DOMAIN w[2] : w[2][i] \in Byte
  <2>1. CASE w = HeadWrite(n)
    <3> DEFINE a == <<IF IsLeaf(n) THEN 1 ELSE 0>>
               c == IntBytes(m, 2)
    <3>1. a \in Seq(Byte)
        BY FormatAssumption DEF Byte
    <3>2. c = [i \in 1 .. 2 |-> c[i]]
        BY DEF IntBytes
    <3>3. \A i \in 1 .. 2 : c[i] \in Byte
        BY <1>1, BytesAre
    <3>4. w[1] = 0 /\ w[2] = a \o c
        BY <2>1 DEF HeadWrite
    <3> HIDE DEF a, c
    <3>5. c \in [1 .. 2 -> Byte]
        BY <3>2, <3>3
    <3>6. c \in Seq(Byte)
      <4>1. \E l \in Nat : c \in [1 .. l -> Byte]
          BY <3>5
      <4> HIDE DEF c
      <4> QED BY <4>1, SeqDef, Zenon
    <3>7. a \o c \in Seq(Byte)
        BY <3>1, <3>6, ConcatProperties
    <3>8. w[2] \in Seq(Byte)
        BY <3>4, <3>7, Zenon
    <3> DEFINE b == w[2]
    <3>9. b \in Seq(Byte)
        BY <3>8
    <3> HIDE DEF b
    <3>10. Len(b) \in Nat /\ DOMAIN b = 1 .. Len(b) /\ \A i \in DOMAIN b : b[i] \in Byte
        BY <3>9, LenProperties, ElementOfSeq
    <3>11. (\E l \in Nat : DOMAIN b = 1 .. l) /\ \A i \in DOMAIN b : b[i] \in Byte
        BY <3>10
    <3>12. w[1] \in Nat
        BY <3>4
    <3> QED BY <3>11, <3>12 DEF b
  <2>2. ASSUME NEW a \in Nat, NEW s \in Seq(Byte), w = <<a, s>>
        PROVE  /\ w[1] \in Nat /\ \E l \in Nat : DOMAIN w[2] = 1 .. l
               /\ \A i \in DOMAIN w[2] : w[2][i] \in Byte
      BY <2>2, LenProperties
  <2>3. ASSUME NEW a \in Nat, NEW x \in Nat, NEW size \in Nat, w = <<a, IntBytes(x, size)>>
        PROVE  /\ w[1] \in Nat /\ \E l \in Nat : DOMAIN w[2] = 1 .. l
               /\ \A i \in DOMAIN w[2] : w[2][i] \in Byte
    <3>1. w[1] = a /\ w[2] = IntBytes(x, size)
        BY <2>3
    <3> QED BY <3>1, BytesAre
  <2>4. ASSUME NEW i \in 1 .. m + 1, ~IsLeaf(n), w = KidWrite(n, i)
        PROVE  w = <<HeaderAt(IsLeaf(n), i), IntBytes(n.kids[i], 8)>> /\ n.kids[i] \in Nat
      BY <2>4, NodeIs, Widths DEF KidWrite, Long
  <2>5. CASE \E i \in 1 .. m + 1 : ~IsLeaf(n) /\ w = KidWrite(n, i)
    <3>1. PICK i \in 1 .. m + 1 : ~IsLeaf(n) /\ w = KidWrite(n, i)
        BY <2>5
    <3>2. w = <<HeaderAt(IsLeaf(n), i), IntBytes(n.kids[i], 8)>> /\ n.kids[i] \in Nat
        BY <2>4, <3>1
    <3>3. HeaderAt(IsLeaf(n), i) \in Nat /\ 8 \in Nat
        BY <1>1
    <3> QED BY <2>3, <3>2, <3>3
  <2>6. ASSUME NEW i \in 1 .. m, w = OffsetWrite(n, i)
        PROVE  /\ w[1] \in Nat /\ \E l \in Nat : DOMAIN w[2] = 1 .. l
               /\ \A j \in DOMAIN w[2] : w[2][j] \in Byte
    <3>1. HeaderAt(IsLeaf(n), i) + Pointer(IsLeaf(n)) \in Nat
        BY <1>1, <1>3
    <3>2. EndAt(n, i + 1) \in Nat
        BY <1>1, <1>3
    <3> QED BY <2>3, <2>6, <3>1, <3>2 DEF OffsetWrite
  <2>7. ASSUME NEW i \in 1 .. m, w \in BodyWrites(n, i)
        PROVE  /\ w[1] \in Nat /\ \E l \in Nat : DOMAIN w[2] = 1 .. l
               /\ \A j \in DOMAIN w[2] : w[2][j] \in Byte
    <3> DEFINE k == Len(n.items[i].key)
               v == Len(n.items[i].value)
               e == EndAt(n, i)
    <3>1. /\ k \in Nat /\ v \in Nat /\ e \in Nat /\ e - k - v - 2 \in Nat
          /\ n.items[i].key \in Seq(Byte) /\ n.items[i].value \in Seq(Byte)
      <4>1. EndAt(n, i + 1) = e - k - v - 2 /\ EndAt(n, i + 1) \in Nat
          BY <1>1, <1>3, Layout
      <4> QED BY <1>1, <1>3, <1>5, <4>1
    <3>2. e - v \in Nat /\ e - v - 1 \in Nat /\ e - v - 1 - k \in Nat /\ e - v - 1 - k - 1 \in Nat /\ 1 \in Nat
      <4>1. k \in Nat /\ v \in Nat /\ e \in Nat /\ e - k - v - 2 \in Nat
          BY <3>1
      <4> HIDE DEF k, v, e
      <4>2. e - k - v - 2 >= 0
          BY <4>1
      <4> QED BY <4>1, <4>2
    <3>3. \/ w = <<e - v, n.items[i].value>> \/ w = <<e - v - 1, IntBytes(v, 1)>>
          \/ w = <<e - v - 1 - k, n.items[i].key>> \/ w = <<e - v - 1 - k - 1, IntBytes(k, 1)>>
        BY <2>7 DEF BodyWrites, ValueWrite, ValueLengthWrite, KeyWrite, KeyLengthWrite
    <3> HIDE DEF k, v, e
    <3> QED BY <2>2, <2>3, <3>1, <3>2, <3>3
  <2>8. CASE \E i \in 1 .. m : w \in {OffsetWrite(n, i), ValueWrite(n, i), ValueLengthWrite(n, i),
                                       KeyWrite(n, i), KeyLengthWrite(n, i)}
      BY <2>6, <2>7, <2>8 DEF BodyWrites
  <2> QED BY <1>6, <2>1, <2>5, <2>8
<1>8. PICK l \in Nat : DOMAIN w[2] = 1 .. l
    BY <1>7
<1>9. ASSUME NEW i \in DOMAIN w[2] PROVE i \in Int /\ w[1] + i - 1 \in Position
  <2> DEFINE p == w[1] + i - 1
  <2>1. i \in Int /\ p \in Int /\ p - w[1] + 1 = i
      BY <1>7, <1>8
  <2> HIDE DEF p
  <2>2. Covers(w, p)
      BY <2>1 DEF Covers
  <2>3. p \in Position
      BY <2>1, <2>2, WhichWrite
  <2> QED BY <2>1, <2>3 DEF p
<1> QED BY <1>7, <1>9 DEF Inside

\* So all of them are in the page.
LEMMA NodeBytes ==
    ASSUME NEW n, IsNode(n), NodeFits(n), NEW page, page = SerializeNode(n)
    PROVE  /\ page \in [Position -> Byte] /\ ~Overruns(n)
           /\ \A w \in Range(NodeWrites(n)) : Bears(page, w[1], w[2])
<1> DEFINE ws == NodeWrites(n)
<1>1. PICK l \in Nat : DOMAIN ws = 1 .. l
    BY NodeWritesAre
<1>2. \A w \in Range(ws) : Inside(w) /\ \A i \in DOMAIN w[2] : w[2][i] \in Byte
    BY NodeInside
<1>3. page = Written(ws)
    BY DEF SerializeNode
<1>4. page \in [Position -> Byte]
  <2> HIDE DEF ws
  <2> QED BY <1>1, <1>2, <1>3, WrittenType
<1>5. ~Overruns(n)
    BY <1>2 DEF Overruns, Inside
<1>6. Apart(ws)
    BY NodeApart
<1>7. ASSUME NEW w \in Range(ws) PROVE Bears(page, w[1], w[2])
  <2> HIDE DEF ws
  <2> QED BY <1>1, <1>2, <1>3, <1>6, <1>7, WritesStay
<1> QED BY <1>4, <1>5, <1>7

\* Of a header with the number of items, and of an item.
LEMMA HeadRead ==
    ASSUME NEW n, IsNode(n), NodeFits(n), NEW m, m = Len(n.items), NEW page, page = SerializeNode(n)
    PROVE  /\ page[0] # 0 <=> IsLeaf(n)
           /\ ReadSigned(page, CharSize, ShortSize) = m
<1> DEFINE a == <<IF IsLeaf(n) THEN 1 ELSE 0>>
           c == IntBytes(m, 2)
           b == a \o c
<1>1. m \in Nat /\ m < Values[2] \div 2
  <2>1. m \in Nat
      BY Layout
  <2>2. /\ HeaderAt(IsLeaf(n), m + 1) \in Int /\ HeaderAt(IsLeaf(n), m + 1) + Pointer(IsLeaf(n)) <= EndAt(n, m + 1)
      BY SlotsEnd
  <2>3. m <= HeaderAt(IsLeaf(n), m + 1)
    <3>1. \/ HeaderAt(IsLeaf(n), m + 1) = 3 + ((m + 1) - 1) * 2
          \/ HeaderAt(IsLeaf(n), m + 1) = 3 + ((m + 1) - 1) * 10
      <4>1. HeaderAt(IsLeaf(n), m + 1) = 3 + ((m + 1) - 1) * (Pointer(IsLeaf(n)) + 2)
          BY Widths DEF HeaderAt, HeaderSize
      <4>2. Pointer(IsLeaf(n)) = 0 \/ Pointer(IsLeaf(n)) = 8
          BY Widths DEF Pointer
      <4>3. 0 + 2 = 2 /\ 8 + 2 = 10
          OBVIOUS
      <4> QED BY <4>1, <4>2, <4>3, Zenon
    <3> QED BY <2>1, <3>1
  <2>4. EndAt(n, m + 1) <= EndAt(n, 1) /\ EndAt(n, 1) = PageSize - 1 /\ EndAt(n, m + 1) \in Int
    <3>1. 1 \in 1 .. m + 1 /\ m + 1 \in 1 .. m + 1 /\ 1 <= m + 1
        BY <2>1
    <3> QED BY <3>1, Layout
  <2>5. Pointer(IsLeaf(n)) \in Nat
      BY Widths DEF Pointer
  <2>6. PageSize \in Nat /\ PageSize <= Values[2] \div 2 /\ Values[2] \div 2 \in Nat
      BY FormatAssumption, Widths
  <2> QED BY <2>1, <2>2, <2>3, <2>4, <2>5, <2>6
<1>2. Bears(page, 0, b)
  <2>1. HeadWrite(n) \in Range(NodeWrites(n))
      BY NodeWritesAre
  <2>2. HeadWrite(n) = <<0, b>>
      BY DEF HeadWrite
  <2> HIDE DEF b
  <2> QED BY <2>1, <2>2, NodeBytes
<1>3. b = <<a[1], c[1], c[2]>> /\ a[1] = (IF IsLeaf(n) THEN 1 ELSE 0)
  <2>1. c = <<c[1], c[2]>>
      BY DEF IntBytes
  <2>2. a = <<a[1]>> /\ a[1] = (IF IsLeaf(n) THEN 1 ELSE 0)
      OBVIOUS
  <2>3. ASSUME NEW x, NEW y, NEW z PROVE <<x>> \o <<y, z>> = <<x, y, z>>
    <3> DEFINE u == <<x>>
               w == <<y, z>>
               r == <<x, y, z>>
               S == {x, y, z}
    <3>1. /\ u \in Seq(S) /\ Len(u) = 1 /\ u[1] = x
          /\ w \in Seq(S) /\ Len(w) = 2 /\ w[1] = y /\ w[2] = z
          /\ r \in Seq(S) /\ Len(r) = 3 /\ r[1] = x /\ r[2] = y /\ r[3] = z
        OBVIOUS
    <3> HIDE DEF u, w, r, S
    <3>2. /\ u \o w \in Seq(S) /\ Len(u \o w) = Len(u) + Len(w)
          /\ \A i \in 1 .. Len(u) + Len(w) :
                 (u \o w)[i] = IF i <= Len(u) THEN u[i] ELSE w[i - Len(u)]
        BY <3>1, ConcatProperties
    <3>3. Len(u \o w) = 3 /\ \A i \in 1 .. 3 : (u \o w)[i] = r[i]
        BY <3>1, <3>2
    <3>4. u \o w = r
        BY <3>1, <3>2, <3>3, SeqEqual
    <3> QED BY <3>4 DEF u, w, r
  <2> HIDE DEF a, c
  <2> QED BY <2>1, <2>2, <2>3, Zenon
<1>4. page[0] = a[1] /\ page[1] = c[1] /\ page[2] = c[2]
  <2> HIDE DEF a, c, b
  <2>1. DOMAIN b = 1 .. 3 /\ b[1] = a[1] /\ b[2] = c[1] /\ b[3] = c[2]
      BY <1>3
  <2>2. \A i \in 1 .. 3 : page[0 + i - 1] = b[i]
      BY <1>2, <2>1 DEF Bears
  <2>3. page[0 + 1 - 1] = b[1] /\ page[0 + 2 - 1] = b[2] /\ page[0 + 3 - 1] = b[3]
      BY <2>2
  <2>4. 0 + 1 - 1 = 0 /\ 0 + 2 - 1 = 1 /\ 0 + 3 - 1 = 2
      OBVIOUS
  <2> QED BY <2>1, <2>3, <2>4
<1>5. Bears(page, 1, c)
  <2>1. DOMAIN c = 1 .. 2
      BY DEF IntBytes
  <2> HIDE DEF c
  <2>2. \A i \in 1 .. 2 : page[1 + i - 1] = c[i]
    <3>1. 1 + 1 - 1 = 1 /\ 1 + 2 - 1 = 2
        OBVIOUS
    <3>2. \A i \in 1 .. 2 : i = 1 \/ i = 2
        OBVIOUS
    <3> QED BY <1>4, <3>1, <3>2
  <2> QED BY <2>1, <2>2 DEF Bears
<1>6. page[0] # 0 <=> IsLeaf(n)
    BY <1>3, <1>4
<1>7. ReadSigned(page, CharSize, ShortSize) = m
  <2>1. ShortSize = 2 /\ CharSize = 1 /\ 1 \in Nat /\ 2 \in Nat /\ 2 <= 2 /\ 2 \in {CharSize, ShortSize, IntSize}
      BY Widths
  <2> QED BY <1>1, <1>5, <2>1, SignedRead
<1> QED BY <1>6, <1>7

\* A string is read by its length.
LEMMA StringRead ==
    ASSUME NEW page, NEW at \in Position, NEW s \in Seq(Byte), Len(s) < Values[1] \div 2,
           at + Len(s) \in Position,
           Bears(page, at, IntBytes(Len(s), 1)), Bears(page, at + 1, s)
    PROVE  /\ ReadSigned(page, at, CharSize) = Len(s)
           /\ StringFits(page, at) /\ StringAt(page, at) = s
<1> DEFINE k == Len(s)
<1>1. k \in Nat /\ DOMAIN s = 1 .. k /\ at \in Nat /\ PageSize \in Nat /\ at + k <= PageSize - 1
    BY FormatAssumption, LenProperties DEF Position
<1>2. ReadSigned(page, at, CharSize) = k
  <2>1. CharSize = 1 /\ 1 \in Nat /\ 1 <= 1 /\ 1 \in {CharSize, ShortSize, IntSize}
      BY Widths
  <2> HIDE DEF k
  <2> QED BY <1>1, <2>1, SignedRead DEF k
<1>3. StringFits(page, at)
    BY <1>1, <1>2 DEF StringFits
<1>4. StringAt(page, at) = s
  <2> DEFINE all == [i \in 1 .. PageSize |-> page[i - 1]]
             S == {all[i] : i \in 1 .. PageSize}
             sub == SubSeq(all, at + 2, at + 1 + k)
  <2>1. StringAt(page, at) = sub
      BY <1>2 DEF StringAt
  <2>2. all \in Seq(S) /\ Len(all) = PageSize
    <3>1. all \in [1 .. PageSize -> S] /\ DOMAIN all = 1 .. PageSize
        OBVIOUS
    <3> HIDE DEF all, S
    <3>2. all \in Seq(S)
        BY <1>1, <3>1, SeqDef
    <3> QED BY <1>1, <3>1, <3>2, LenProperties
  <2>3. \A i \in 1 .. k : all[at + 1 + i] = s[i]
    <3> SUFFICES ASSUME NEW i \in 1 .. k PROVE all[at + 1 + i] = s[i]
        OBVIOUS
    <3> HIDE DEF k
    <3>1. at + 1 + i \in 1 .. PageSize /\ (at + 1 + i) - 1 = at + 1 + i - 1
        BY <1>1
    <3>2. page[at + 1 + i - 1] = s[i]
        BY <1>1 DEF Bears
    <3> QED BY <3>1, <3>2
  <2> HIDE DEF all, S, k
  <2>4. CASE k = 0
    <3>1. sub = <<>>
      <4>1. at + 2 > at + 1 + k
          BY <1>1, <2>4
      <4> QED BY <1>1, <2>2, <2>4, <4>1, SubSeqProperties, EmptySeq
    <3>2. s = <<>>
        BY <2>4, EmptySeq DEF k
    <3> QED BY <2>1, <3>1, <3>2
  <2>5. CASE k # 0
    <3>1. at + 2 \in 1 .. Len(all) + 1 /\ at + 1 + k \in (at + 2) - 1 .. Len(all)
        BY <1>1, <2>2, <2>5
    <3>2. /\ sub \in Seq(S) /\ Len(sub) = (at + 1 + k) - (at + 2) + 1
          /\ \A i \in 1 .. (at + 1 + k) - (at + 2) + 1 : sub[i] = all[(at + 2) + i - 1]
        BY <1>1, <2>2, <3>1, SubSeqProperties
    <3>3. (at + 1 + k) - (at + 2) + 1 = k /\ \A i \in 1 .. k : (at + 2) + i - 1 = at + 1 + i
        BY <1>1
    <3>4. Len(sub) = k /\ \A i \in 1 .. k : sub[i] = s[i]
        BY <2>3, <3>2, <3>3
    <3> HIDE DEF sub
    <3>5. Len(s) = k
        BY DEF k
    <3> QED BY <2>1, <3>2, <3>4, <3>5, SeqEqual
  <2> QED BY <2>4, <2>5
<1> QED BY <1>2, <1>3, <1>4

\* Key and value are found where the offset says.
LEMMA ItemRead ==
    ASSUME NEW n, IsNode(n), NodeFits(n), NEW m, m = Len(n.items), NEW i \in 1 .. m,
           NEW page, page = SerializeNode(n), NEW at, at = ItemOffset(page, IsLeaf(n), i)
    PROVE  /\ StringFits(page, at) /\ StringAt(page, at) = n.items[i].key
           /\ StringFits(page, ValueOffset(page, at))
           /\ StringAt(page, ValueOffset(page, at)) = n.items[i].value
<1> DEFINE key == n.items[i].key
           value == n.items[i].value
           k == Len(key)
           v == Len(value)
           e == EndAt(n, i)
           f == EndAt(n, i + 1)
<1>1. m \in Nat /\ i \in 1 .. m + 1 /\ i + 1 \in 1 .. m + 1 /\ m + 1 \in 1 .. m + 1 /\ 1 \in 1 .. m + 1
  <2>1. m \in Nat
      BY Layout
  <2> QED BY <2>1
<1>2. /\ key \in Seq(Byte) /\ value \in Seq(Byte) /\ k \in Nat /\ v \in Nat
      /\ k < Values[1] \div 2 /\ v < Values[1] \div 2
    BY NodeIs, LengthsAre DEF NodeFits
<1>3. /\ e \in Int /\ f \in Int /\ f = e - k - v - 2 /\ e <= PageSize - 1 /\ 0 <= f
      /\ PageSize \in Nat
  <2>1. PageSize \in Nat /\ e \in Int /\ f \in Int /\ f = e - k - v - 2
      BY <1>1, Layout
  <2>2. e <= PageSize - 1 /\ EndAt(n, m + 1) <= f /\ EndAt(n, m + 1) \in Int
      BY <1>1, Layout, SlotsEnd
  <2>3. /\ HeaderAt(IsLeaf(n), m + 1) + Pointer(IsLeaf(n)) <= EndAt(n, m + 1)
        /\ HeaderAt(IsLeaf(n), m + 1) \in Int /\ 3 <= HeaderAt(IsLeaf(n), m + 1)
      BY <1>1, SlotsEnd
  <2>4. Pointer(IsLeaf(n)) \in Nat
      BY Widths DEF Pointer
  <2> HIDE DEF e, f, k, v
  <2> QED BY <2>1, <2>2, <2>3, <2>4
<1>4. /\ OffsetWrite(n, i) \in Range(NodeWrites(n)) /\ ValueWrite(n, i) \in Range(NodeWrites(n))
      /\ ValueLengthWrite(n, i) \in Range(NodeWrites(n)) /\ KeyWrite(n, i) \in Range(NodeWrites(n))
      /\ KeyLengthWrite(n, i) \in Range(NodeWrites(n))
    BY NodeWritesAre DEF SlotWrites, BodyWrites
<1>5. /\ Bears(page, HeaderAt(IsLeaf(n), i) + Pointer(IsLeaf(n)), IntBytes(f, 2))
      /\ Bears(page, e - v, value) /\ Bears(page, e - v - 1, IntBytes(v, 1))
      /\ Bears(page, e - v - 1 - k, key) /\ Bears(page, e - v - 1 - k - 1, IntBytes(k, 1))
  <2>1. \A w \in Range(NodeWrites(n)) : Bears(page, w[1], w[2])
      BY NodeBytes
  <2>2. /\ OffsetWrite(n, i) = <<HeaderAt(IsLeaf(n), i) + Pointer(IsLeaf(n)), IntBytes(f, 2)>>
        /\ ValueWrite(n, i) = <<e - v, value>> /\ ValueLengthWrite(n, i) = <<e - v - 1, IntBytes(v, 1)>>
        /\ KeyWrite(n, i) = <<e - v - 1 - k, key>>
        /\ KeyLengthWrite(n, i) = <<e - v - 1 - k - 1, IntBytes(k, 1)>>
      BY DEF OffsetWrite, ValueWrite, ValueLengthWrite, KeyWrite, KeyLengthWrite
  <2>3. \A a, b : <<a, b>>[1] = a /\ <<a, b>>[2] = b
      OBVIOUS
  <2> HIDE DEF e, f, k, v, key, value
  <2> QED BY <1>4, <2>1, <2>2, <2>3, Zenon
<1>6. at = f
  <2>1. f \in Nat /\ f < Values[2] \div 2
    <3>1. PageSize <= Values[2] \div 2 /\ Values[2] \div 2 \in Nat
        BY FormatAssumption, Widths
    <3> HIDE DEF e, f, k, v
    <3> QED BY <1>2, <1>3, <3>1
  <2>2. HeaderAt(IsLeaf(n), i) + Pointer(IsLeaf(n)) \in Nat
    <3>1. HeaderAt(IsLeaf(n), i) \in Int /\ 3 <= HeaderAt(IsLeaf(n), i)
        BY <1>1, SlotsEnd
    <3>2. Pointer(IsLeaf(n)) \in Nat
        BY Widths DEF Pointer
    <3> QED BY <3>1, <3>2
  <2>3. ShortSize \in {CharSize, ShortSize, IntSize} /\ ShortSize = 2 /\ 2 \in Nat /\ 2 <= 2
      BY Widths
  <2> HIDE DEF f
  <2>4. ReadSigned(page, HeaderAt(IsLeaf(n), i) + Pointer(IsLeaf(n)), ShortSize) = f
      BY <1>5, <2>1, <2>2, <2>3, SignedRead
  <2> QED BY <2>4 DEF ItemOffset
<1> HIDE DEF key, value, e, f
<1>7. /\ at \in Position /\ at + k \in Position
      /\ at + 1 + k \in Position /\ at + 1 + k + v \in Position
      /\ at = e - v - 1 - k - 1 /\ at + 1 = e - v - 1 - k
      /\ at + 1 + k = e - v - 1 /\ at + 1 + k + 1 = e - v
  <2> HIDE DEF k, v
  <2> QED BY <1>2, <1>3, <1>6 DEF Position
<1>8. ReadSigned(page, at, CharSize) = k /\ StringFits(page, at) /\ StringAt(page, at) = key
    BY <1>2, <1>5, <1>7, StringRead
<1>9. ValueOffset(page, at) = at + 1 + k
    BY <1>8, Widths DEF ValueOffset
<1>10. StringFits(page, at + 1 + k) /\ StringAt(page, at + 1 + k) = value
    BY <1>2, <1>5, <1>7, StringRead
<1> QED BY <1>8, <1>9, <1>10 DEF key, value

\* So is a child's page.
LEMMA KidRead ==
    ASSUME NEW n, IsNode(n), NodeFits(n), ~IsLeaf(n), NEW m, m = Len(n.items), NEW i \in 1 .. m + 1,
           NEW page, page = SerializeNode(n)
    PROVE  ReadLong(page, HeaderAt(FALSE, i)) = n.kids[i]
<1>1. m \in Nat /\ IsLeaf(n) = FALSE
    BY Layout DEF IsLeaf
<1>2. n.kids[i] \in Nat /\ LongFits(n.kids[i])
  <2>1. n.kids = [j \in 1 .. m + 1 |-> n.kids[j]] /\ n.kids[i] \in Nat
      BY NodeIs
  <2>2. i \in DOMAIN n.kids
      BY <2>1
  <2> QED BY <2>1, <2>2 DEF NodeFits
<1>3. KidWrite(n, i) \in Range(NodeWrites(n))
  <2>1. i \in 1 .. m \/ i = m + 1
      BY <1>1
  <2>2. i \in 1 .. m => KidWrite(n, i) \in SlotWrites(n, i)
      BY DEF SlotWrites
  <2> QED BY <2>1, <2>2, NodeWritesAre
<1>4. Bears(page, HeaderAt(FALSE, i), Long(n.kids[i]))
  <2>1. Bears(page, KidWrite(n, i)[1], KidWrite(n, i)[2])
      BY <1>3, NodeBytes
  <2>2. KidWrite(n, i) = <<HeaderAt(FALSE, i), Long(n.kids[i])>>
      BY <1>1 DEF KidWrite
  <2>3. KidWrite(n, i)[1] = HeaderAt(FALSE, i) /\ KidWrite(n, i)[2] = Long(n.kids[i])
      BY <2>2
  <2> QED BY <2>1, <2>3
<1>5. HeaderAt(FALSE, i) \in Nat
  <2>1. HeaderAt(IsLeaf(n), i) \in Int /\ 3 <= HeaderAt(IsLeaf(n), i)
      BY SlotsEnd
  <2>2. HeaderAt(IsLeaf(n), i) = HeaderAt(FALSE, i)
      BY <1>1
  <2> DEFINE x == HeaderAt(FALSE, i)
  <2>3. x \in Int /\ 3 <= x
      BY <2>1, <2>2, Zenon
  <2> HIDE DEF x
  <2>4. x \in Nat
      BY <2>3
  <2> QED BY <2>4 DEF x
<1> QED BY <1>2, <1>4, <1>5, LongRead

\* Node::serialize and Node::deserialize.
THEOREM NodeReads ==
    ASSUME NEW n, IsNode(n), NodeFits(n)
    PROVE  SerializeNode(n) \in [Position -> Byte] /\ NodeReadsBack(n)
<1> DEFINE m == Len(n.items)
           page == SerializeNode(n)
           at(i) == ItemOffset(page, IsLeaf(n), i)
<1>1. page \in [Position -> Byte] /\ ~Overruns(n)
    BY NodeBytes
<1>2. m \in Nat /\ (page[0] # 0) = IsLeaf(n) /\ ReadSigned(page, CharSize, ShortSize) = m
    BY HeadRead, Layout DEF IsLeaf
<1>3. HeaderAt(IsLeaf(n), m + 1) + Pointer(IsLeaf(n)) <= PageSize
  <2>1. /\ HeaderAt(IsLeaf(n), m + 1) + Pointer(IsLeaf(n)) \in Int
        /\ HeaderAt(IsLeaf(n), m + 1) + Pointer(IsLeaf(n)) <= EndAt(n, m + 1)
      BY SlotsEnd
  <2>2. EndAt(n, m + 1) \in Int /\ EndAt(n, m + 1) <= PageSize - 1 /\ PageSize \in Nat
    <3>1. 1 \in 1 .. m + 1 /\ m + 1 \in 1 .. m + 1 /\ 1 <= m + 1
        BY <1>2
    <3> QED BY <3>1, Layout
  <2> QED BY <2>1, <2>2
<1>4. \A i \in 1 .. m : /\ StringFits(page, at(i)) /\ StringAt(page, at(i)) = n.items[i].key
                        /\ StringFits(page, ValueOffset(page, at(i)))
                        /\ StringAt(page, ValueOffset(page, at(i))) = n.items[i].value
    BY ItemRead
<1> DEFINE items == [i \in 1 .. m |-> [key |-> StringAt(page, at(i)),
                                       value |-> StringAt(page, ValueOffset(page, at(i)))]]
           kids == IF IsLeaf(n) THEN <<>>
                   ELSE [i \in 1 .. (IF m < 0 THEN 0 ELSE m) + 1 |-> ReadLong(page, HeaderAt(FALSE, i))]
<1>5. DeserializeNode(page) = [items |-> items, kids |-> kids]
  <2> HIDE DEF page
  <2> QED BY <1>2, <1>3, <1>4 DEF DeserializeNode
<1>6. items = n.items
  <2>1. n.items = [i \in 1 .. m |-> [key |-> n.items[i].key, value |-> n.items[i].value]]
      BY NodeIs
  <2> HIDE DEF page
  <2> QED BY <1>4, <2>1
<1>7. kids = n.kids
  <2>1. CASE IsLeaf(n)
      BY <2>1 DEF IsLeaf
  <2>2. CASE ~IsLeaf(n)
    <3>1. n.kids = [i \in 1 .. m + 1 |-> n.kids[i]]
        BY <2>2, NodeIs
    <3>2. \A i \in 1 .. m + 1 : ReadLong(page, HeaderAt(FALSE, i)) = n.kids[i]
        BY <2>2, KidRead
    <3>3. (IF m < 0 THEN 0 ELSE m) + 1 = m + 1
        BY <1>2
    <3> HIDE DEF page
    <3> QED BY <2>2, <3>1, <3>2, <3>3
  <2> QED BY <2>1, <2>2
<1>8. n = [items |-> n.items, kids |-> n.kids]
    BY NodeIs
<1> HIDE DEF items, kids
<1> QED BY <1>1, <1>5, <1>6, <1>7, <1>8 DEF NodeReadsBack
-----------------------------------------------------------------------------
\* The situations that the code leaves to its caller do not happen.
DocumentedUse == Situation \cap {"tornUse", "longList"} = {}
-----------------------------------------------------------------------------
\* The pages that the constructor takes.
LEMMA Numbers ==
    /\ MetaPage = 0 /\ FreelistPage = 1 /\ FirstRoot = 2
    /\ AfterNextPage(EmptyFreeList) = [maxPage |-> 1, releasedPages |-> <<>>]
    /\ NewFreeList = [maxPage |-> 2, releasedPages |-> <<>>]
    /\ NextPage(AfterNextPage(EmptyFreeList)) = 2
    /\ Page = 2 .. MaxPages /\ MaxPages \in Nat /\ 2 \in Page
<1>1. NextPage(EmptyFreeList) = 1
    BY DEF NextPage, EmptyFreeList, InitialPage
<1>2. AfterNextPage(EmptyFreeList) = [maxPage |-> 1, releasedPages |-> <<>>]
    BY DEF AfterNextPage, EmptyFreeList, InitialPage
<1>3. NextPage([maxPage |-> 1, releasedPages |-> <<>>]) = 2
    BY DEF NextPage
<1>4. AfterNextPage([maxPage |-> 1, releasedPages |-> <<>>])
        = [maxPage |-> 2, releasedPages |-> <<>>]
    BY DEF AfterNextPage
<1>5. FreelistPage = 1 /\ FirstRoot = 2 /\ NewFreeList = [maxPage |-> 2, releasedPages |-> <<>>]
    BY <1>1, <1>2, <1>3, <1>4 DEF FreelistPage, FirstRoot, NewFreeList
<1> QED BY <1>2, <1>3, <1>5, FileAssumption DEF MetaPage, Page

\* The larger of two numbers.
LEMMA MaxOfTwo ==
    ASSUME NEW a \in Int, NEW b \in Int
    PROVE  Max({a, b}) = IF a <= b THEN b ELSE a
BY DEF Max

\* A function on 1 .. n has length n.
LEMMA LenIs ==
    ASSUME NEW n \in Nat, NEW f, f = [i \in 1 .. n |-> f[i]]
    PROVE  Len(f) = n
<1> DEFINE S == {f[i] : i \in 1 .. n}
<1>1. f \in [1 .. n -> S]
    OBVIOUS
<1>2. f \in Seq(S)
    BY <1>1, SeqDef
<1>3. Len(f) \in Nat /\ DOMAIN f = 1 .. Len(f)
    BY <1>2, LenProperties
<1>4. DOMAIN f = 1 .. n
    BY <1>1
<1> HIDE DEF S
<1> QED BY <1>3, <1>4

\* A page put into a file, as std::fstream does it: pages that the file did not
\* reach to read as holes.
Puts(f, g, num, page) ==
    /\ g = [i \in 1 .. Len(g) |-> g[i]] /\ Len(g) \in Nat
    /\ \A p \in Nat : p < Len(g) <=> p < Len(f) \/ p <= num
    /\ \A p \in Nat : Stored(g, p) = IF p = num THEN page ELSE Stored(f, p)

\* The file once the buffer is emptied.
LEMMA FlushPuts ==
    ASSUME NEW s, NEW num \in Nat, NEW page,
           s.buffer = << [num |-> num, page |-> page] >>,
           Len(s.file) \in Nat
    PROVE  Puts(s.file, Flushed(s), num, page)
<1> DEFINE f == s.file
           g == Flushed(s)
           m == Max({Len(f), num + 1})
<1>1. m = (IF Len(f) <= num + 1 THEN num + 1 ELSE Len(f)) /\ m \in Nat
    BY MaxOfTwo
<1>2. /\ s.buffer # <<>>
      /\ Head(s.buffer).num = num /\ Head(s.buffer).page = page
    OBVIOUS
<1>3. g = [i \in 1 .. m |-> IF i = num + 1 THEN page ELSE IF i <= Len(f) THEN f[i] ELSE Hole]
  <2>1. g = [i \in 1 .. Max({Len(f), Head(s.buffer).num + 1}) |->
                 IF i = Head(s.buffer).num + 1 THEN Head(s.buffer).page
                 ELSE IF i <= Len(f) THEN f[i] ELSE Hole]
      BY <1>2, Zenon DEF Flushed
  <2> QED BY <1>2, <2>1, Zenon
<1> HIDE DEF g, m
<1>4. g = [i \in 1 .. m |-> g[i]]
    BY <1>3
<1>5. Len(g) = m
    BY <1>1, <1>4, LenIs
<1>6. \A p \in Nat : p < Len(g) <=> p < Len(f) \/ p <= num
    BY <1>1, <1>5
<1>7. ASSUME NEW p \in Nat PROVE Stored(g, p) = IF p = num THEN page ELSE Stored(f, p)
  <2>1. CASE p < Len(g)
    <3>1. p + 1 \in 1 .. m
        BY <1>1, <1>5, <2>1
    <3>2. g[p + 1] = IF p + 1 = num + 1 THEN page ELSE IF p + 1 <= Len(f) THEN f[p + 1] ELSE Hole
        BY <1>3, <3>1
    <3> QED BY <2>1, <3>2 DEF Stored
  <2>2. CASE ~(p < Len(g))
    <3>1. p # num /\ ~(p < Len(f))
        BY <1>6, <2>2
    <3> QED BY <2>2, <3>1 DEF Stored
  <2> QED BY <2>1, <2>2
<1>8. g = [i \in 1 .. Len(g) |-> g[i]] /\ Len(g) \in Nat
    BY <1>1, <1>4, <1>5
<1> QED BY <1>6, <1>7, <1>8 DEF Puts, g
-----------------------------------------------------------------------------
\* What a file is, page by page: Whole looks at its list of pages.
LEMMA WholePages ==
    ASSUME NEW h, NEW f, Len(h) \in Nat,
           f = [i \in 1 .. Len(f) |-> f[i]], Len(f) \in Nat
    PROVE  Whole(f) <=>
             /\ Len(f) > 1 /\ Stored(f, MetaPage).round > 0
             /\ Stored(f, FreelistPage).round = Stored(f, MetaPage).round
             /\ \A p \in Nat : p < Len(f) => Stored(f, p).round <= Stored(f, MetaPage).round
<1>1. DOMAIN f = 1 .. Len(f)
    OBVIOUS
<1>2. CASE Len(f) > 1
  <2>1. Stored(f, MetaPage) = f[1] /\ Stored(f, FreelistPage) = f[2]
      BY <1>2, Numbers DEF Stored
  <2>2. (\A i \in DOMAIN f : f[i].round <= f[1].round)
          <=> \A p \in Nat : p < Len(f) => Stored(f, p).round <= f[1].round
    <3>1. ASSUME \A i \in DOMAIN f : f[i].round <= f[1].round, NEW p \in Nat, p < Len(f)
          PROVE  Stored(f, p).round <= f[1].round
      <4>1. p + 1 \in DOMAIN f
          BY <1>1, <3>1
      <4> QED BY <3>1, <4>1 DEF Stored
    <3>2. ASSUME \A p \in Nat : p < Len(f) => Stored(f, p).round <= f[1].round,
                 NEW i \in DOMAIN f
          PROVE  f[i].round <= f[1].round
      <4>1. i - 1 \in Nat /\ i - 1 < Len(f) /\ i - 1 + 1 = i
          BY <1>1
      <4>2. Stored(f, i - 1) = f[i]
          BY <4>1 DEF Stored
      <4> QED BY <3>2, <4>1, <4>2
    <3> QED BY <3>1, <3>2
  <2> QED BY <1>2, <2>1, <2>2, Numbers DEF Whole
<1>3. CASE ~(Len(f) > 1)
    BY <1>3, Numbers DEF Whole
<1> QED BY <1>2, <1>3

\* A page put into a file, for a transaction that is the last.
LEMMA PutKeeps ==
    ASSUME NEW h, Databases(h), NEW f, FileOf(f, h),
           NEW num \in 0 .. MaxPages, NEW page, page.round = Len(h),
           NEW g, Puts(f, g, num, page),
           Len(f) > 0 \/ num >= FirstRoot,
           num = MetaPage => /\ page.data = SerializeMeta(h[Len(h)].meta)
                             /\ Stored(f, FreelistPage).round > 0 \/ Len(h) = 1,
           num = FreelistPage => page.data = SerializeFreeList(h[Len(h)].fl),
           Whole(g) => HasTree(g, h[Stored(g, MetaPage).round].nodes)
    PROVE  FileOf(g, h)
<1>1. Len(h) \in Nat /\ Len(h) > 0
    BY LenProperties DEF Databases
<1>2. Len(f) \in {0} \cup 3 .. (MaxPages + 1) /\ MaxPages \in Nat /\ num \in Nat
    BY Numbers DEF FileOf
<1>3. /\ g = [i \in 1 .. Len(g) |-> g[i]] /\ Len(g) \in Nat
      /\ \A p \in Nat : p < Len(g) <=> p < Len(f) \/ p <= num
      /\ \A p \in Nat : Stored(g, p) = IF p = num THEN page ELSE Stored(f, p)
    BY DEF Puts
<1>4. Len(g) \in 3 .. (MaxPages + 1)
  <2>1. 2 < Len(g)
      BY <1>2, <1>3, Numbers
  <2>2. ~(MaxPages + 1 < Len(g))
      BY <1>2, <1>3
  <2> QED BY <1>2, <1>3, <2>1, <2>2
<1>5. \A p \in 0 .. MaxPages : Stored(g, p).round \in 0 .. Len(h)
                               /\ (Stored(g, p).round = 0 => Stored(g, p) = Hole)
    BY <1>1, <1>2, <1>3 DEF FileOf
<1>6. MetaPage \in Nat /\ FreelistPage \in Nat /\ MetaPage # FreelistPage
    BY Numbers
<1>7. Stored(g, MetaPage).round > 0 =>
          Stored(g, MetaPage).data = SerializeMeta(h[Stored(g, MetaPage).round].meta)
    BY <1>3, <1>6 DEF FileOf
<1>8. IF Stored(g, FreelistPage).round > 0
      THEN Stored(g, FreelistPage).data = SerializeFreeList(h[Stored(g, FreelistPage).round].fl)
      ELSE Stored(g, MetaPage).round <= 1
    BY <1>1, <1>3, <1>6 DEF FileOf
<1> QED BY <1>3, <1>4, <1>5, <1>7, <1>8, Numbers DEF FileOf

\* A transaction that has written nothing yet.
LEMMA LongerHistory ==
    ASSUME NEW h, Databases(h), NEW d \in Database, NEW f, FileOf(f, h)
    PROVE  FileOf(f, Append(h, d))
<1>1. /\ Len(h) \in Nat /\ Len(Append(h, d)) = Len(h) + 1
      /\ \A r \in 1 .. Len(h) : Append(h, d)[r] = h[r]
    BY LenProperties, AppendProperties DEF Databases
<1>2. MetaPage \in 0 .. MaxPages /\ FreelistPage \in 0 .. MaxPages
    BY Numbers
<1>3. \A p \in 0 .. MaxPages : Stored(f, p).round \in 0 .. Len(h)
    BY DEF FileOf
<1>4. \A p \in {MetaPage, FreelistPage} : Stored(f, p).round > 0 =>
          Append(h, d)[Stored(f, p).round] = h[Stored(f, p).round]
    BY <1>1, <1>2, <1>3
<1>5. Whole(f) => Stored(f, MetaPage).round > 0
  <2>1. Len(f) \in Nat /\ f = [i \in 1 .. Len(f) |-> f[i]]
      BY Numbers DEF FileOf
  <2> QED BY <1>1, <2>1, WholePages
<1>6. \A p \in 0 .. MaxPages : Stored(f, p).round \in 0 .. Len(Append(h, d))
    BY <1>1, <1>3
<1> QED BY <1>4, <1>5, <1>6 DEF FileOf

\* What a tree keeps of a page that is put into the file.
LEMMA PutKeepsTree ==
    ASSUME NEW f, NEW g, NEW num, NEW page, Puts(f, g, num, page),
           NEW nodes, HasTree(f, nodes),
           num \in Pages(nodes) => page.data = SerializeNode(nodes[num])
    PROVE  HasTree(g, nodes)
<1>1. Pages(nodes) \subseteq Nat
    BY Numbers DEF Pages
<1> QED BY <1>1 DEF HasTree, Puts

\* Page numbers are below the sign bit of an int.
LEMMA PagesFit == \A p \in 0 .. MaxPages : p \in Nat /\ LongFits(p)
<1>1. MaxPages \in Nat /\ MaxPages < Values[IntSize] \div 2 /\ Values[IntSize] \div 2 \in Nat
    BY FileAssumption, Widths DEF LongFits
<1> QED BY <1>1 DEF LongFits

\* A database that fits its pages reads back from them.
LEMMA ReadsBack ==
    ASSUME NEW d \in Database, FreeListFits(d.fl)
    PROVE  /\ DeserializeMeta(SerializeMeta(d.meta)) = d.meta
           /\ DeserializeFreeList(SerializeFreeList(d.fl)) = d.fl
<1>1. FreelistPage \in 0 .. MaxPages /\ Page \subseteq 0 .. MaxPages
    BY Numbers
<1>2. DeserializeMeta(SerializeMeta(d.meta)) = d.meta
  <2>1. d.meta \in [freelistPage : {FreelistPage}, root : Page]
      BY DEF Database
  <2>2. /\ d.meta = [freelistPage |-> d.meta.freelistPage, root |-> d.meta.root]
        /\ d.meta.freelistPage \in 0 .. MaxPages /\ d.meta.root \in 0 .. MaxPages
      BY <1>1, <2>1
  <2> QED BY <2>2, PagesFit, MetaReads
<1>3. IsFreeList(d.fl)
  <2>1. d.fl \in [maxPage : Page, releasedPages : Seq(Page)]
      BY DEF Database
  <2>2. d.fl.maxPage \in Page /\ d.fl.releasedPages \in Seq(Page)
        /\ d.fl = [maxPage |-> d.fl.maxPage, releasedPages |-> d.fl.releasedPages]
      BY <2>1
  <2> DEFINE s == d.fl.releasedPages
  <2>3. s \in Seq(Page) /\ DOMAIN s = 1 .. Len(s) /\ Len(s) \in Nat /\ \A i \in 1 .. Len(s) : s[i] \in Page
      BY <2>2, LenProperties, ElementOfSeq
  <2>4. Page \subseteq Nat
      BY <1>1, PagesFit
  <2>5. s \in Seq(Nat)
      BY <2>3, <2>4, SeqMonotonic
  <2>6. LongFits(d.fl.maxPage) /\ \A i \in DOMAIN s : LongFits(s[i])
      BY <1>1, <2>2, <2>3, PagesFit
  <2> QED BY <2>2, <2>4, <2>5, <2>6 DEF IsFreeList
<1>4. DeserializeFreeList(SerializeFreeList(d.fl)) = d.fl
    BY <1>3, FreeListReads DEF IsFreeList, FreeListReadsBack
<1> QED BY <1>2, <1>4

\* A whole file is the database of the transaction that wrote its meta page.
LEMMA WholeHolds ==
    ASSUME NEW h, Databases(h), NEW f, FileOf(f, h), Whole(f)
    PROVE  /\ f[1] = Stored(f, MetaPage) /\ f[1].round \in 1 .. Len(h)
           /\ Holds(f, h[f[1].round]) /\ Sound(h[f[1].round])
           /\ HasTree(f, h[f[1].round].nodes)
<1> DEFINE r == Stored(f, MetaPage).round
           d == h[r]
<1>1. Len(h) \in Nat /\ DOMAIN h = 1 .. Len(h) /\ h \in Seq(Database)
    BY LenProperties DEF Databases
<1>2. Len(f) \in Nat /\ f = [i \in 1 .. Len(f) |-> f[i]]
    BY Numbers DEF FileOf
<1>3. /\ Len(f) > 1 /\ r > 0 /\ Stored(f, FreelistPage).round = r
    BY <1>1, <1>2, WholePages
<1>4. r \in 1 .. Len(h)
  <2>1. r \in 0 .. Len(h)
      BY Numbers DEF FileOf
  <2> QED BY <1>1, <1>3, <2>1
<1>5. d \in Database /\ Sound(d) /\ FreeListFits(d.fl)
  <2>1. \A i \in 1 .. Len(h) : Sound(h[i]) /\ FreeListFits(h[i].fl)
      BY <1>1 DEF Databases
  <2>2. \A i \in 1 .. Len(h) : h[i] \in Database
      BY <1>1, ElementOfSeq
  <2> HIDE DEF r
  <2> QED BY <1>4, <2>1, <2>2
<1>6. Stored(f, MetaPage) = f[MetaPage + 1] /\ Stored(f, FreelistPage) = f[FreelistPage + 1]
    BY <1>2, <1>3, Numbers DEF Stored
<1>7. /\ Stored(f, MetaPage).data = SerializeMeta(d.meta)
      /\ Stored(f, FreelistPage).data = SerializeFreeList(d.fl)
      /\ HasTree(f, d.nodes)
    BY <1>3 DEF FileOf
<1>8. \A p \in Pages(d.nodes) : p < Len(f) /\ DeserializeNode(f[p + 1].data) = d.nodes[p]
  <2> SUFFICES ASSUME NEW p \in Pages(d.nodes)
               PROVE  p < Len(f) /\ DeserializeNode(f[p + 1].data) = d.nodes[p]
      OBVIOUS
  <2>1. p \in Page /\ d.nodes[p] # NoNode /\ d.nodes[p] \in Node
      BY <1>5 DEF Pages, Database
  <2>2. p < Len(f) /\ f[p + 1].data = SerializeNode(d.nodes[p])
      BY <1>7 DEF HasTree, Stored
  <2>3. NodeReadsBack(d.nodes[p])
      BY <2>1, FileAssumption, NodeReads
  <2> QED BY <2>2, <2>3 DEF NodeReadsBack
<1>9. Holds(f, d)
    BY <1>5, <1>6, <1>7, <1>8, ReadsBack DEF Holds
<1>10. f[1] = Stored(f, MetaPage)
    BY <1>6, Numbers
<1> HIDE DEF r, d
<1> QED BY <1>4, <1>5, <1>7, <1>9, <1>10 DEF r, d
-----------------------------------------------------------------------------
\* The pages of a set in a vector, each once.
LEMMA Vector ==
    ASSUME NEW S \in SUBSET Page
    PROVE  /\ SetToSeq(S) \in Seq(Page) /\ Range(SetToSeq(S)) \subseteq S
           /\ IsInjective(SetToSeq(S))
<1>1. IsFiniteSet(Page)
    BY Numbers, FS_Interval
<1>2. Cardinality(S) \in Nat /\ ExistsBijection(1 .. Cardinality(S), S)
    BY <1>1, FS_Subset, FS_CardinalityType
<1>3. \E f \in [1 .. Cardinality(S) -> S] : IsInjective(f)
    BY <1>2 DEF ExistsBijection, Bijection, Injection
<1>4. SetToSeq(S) \in [1 .. Cardinality(S) -> S] /\ IsInjective(SetToSeq(S))
    BY <1>3 DEF SetToSeq
<1>5. SetToSeq(S) \in [1 .. Cardinality(S) -> Page]
    BY <1>4
<1>6. SetToSeq(S) \in Seq(Page)
    BY <1>2, <1>5, SeqDef
<1> QED BY <1>4, <1>6 DEF Range

\* A page taken from the free list of a database is a new one, and the list that
\* is left has no page of the tree.
LEMMA TakeFromDatabase ==
    ASSUME NEW d \in Database, Sound(d), CanAllocate(d.fl, MaxPages)
    PROVE  /\ AfterNextPage(d.fl) \in [maxPage : Page, releasedPages : Seq(Page)]
           /\ IsInjective(AfterNextPage(d.fl).releasedPages)
           /\ Range(AfterNextPage(d.fl).releasedPages)
                  = Range(d.fl.releasedPages) \ {NextPage(d.fl)}
           /\ d.fl.maxPage <= AfterNextPage(d.fl).maxPage
           /\ NextPage(d.fl) \in Page /\ NextPage(d.fl) <= AfterNextPage(d.fl).maxPage
           /\ NextPage(d.fl) \notin Pages(d.nodes)
<1> DEFINE f == d.fl
           a == NextPage(f)
           g == AfterNextPage(f)
<1>1. f \in [maxPage : Page, releasedPages : Seq(Page)] /\ f.maxPage \in Page
      /\ f \in [maxPage : Nat, releasedPages : Seq(Page)]
    BY Numbers DEF Database
<1>2. /\ IsInjective(f.releasedPages)
      /\ \A p \in Pages(d.nodes) : p <= f.maxPage /\ p \notin Range(f.releasedPages)
      /\ \A p \in Range(f.releasedPages) : p <= f.maxPage
    BY DEF Sound
<1>3. Range(f.releasedPages) \subseteq Page
  <2>1. f.releasedPages \in Seq(Page)
      BY <1>1
  <2> QED BY <2>1, LenProperties, ElementOfSeq DEF Range
<1>4. CanAllocate(f, MaxPages) /\ Pages(d.nodes) \subseteq Page /\ Page = 2 .. MaxPages
      /\ MaxPages \in Nat
    BY Numbers DEF Pages
<1> HIDE DEF f
<1>5. CASE f.releasedPages # <<>>
  <2>1. /\ g.maxPage = f.maxPage /\ g.releasedPages \in Seq(Page)
        /\ g \in [maxPage : Nat, releasedPages : Seq(Page)]
        /\ IsInjective(g.releasedPages)
        /\ a \in Range(f.releasedPages)
        /\ Range(g.releasedPages) = Range(f.releasedPages) \ {a}
      BY <1>1, <1>2, <1>5, TakeReleased
  <2>2. g \in [maxPage : Page, releasedPages : Seq(Page)]
      BY <1>1, <2>1
  <2>3. f.maxPage <= g.maxPage
      BY <1>1, <1>4, <2>1
  <2>4. a \in Page /\ a <= g.maxPage /\ a \notin Pages(d.nodes)
      BY <1>2, <1>3, <2>1
  <2> HIDE DEF a, g
  <2> QED BY <2>1, <2>2, <2>3, <2>4 DEF f, a, g
<1>6. CASE f.releasedPages = <<>>
  <2>1. /\ a = f.maxPage + 1 /\ g.maxPage = f.maxPage + 1 /\ g.releasedPages = f.releasedPages
        /\ g \in [maxPage : Nat, releasedPages : Seq(Page)]
      BY <1>1, <1>6, TakeFresh
  <2>2. f.maxPage < MaxPages
      BY <1>4, <1>6 DEF CanAllocate
  <2>3. a \in Page /\ a <= g.maxPage /\ f.maxPage <= g.maxPage
      BY <1>1, <1>4, <2>1, <2>2
  <2>4. g \in [maxPage : Page, releasedPages : Seq(Page)]
      BY <2>1, <2>3
  <2>5. a \notin Pages(d.nodes) /\ a \notin Range(f.releasedPages)
    <3>1. ~(a <= f.maxPage)
        BY <1>1, <1>4, <2>1
    <3> HIDE DEF a
    <3> QED BY <1>2, <3>1
  <2>6. Range(g.releasedPages) = Range(f.releasedPages) \ {a} /\ IsInjective(g.releasedPages)
      BY <1>2, <2>1, <2>5
  <2> HIDE DEF a, g
  <2> QED BY <2>3, <2>4, <2>5, <2>6 DEF f, a, g
<1> QED BY <1>5, <1>6

\* What a transaction has in memory, of pages and the free list.
LEMMA InMemory ==
    ASSUME NEW d \in Database, Sound(d), TxOn(d)
    PROVE  /\ fl \in [maxPage : Page, releasedPages : Seq(Page)]
           /\ meta \in [freelistPage : {FreelistPage}, root : Page]
           /\ IsInjective(fl.releasedPages)
           /\ \A p \in Range(fl.releasedPages) : p # FreelistPage /\ p <= fl.maxPage
           /\ \A p \in Pages(d.nodes) \cup Range(tx.allocatedPages) :
                  p \in Page /\ p <= fl.maxPage /\ p \notin Range(fl.releasedPages)
           /\ Range(tx.allocatedPages) \cap Pages(d.nodes) = {}
           /\ IsInjective(tx.allocatedPages)
           /\ meta.root = d.meta.root \/ meta.root \in Range(tx.allocatedPages)
<1>1. /\ d.fl \in [maxPage : Page, releasedPages : Seq(Page)]
      /\ d.meta \in [freelistPage : {FreelistPage}, root : Page]
    BY DEF Database
<1>2. /\ IsInjective(d.fl.releasedPages)
      /\ \A p \in Pages(d.nodes) : p <= d.fl.maxPage /\ p \notin Range(d.fl.releasedPages)
      /\ \A p \in Range(d.fl.releasedPages) : p # FreelistPage /\ p <= d.fl.maxPage
    BY DEF Sound
<1>3. Pages(d.nodes) \subseteq Page /\ Page = 2 .. MaxPages /\ MaxPages \in Nat
    BY Numbers DEF Pages
<1>4. CASE tx.allocatedPages = <<>> /\ fl = d.fl /\ meta = d.meta
  <2>1. Range(tx.allocatedPages) = {} /\ IsInjective(tx.allocatedPages)
      BY <1>4 DEF Range, IsInjective
  <2> QED BY <1>1, <1>2, <1>3, <1>4, <2>1
<1>5. CASE /\ CanAllocate(d.fl, MaxPages)
           /\ tx.allocatedPages = <<NextPage(d.fl)>> /\ fl = AfterNextPage(d.fl)
           /\ meta \in {d.meta, [d.meta EXCEPT !.root = NextPage(d.fl)]}
  <2> DEFINE a == NextPage(d.fl)
  <2>1. Range(tx.allocatedPages) = {a} /\ IsInjective(tx.allocatedPages)
    <3>1. tx.allocatedPages = <<a>>
        BY <1>5
    <3> HIDE DEF a
    <3> QED BY <3>1 DEF Range, IsInjective
  <2>2. /\ fl \in [maxPage : Page, releasedPages : Seq(Page)]
        /\ IsInjective(fl.releasedPages)
        /\ Range(fl.releasedPages) = Range(d.fl.releasedPages) \ {a}
        /\ d.fl.maxPage <= fl.maxPage
        /\ a \in Page /\ a <= fl.maxPage /\ a \notin Pages(d.nodes)
      BY <1>5, TakeFromDatabase
  <2>3. meta = d.meta \/ meta = [d.meta EXCEPT !.root = a]
      BY <1>5
  <2>4. Range(fl.releasedPages) \subseteq Page
    <3>1. fl.releasedPages \in Seq(Page)
        BY <2>2
    <3> QED BY <3>1, LenProperties, ElementOfSeq DEF Range
  <2> HIDE DEF a
  <2>5. /\ meta \in [freelistPage : {FreelistPage}, root : Page]
        /\ meta.root = d.meta.root \/ meta.root = a
      BY <1>1, <2>2, <2>3
  <2>6. d.fl.maxPage \in Int /\ fl.maxPage \in Int
      BY <1>1, <1>3, <2>2
  <2>7. \A p \in Range(fl.releasedPages) : p # FreelistPage /\ p <= fl.maxPage
    <3>1. \A p \in Range(fl.releasedPages) : p # FreelistPage /\ p <= d.fl.maxPage /\ p \in Int
        BY <1>2, <1>3, <2>2, <2>4
    <3> QED BY <2>2, <2>6, <3>1
  <2>8. \A p \in Pages(d.nodes) : p <= fl.maxPage
    <3>1. \A p \in Pages(d.nodes) : p <= d.fl.maxPage /\ p \in Int
        BY <1>2, <1>3
    <3> QED BY <2>2, <2>6, <3>1
  <2> QED BY <1>2, <1>3, <2>1, <2>2, <2>5, <2>7, <2>8
<1> QED BY <1>4, <1>5 DEF TxOn

\* Releasing a vector of pages, on a free list whose largest page is a number.
LEMMA ReleaseVector ==
    ASSUME NEW f, f \in [maxPage : Nat, releasedPages : Seq(Page)],
           NEW pages \in Seq(Page)
    PROVE  /\ ReleasePages(f, pages) \in [maxPage : Nat, releasedPages : Seq(Page)]
           /\ ReleasePages(f, pages).maxPage = f.maxPage
           /\ Range(ReleasePages(f, pages).releasedPages)
                  = Range(f.releasedPages) \cup Range(pages)
           /\ (/\ IsInjective(f.releasedPages) /\ IsInjective(pages)
               /\ Range(f.releasedPages) \cap Range(pages) = {})
              => IsInjective(ReleasePages(f, pages).releasedPages)
    BY Release

\* The database that a commit or a rollback is to leave is sound again, if it
\* releases pages of the tree or of the transaction, but not the root.
LEMMA LeavesSound ==
    ASSUME NEW d \in Database, Sound(d), d = history[base], TxOn(d),
           tx'.dirtyNodes \in [Page -> Node \cup {NoNode}],
           Pages(tx'.dirtyNodes) \subseteq Pages(d.nodes) \cup Range(tx.allocatedPages),
           NEW released \in Seq(Page), IsInjective(released),
           Range(released) \subseteq Pages(d.nodes) \cup Range(tx.allocatedPages),
           meta.root \in (Pages(d.nodes) \cup Pages(tx'.dirtyNodes)) \ Range(released)
    PROVE  Leaving(released) \in Database /\ Sound(Leaving(released))
<1> DEFINE x == Leaving(released)
           f == ReleasePages(fl, released)
<1>1. /\ fl \in [maxPage : Page, releasedPages : Seq(Page)]
      /\ meta \in [freelistPage : {FreelistPage}, root : Page]
      /\ IsInjective(fl.releasedPages)
      /\ \A p \in Range(fl.releasedPages) : p # FreelistPage /\ p <= fl.maxPage
      /\ \A p \in Pages(d.nodes) \cup Range(tx.allocatedPages) :
             p \in Page /\ p <= fl.maxPage /\ p \notin Range(fl.releasedPages)
    BY InMemory
<1>2. fl \in [maxPage : Nat, releasedPages : Seq(Page)]
    BY <1>1, Numbers
<1>3. /\ f \in [maxPage : Nat, releasedPages : Seq(Page)] /\ f.maxPage = fl.maxPage
      /\ Range(f.releasedPages) = Range(fl.releasedPages) \cup Range(released)
      /\ IsInjective(f.releasedPages)
  <2>1. Range(fl.releasedPages) \cap Range(released) = {}
      BY <1>1
  <2>2. released \in Seq(Page) /\ IsInjective(released) /\ IsInjective(fl.releasedPages)
      BY <1>1
  <2> HIDE DEF x
  <2>3. /\ f \in [maxPage : Nat, releasedPages : Seq(Page)] /\ f.maxPage = fl.maxPage
        /\ Range(f.releasedPages) = Range(fl.releasedPages) \cup Range(released)
        /\ ((/\ IsInjective(fl.releasedPages) /\ IsInjective(released)
             /\ Range(fl.releasedPages) \cap Range(released) = {})
            => IsInjective(f.releasedPages))
      BY <1>2, <2>2, ReleaseVector
  <2> HIDE DEF f
  <2> QED BY <2>1, <2>2, <2>3
<1>4. f \in [maxPage : Page, releasedPages : Seq(Page)]
    BY <1>1, <1>3
<1> HIDE DEF f
<1>5. /\ x.fl = f /\ x.meta = meta
      /\ x = [nodes |-> x.nodes, fl |-> f, meta |-> meta]
      /\ x.nodes = [p \in Page |-> IF p \in Range(released) THEN NoNode
                                   ELSE IF tx'.dirtyNodes[p] # NoNode THEN tx'.dirtyNodes[p]
                                   ELSE d.nodes[p]]
    BY DEF Leaving, f
<1>6. d.nodes \in [Page -> Node \cup {NoNode}]
    BY DEF Database
<1> HIDE DEF x
<1>7. x.nodes \in [Page -> Node \cup {NoNode}]
    BY <1>5, <1>6
<1>8. x \in Database
    BY <1>1, <1>4, <1>5, <1>7 DEF Database
<1>9. Pages(x.nodes) = (Pages(d.nodes) \cup Pages(tx'.dirtyNodes)) \ Range(released)
    BY <1>5 DEF Pages
<1>10. \A p \in Range(released) : p \in Page /\ p <= fl.maxPage
    BY <1>1
<1>11. \A p \in Range(f.releasedPages) : p # FreelistPage /\ p <= f.maxPage
    BY <1>1, <1>3, <1>10, Numbers
<1>12. \A p \in Pages(x.nodes) : p <= f.maxPage /\ p \notin Range(f.releasedPages)
    BY <1>1, <1>3, <1>9
<1>13. Sound(x)
    BY <1>3, <1>5, <1>9, <1>11, <1>12 DEF Sound
<1> QED BY <1>8, <1>13 DEF x

\* One more sound database, whose free list fits its page.
LEMMA OneMore ==
    ASSUME NEW h, Databases(h), NEW d \in Database, Sound(d), FreeListFits(d.fl)
    PROVE  /\ Databases(Append(h, d)) /\ Len(Append(h, d)) = Len(h) + 1
           /\ Append(h, d)[Len(h) + 1] = d
           /\ \A i \in 1 .. Len(h) : Append(h, d)[i] = h[i]
<1>1. h \in Seq(Database) /\ Len(h) \in Nat /\ Len(h) > 0 /\ DOMAIN h = 1 .. Len(h)
      /\ h[1] = NewDatabase
    BY LenProperties DEF Databases
<1>2. /\ Append(h, d) \in Seq(Database) /\ Len(Append(h, d)) = Len(h) + 1
      /\ Append(h, d)[Len(h) + 1] = d
      /\ \A i \in 1 .. Len(h) : Append(h, d)[i] = h[i]
    BY <1>1, AppendProperties
<1>3. DOMAIN Append(h, d) = 1 .. Len(h) + 1
    BY <1>2, LenProperties
<1>4. \A i \in 1 .. Len(h) + 1 : Sound(Append(h, d)[i]) /\ FreeListFits(Append(h, d)[i].fl)
  <2>1. \A i \in 1 .. Len(h) : Sound(h[i]) /\ FreeListFits(h[i].fl)
      BY <1>1 DEF Databases
  <2>2. \A i \in 1 .. Len(h) + 1 : i \in 1 .. Len(h) \/ i = Len(h) + 1
      BY <1>1
  <2> QED BY <1>2, <2>1, <2>2
<1> QED BY <1>1, <1>2, <1>3, <1>4 DEF Databases
-----------------------------------------------------------------------------
\* A stream with an empty buffer, before or after its page got to the file.
LEMMA Emptied ==
    ASSUME NEW h, NEW s, StreamOf(s, h), NEW f \in {s.file, Flushed(s)}, NEW good \in BOOLEAN
    PROVE  /\ StreamOf([file |-> f, buffer |-> <<>>, good |-> good], h)
           /\ Flushed([file |-> f, buffer |-> <<>>, good |-> good]) = f
<1> DEFINE t == [file |-> f, buffer |-> <<>>, good |-> good]
<1>1. t.file = f /\ t.buffer = <<>> /\ t.good = good
      /\ t = [file |-> t.file, buffer |-> t.buffer, good |-> t.good]
    OBVIOUS
<1> HIDE DEF t
<1>2. Flushed(t) = f
    BY <1>1 DEF Flushed
<1>3. FileOf(f, h)
    BY DEF StreamOf
<1>4. StreamOf(t, h)
    BY <1>1, <1>2, <1>3 DEF StreamOf
<1> QED BY <1>2, <1>4 DEF t

\* Dal::writePage: the page is in the buffer, after the one before it got to the
\* file, or the stream has failed.
LEMMA WriteOutcome ==
    ASSUME NEW h, NEW s, StreamOf(s, h), NEW num, NEW data, NEW r \in WritePage(s, num, data)
    PROVE  \/ /\ r.result = TRUE /\ s.good
              /\ r.stream = [file |-> Flushed(s), good |-> TRUE,
                             buffer |-> << [num |-> num,
                                            page |-> [data |-> data, round |-> Len(history)]] >>]
           \/ r.result = FALSE /\ r.stream.good = FALSE /\ StreamOf(r.stream, h)
<1>1. CASE r \in Broken(s, FALSE)
  <2>1. PICK f \in {s.file, Flushed(s)} :
            r = [stream |-> [file |-> f, buffer |-> <<>>, good |-> FALSE], result |-> FALSE]
      BY <1>1, Zenon DEF Broken
  <2> QED BY <2>1, Emptied
<1>2. CASE ~s.good /\ r = [stream |-> s, result |-> FALSE]
  <2>1. s.good = FALSE
      BY <1>2 DEF StreamOf
  <2> QED BY <1>2, <2>1
<1>3. CASE s.good /\ r = [stream |-> [file |-> Flushed(s), good |-> TRUE,
                             buffer |-> << [num |-> num,
                                            page |-> [data |-> data, round |-> Len(history)]] >>],
                          result |-> TRUE]
    BY <1>3
<1>4. s.good => r \in {[stream |-> [file |-> Flushed(s), good |-> TRUE,
                             buffer |-> << [num |-> num,
                                            page |-> [data |-> data, round |-> Len(history)]] >>],
                          result |-> TRUE]} \cup Broken(s, FALSE)
    BY Zenon DEF WritePage, MayUse
<1>5. ~s.good => r = [stream |-> s, result |-> FALSE]
    BY Zenon DEF WritePage, MayUse
<1> QED BY <1>1, <1>2, <1>3, <1>4, <1>5, Zenon

\* Dal::readPage: what the file and the buffer have of a page, or nullptr, and
\* then the stream has failed.
Reads(s, num, r) ==
    \/ /\ s.good /\ num \in 0 .. Len(Flushed(s)) - 1
       /\ r.result = Stored(Flushed(s), num).data
       /\ r.stream = [file |-> Flushed(s), buffer |-> <<>>, good |-> TRUE]
    \/ r.result = Unreadable /\ r.stream.good = FALSE

LEMMA ReadOutcome ==
    ASSUME NEW h, NEW s, StreamOf(s, h), NEW num, NEW r \in ReadPage(s, num)
    PROVE  StreamOf(r.stream, h) /\ Reads(s, num, r)
<1> USE DEF Reads
<1> DEFINE f == Flushed(s)
           in == num \in 0 .. Len(f) - 1
<1>1. CASE r \in Broken(s, Unreadable)
  <2>1. PICK g \in {s.file, Flushed(s)} :
            r = [stream |-> [file |-> g, buffer |-> <<>>, good |-> FALSE], result |-> Unreadable]
      BY <1>1, Zenon DEF Broken
  <2> QED BY <2>1, Emptied
<1>2. CASE ~s.good /\ r = [stream |-> s, result |-> Unreadable]
  <2>1. s.good = FALSE
      BY <1>2 DEF StreamOf
  <2> QED BY <1>2, <2>1
<1>3. CASE s.good /\ r = [stream |-> [file |-> f, buffer |-> <<>>, good |-> in],
                          result |-> IF in THEN f[num + 1].data ELSE Unreadable]
  <2>1. /\ r.stream = [file |-> f, buffer |-> <<>>, good |-> in]
        /\ r.result = IF in THEN f[num + 1].data ELSE Unreadable
      BY <1>3, Zenon
  <2>2. CASE in
    <3>1. r.stream = [file |-> f, buffer |-> <<>>, good |-> TRUE] /\ r.result = f[num + 1].data
        BY <2>1, <2>2
    <3>2. Stored(f, num) = f[num + 1]
      <4>1. FileOf(f, h)
          BY DEF StreamOf
      <4>2. Len(f) \in Nat
          BY <4>1, Numbers DEF FileOf
      <4> QED BY <2>2, <4>2 DEF Stored
    <3> QED BY <1>3, <2>2, <3>1, <3>2, Emptied
  <2>3. CASE ~in
    <3>1. r.result = Unreadable
        BY <2>1, <2>3, Zenon
    <3>2. in = FALSE
        BY <2>3
    <3>3. [file |-> f, buffer |-> <<>>, good |-> in] = [file |-> f, buffer |-> <<>>, good |-> FALSE]
        BY <3>2, Zenon
    <3>4. r.stream = [file |-> f, buffer |-> <<>>, good |-> FALSE]
        BY <2>1, <3>3, Zenon
    <3>5. StreamOf([file |-> f, buffer |-> <<>>, good |-> FALSE], h)
        BY Emptied
    <3>6. r.stream.good = FALSE
        BY <3>4
    <3> QED BY <3>1, <3>4, <3>5, <3>6, Zenon
  <2> QED BY <2>2, <2>3
<1>4. s.good => r \in {[stream |-> [file |-> f, buffer |-> <<>>, good |-> in],
                        result |-> IF in THEN f[num + 1].data ELSE Unreadable]}
                          \cup Broken(s, Unreadable)
    BY Zenon DEF ReadPage, MayUse
<1>5. ~s.good => r = [stream |-> s, result |-> Unreadable]
    BY Zenon DEF ReadPage, MayUse
<1>6. CASE s.good
  <2>1. \/ r = [stream |-> [file |-> f, buffer |-> <<>>, good |-> in],
                result |-> IF in THEN f[num + 1].data ELSE Unreadable]
        \/ r \in Broken(s, Unreadable)
      BY <1>4, <1>6, Zenon
  <2> QED BY <1>1, <1>3, <1>6, <2>1
<1>7. CASE ~s.good
    BY <1>2, <1>5, <1>7
<1> QED BY <1>6, <1>7
-----------------------------------------------------------------------------
\* The types of a page in the file or the buffer, and of the stream.
PageType == [data : [Position -> Byte], round : Nat]
StreamType == [file : Seq(PageType),
               buffer : Seq([num : 0 .. MaxPages, page : PageType]),
               good : BOOLEAN]

\* A stream with nothing in its buffer.
LEMMA StreamIs ==
    ASSUME NEW f \in Seq(PageType), NEW good \in BOOLEAN
    PROVE  [file |-> f, buffer |-> <<>>, good |-> good] \in StreamType
BY EmptySeq DEF StreamType

\* The file with the buffered page.
LEMMA FlushedType ==
    ASSUME NEW s \in StreamType
    PROVE  s.file \in Seq(PageType) /\ s.good \in BOOLEAN /\ Flushed(s) \in Seq(PageType)
<1> DEFINE B == [num : 0 .. MaxPages, page : PageType]
<1>1. s.file \in Seq(PageType) /\ s.buffer \in Seq(B) /\ s.good \in BOOLEAN
    BY DEF StreamType
<1>2. CASE s.buffer = <<>>
    BY <1>1, <1>2 DEF Flushed
<1>3. CASE s.buffer # <<>>
  <2> DEFINE w == Head(s.buffer)
             f == s.file
             m == Max({Len(f), w.num + 1})
             g == [i \in 1 .. m |-> IF i = w.num + 1 THEN w.page ELSE IF i <= Len(f) THEN f[i] ELSE Hole]
  <2>1. w \in B
    <3> HIDE DEF B
    <3> QED BY <1>1, <1>3, HeadTailProperties
  <2>2. w.num \in Nat /\ w.page \in PageType
    <3> HIDE DEF w
    <3> QED BY <2>1, Numbers
  <2>3. Len(f) \in Nat /\ \A i \in 1 .. Len(f) : f[i] \in PageType
      BY <1>1, LenProperties, ElementOfSeq
  <2>4. Hole \in PageType
      BY EmptyReads DEF Hole, PageType
  <2> HIDE DEF w, f
  <2>5. m \in Nat
      BY <2>2, <2>3, MaxOfTwo
  <2> HIDE DEF m
  <2>6. g \in [1 .. m -> PageType]
      BY <2>2, <2>3, <2>4, <2>5
  <2>7. \E k \in Nat : g \in [1 .. k -> PageType]
      BY <2>5, <2>6
  <2>8. Flushed(s) = g
      BY <1>3, Zenon DEF Flushed, g, m, f, w
  <2> HIDE DEF g
  <2>9. g \in Seq(PageType)
      BY <2>7, SeqDef
  <2> QED BY <1>1, <2>8, <2>9
<1> QED BY <1>2, <1>3

\* A call that fails leaves a stream.
LEMMA BrokenType ==
    ASSUME NEW s \in StreamType, NEW result, NEW r \in Broken(s, result)
    PROVE  r.stream \in StreamType
<1>1. PICK f \in {s.file, Flushed(s)} :
          r = [stream |-> [file |-> f, buffer |-> <<>>, good |-> FALSE], result |-> result]
    BY Zenon DEF Broken
<1>2. f \in Seq(PageType) /\ FALSE \in BOOLEAN
    BY FlushedType
<1>3. r.stream = [file |-> f, buffer |-> <<>>, good |-> FALSE]
    BY <1>1
<1> QED BY <1>2, <1>3, StreamIs, Zenon

\* So does a write,
LEMMA WriteType ==
    ASSUME NEW s \in StreamType, NEW num \in 0 .. MaxPages, NEW data \in [Position -> Byte],
           Len(history) \in Nat, NEW r \in WritePage(s, num, data)
    PROVE  r.stream \in StreamType
<1> DEFINE w == [num |-> num, page |-> [data |-> data, round |-> Len(history)]]
           t == [file |-> Flushed(s), good |-> TRUE, buffer |-> <<w>>]
<1>1. s.good => r \in {[stream |-> t, result |-> TRUE]} \cup Broken(s, FALSE)
    BY Zenon DEF WritePage, MayUse
<1>2. ~s.good => r = [stream |-> s, result |-> FALSE]
    BY Zenon DEF WritePage, MayUse
<1>3. t \in StreamType
  <2>1. w \in [num : 0 .. MaxPages, page : PageType]
      BY DEF PageType
  <2> HIDE DEF w
  <2>2. <<w>> \in Seq([num : 0 .. MaxPages, page : PageType])
      BY <2>1
  <2> QED BY <2>2, FlushedType DEF StreamType
<1> HIDE DEF t
<1>4. CASE s.good /\ r = [stream |-> t, result |-> TRUE]
    BY <1>3, <1>4
<1>5. CASE s.good /\ r \in Broken(s, FALSE)
    BY <1>5, BrokenType
<1>6. CASE ~s.good
    BY <1>2, <1>6
<1> QED BY <1>1, <1>4, <1>5, <1>6

\* a read,
LEMMA ReadType ==
    ASSUME NEW s \in StreamType, NEW num, NEW r \in ReadPage(s, num)
    PROVE  r.stream \in StreamType
<1> DEFINE f == Flushed(s)
           in == num \in 0 .. Len(f) - 1
           t == [file |-> f, buffer |-> <<>>, good |-> in]
           v == IF in THEN f[num + 1].data ELSE Unreadable
<1>1. s.good => r \in {[stream |-> t, result |-> v]} \cup Broken(s, Unreadable)
    BY Zenon DEF ReadPage, MayUse
<1>2. ~s.good => r = [stream |-> s, result |-> Unreadable]
    BY Zenon DEF ReadPage, MayUse
<1>3. t \in StreamType
  <2>1. in \in BOOLEAN /\ f \in Seq(PageType)
      BY FlushedType
  <2> HIDE DEF in, f
  <2> QED BY <2>1, StreamIs
<1> HIDE DEF t, v
<1>4. CASE s.good /\ r = [stream |-> t, result |-> v]
    BY <1>3, <1>4
<1>5. CASE s.good /\ r \in Broken(s, Unreadable)
    BY <1>5, BrokenType
<1>6. CASE ~s.good
    BY <1>2, <1>6
<1> QED BY <1>1, <1>4, <1>5, <1>6

\* and the end of the process.
LEMMA ExitType ==
    ASSUME NEW s \in StreamType, Exit(s)
    PROVE  stream' \in StreamType
<1>1. PICK f \in {s.file, Flushed(s)} : stream' = [Closed EXCEPT !.file = f]
    BY Zenon DEF Exit
<1>2. stream' = [file |-> f, buffer |-> <<>>, good |-> TRUE]
    BY <1>1 DEF Closed
<1>3. f \in Seq(PageType) /\ TRUE \in BOOLEAN
    BY FlushedType
<1> QED BY <1>2, <1>3, StreamIs
-----------------------------------------------------------------------------
\* What the constructor is to create is sound.
LEMMA Created ==
    /\ NewDatabase \in Database /\ Sound(NewDatabase) /\ FreeListFits(NewDatabase.fl)
    /\ Pages(NewDatabase.nodes) = {FirstRoot} /\ NewDatabase.nodes[FirstRoot] = EmptyNode
    /\ Databases(<<NewDatabase>>)
<1> DEFINE d == NewDatabase
<1>1. /\ d.nodes = [p \in Page |-> IF p = 2 THEN EmptyNode ELSE NoNode]
      /\ d.fl = [maxPage |-> 2, releasedPages |-> <<>>]
      /\ d.meta = [freelistPage |-> 1, root |-> 2]
      /\ d = [nodes |-> d.nodes, fl |-> d.fl, meta |-> d.meta]
    BY Numbers DEF NewDatabase
<1> HIDE DEF d
<1>2. d \in Database
  <2>1. EmptyNode \in Node
      BY FileAssumption
  <2>2. d.nodes \in [Page -> Node \cup {NoNode}]
      BY <1>1, <2>1
  <2>3. d.fl \in [maxPage : Page, releasedPages : Seq(Page)]
      BY <1>1, Numbers
  <2>4. d.meta \in [freelistPage : {FreelistPage}, root : Page]
      BY <1>1, Numbers
  <2> QED BY <1>1, <2>2, <2>3, <2>4 DEF Database
<1>3. Pages(d.nodes) = {2} /\ d.nodes[2] = EmptyNode
    BY <1>1, Numbers, FileAssumption DEF Pages
<1>4. Sound(d)
  <2>1. Range(d.fl.releasedPages) = {} /\ IsInjective(d.fl.releasedPages)
      BY <1>1 DEF Range, IsInjective
  <2> QED BY <1>1, <1>3, <2>1 DEF Sound
<1>5. FreeListFits(d.fl)
  <2>1. PageSize \in Nat /\ 16 <= PageSize
      BY FormatAssumption DEF LongSize
  <2> QED BY <1>1, <2>1 DEF FreeListFits, LongSize
<1>6. Databases(<<d>>)
    BY <1>2, <1>4, <1>5 DEF Databases, d
<1> QED BY <1>2, <1>3, <1>4, <1>5, <1>6, Numbers DEF d

\* A file in which nothing was written.
LEMMA EmptyFile ==
    ASSUME NEW h, Databases(h)
    PROVE  StreamOf(Closed, h) /\ Flushed(Closed) = <<>>
<1>1. Len(h) \in Nat
    BY LenProperties DEF Databases
<1>2. FileOf(<<>>, h)
  <2>1. \A p \in 0 .. MaxPages : Stored(<<>>, p) = Hole
      BY DEF Stored
  <2>2. Hole.round = 0
      BY DEF Hole
  <2>3. ~Whole(<<>>)
      BY Numbers DEF Whole
  <2> QED BY <1>1, <2>1, <2>2, <2>3, Numbers DEF FileOf
<1>3. Flushed(Closed) = <<>> /\ Closed.file = <<>>
    BY DEF Flushed, Closed
<1> QED BY <1>2, <1>3 DEF StreamOf, Closed

\* In the beginning there is no file.
LEMMA Initial == Init => PageFileInv
<1> SUFFICES ASSUME Init PROVE PageFileInv
    OBVIOUS
<1>1. HistoryInv
    BY Created DEF Init, HistoryInv
<1>2. MemoryInv
    BY DEF Init, MemoryInv, Phase, Closed
<1>3. StreamInv
    BY <1>1, EmptyFile DEF Init, HistoryInv, StreamInv, Saved
<1>4. EndedIsWritten /\ OpensAsLeft /\ ReadsAreCurrent
    BY DEF Init, EndedIsWritten, OpensAsLeft, ReadsAreCurrent
<1> QED BY <1>1, <1>2, <1>3, <1>4 DEF PageFileInv

\* The process ends, of itself or not.
LEMMA ExitKeeps ==
    ASSUME PageFileInv, NEW s, StreamOf(s, history), Exit(s), exists' = TRUE, history' = history
    PROVE  PageFileInv'
<1>1. PICK f \in {s.file, Flushed(s)} : stream' = [Closed EXCEPT !.file = f]
    BY Zenon DEF Exit
<1>2. stream' = [file |-> f, buffer |-> <<>>, good |-> TRUE]
    BY <1>1 DEF Closed
<1>3. StreamOf(stream', history)
    BY <1>2, Emptied
<1>4. pc' = "down" /\ fl' = EmptyFreeList /\ meta' = NoMeta /\ tx' = NoTx /\ reply' = {}
    BY DEF Exit, Gone
<1>5. HistoryInv'
    BY DEF PageFileInv, HistoryInv
<1>6. MemoryInv'
  <2>1. stream'.buffer = <<>> /\ stream'.good
      BY <1>2
  <2> QED BY <1>4, <2>1 DEF MemoryInv, Phase
<1>7. StreamInv'
    BY <1>3, <1>4 DEF StreamInv, Saved
<1>8. EndedIsWritten' /\ OpensAsLeft' /\ ReadsAreCurrent'
    BY <1>4 DEF EndedIsWritten, OpensAsLeft, ReadsAreCurrent
<1> QED BY <1>5, <1>6, <1>7, <1>8 DEF PageFileInv

\* There is a file once a process runs.
LEMMA Exists ==
    ASSUME MemoryInv, pc # "down" PROVE exists = TRUE
BY DEF MemoryInv

\* The destructor, and death.
LEMMA EndKeeps ==
    ASSUME PageFileInv, Close \/ Die
    PROVE  PageFileInv'
<1>1. Exit(stream) /\ pc # "down" /\ exists' = exists /\ history' = history
    BY DEF Close, Die
<1>2. StreamOf(stream, history)
    BY DEF PageFileInv, StreamInv
<1>3. MemoryInv
    BY DEF PageFileInv
<1>4. exists' = TRUE
    BY <1>1, <1>3, Exists
<1> QED BY <1>1, <1>2, <1>4, ExitKeeps

\* An empty file is made.
LEMMA CreateKeeps ==
    ASSUME PageFileInv, Create
    PROVE  PageFileInv'
<1>1. /\ pc = "down" /\ exists = FALSE
      /\ stream = Closed /\ fl = EmptyFreeList /\ meta = NoMeta /\ reply = {} /\ tx = NoTx
      /\ history = <<NewDatabase>>
    BY DEF Create, PageFileInv, MemoryInv
<1>2. /\ pc' = "newRoot" /\ exists' = TRUE
      /\ meta' = [freelistPage |-> FreelistPage, root |-> NoPage]
      /\ fl' = AfterNextPage(EmptyFreeList)
      /\ stream' = stream /\ tx' = tx /\ reply' = reply /\ base' = base /\ history' = history
    BY <1>1 DEF Create, FreelistPage, NoMeta
<1>3. HistoryInv'
    BY <1>2 DEF PageFileInv, HistoryInv
<1>4. MemoryInv'
    BY <1>1, <1>2 DEF MemoryInv, Phase
<1>5. StreamInv'
    BY <1>2 DEF PageFileInv, StreamInv, Saved
<1>6. EndedIsWritten' /\ OpensAsLeft' /\ ReadsAreCurrent'
    BY <1>1, <1>2 DEF EndedIsWritten, OpensAsLeft, ReadsAreCurrent
<1> QED BY <1>3, <1>4, <1>5, <1>6 DEF PageFileInv
-----------------------------------------------------------------------------
\* A stream after a write that succeeded: the page is in its buffer, and its
\* file is right with that page if the tree is.
LEMMA Wrote ==
    ASSUME NEW h, Databases(h), NEW s, StreamOf(s, h),
           NEW num \in 0 .. MaxPages, NEW page, page.round = Len(h),
           NEW t, t = [file |-> Flushed(s), good |-> TRUE,
                       buffer |-> << [num |-> num, page |-> page] >>],
           Len(Flushed(s)) > 0 \/ num >= FirstRoot,
           num = MetaPage => /\ page.data = SerializeMeta(h[Len(h)].meta)
                             /\ Stored(Flushed(s), FreelistPage).round > 0 \/ Len(h) = 1,
           num = FreelistPage => page.data = SerializeFreeList(h[Len(h)].fl)
    PROVE  /\ Puts(Flushed(s), Flushed(t), num, page)
           /\ t.good = TRUE /\ t.buffer[1].num = num
           /\ (Whole(Flushed(t))
                  => HasTree(Flushed(t), h[Stored(Flushed(t), MetaPage).round].nodes))
              => StreamOf(t, h)
<1> DEFINE f == Flushed(s)
           g == Flushed(t)
<1>1. FileOf(f, h)
    BY DEF StreamOf
<1>2. Len(f) \in Nat /\ num \in Nat
    BY <1>1, Numbers DEF FileOf
<1>3. t.file = f /\ t.good = TRUE /\ t.buffer = << [num |-> num, page |-> page] >>
      /\ t = [file |-> t.file, buffer |-> t.buffer, good |-> t.good]
    BY Zenon
<1>4. Puts(f, g, num, page)
  <2> HIDE DEF f
  <2> QED BY <1>2, <1>3, FlushPuts
<1>5. t.buffer[1].num = num /\ t.buffer = << [num |-> t.buffer[1].num, page |-> t.buffer[1].page] >>
    BY <1>3
<1>6. ASSUME Whole(g) => HasTree(g, h[Stored(g, MetaPage).round].nodes)
      PROVE  StreamOf(t, h)
  <2>1. FileOf(g, h)
      BY <1>1, <1>4, <1>6, PutKeeps
  <2>2. FileOf(t.file, h) /\ FileOf(Flushed(t), h)
      BY <1>1, <1>3, <2>1
  <2> QED BY <1>3, <1>5, <2>2 DEF StreamOf
<1> QED BY <1>3, <1>4, <1>5, <1>6

\* The same of the stream of the process.
LEMMA WroteNow ==
    ASSUME Databases(history), StreamOf(stream, history),
           NEW num \in 0 .. MaxPages, NEW page, page.round = Len(history),
           stream' = [file |-> Flushed(stream), good |-> TRUE,
                      buffer |-> << [num |-> num, page |-> page] >>],
           Len(Flushed(stream)) > 0 \/ num >= FirstRoot,
           num = MetaPage => /\ page.data = SerializeMeta(history[Len(history)].meta)
                             /\ Stored(Flushed(stream), FreelistPage).round > 0 \/ Len(history) = 1,
           num = FreelistPage => page.data = SerializeFreeList(history[Len(history)].fl)
    PROVE  /\ Puts(Flushed(stream), Flushed(stream'), num, page)
           /\ stream'.good = TRUE /\ stream'.buffer[1].num = num
           /\ (Whole(Flushed(stream'))
                  => HasTree(Flushed(stream'),
                             history[Stored(Flushed(stream'), MetaPage).round].nodes))
              => StreamOf(stream', history)
    BY Wrote

\* The round of a page of a file, the meta page among them.
LEMMA RoundOf ==
    ASSUME NEW h, NEW f, FileOf(f, h)
    PROVE  /\ \A p \in 0 .. MaxPages : Stored(f, p).round \in 0 .. Len(h)
           /\ Stored(f, MetaPage).round \in 0 .. Len(h)
<1>1. \A p \in 0 .. MaxPages : Stored(f, p).round \in 0 .. Len(h)
    BY DEF FileOf
<1>2. MetaPage \in 0 .. MaxPages
    BY Numbers
<1> QED BY <1>1, <1>2, Zenon

\* The first two pages of a file that has them.
LEMMA StoredAt ==
    ASSUME NEW f, Len(f) \in Nat
    PROVE  /\ MetaPage < Len(f) => Stored(f, MetaPage) = f[1]
           /\ FreelistPage < Len(f) => Stored(f, FreelistPage) = f[2]
<1>1. MetaPage + 1 = 1 /\ FreelistPage + 1 = 2
    BY Numbers
<1> QED BY <1>1, Zenon DEF Stored

\* A page that is newer than the meta page: the file is not whole.
LEMMA NotWhole ==
    ASSUME NEW h, Databases(h), NEW f, FileOf(f, h), NEW num \in 0 .. MaxPages, NEW page,
           NEW g, Puts(f, g, num, page), page.round = Len(h),
           Stored(g, MetaPage).round < Len(h), Stored(f, MetaPage).round < Len(h)
    PROVE  ~Whole(g)
<1>1. Len(h) \in Nat /\ num \in Nat /\ MetaPage \in Nat
    BY LenProperties, Numbers DEF Databases
<1>2. num < Len(g) /\ Stored(g, num).round = Len(h) /\ Len(g) \in Nat
      /\ g = [i \in 1 .. Len(g) |-> g[i]]
    BY <1>1 DEF Puts
<1>3. Stored(g, MetaPage) = Stored(f, MetaPage)
  <2>1. num # MetaPage
      BY <1>1, <1>2
  <2> QED BY <1>1, <2>1 DEF Puts
<1>4. Stored(g, MetaPage).round \in 0 .. Len(h)
  <2>1. Stored(f, MetaPage).round \in 0 .. Len(h)
      BY RoundOf
  <2> QED BY <1>3, <2>1
<1> SUFFICES ASSUME Whole(g) PROVE FALSE
    OBVIOUS
<1>5. Len(h) <= Stored(g, MetaPage).round
    BY <1>1, <1>2, WholePages
<1> QED BY <1>1, <1>4, <1>5

\* A part of the file is written by the constructor, or the process ends.
LEMMA ConstructOutcome ==
    ASSUME PageFileInv, pc # "down", NEW num, NEW data, NEW ACTION next,
           Construct(num, data, next)
    PROVE  \/ PageFileInv'
           \/ /\ next /\ tx' = tx /\ reply' = reply /\ exists' = TRUE /\ history' = history
              /\ stream' = [file |-> Flushed(stream), good |-> TRUE,
                            buffer |-> << [num |-> num,
                                           page |-> [data |-> data, round |-> Len(history)]] >>]
<1>1. StreamOf(stream, history) /\ MemoryInv
    BY DEF PageFileInv, StreamInv
<1>2. exists' = TRUE /\ history' = history
    BY <1>1, Exists DEF Construct
<1>3. PICK r \in WritePage(stream, num, data) :
        IF r.result
        THEN /\ next
             /\ stream' = r.stream
             /\ UNCHANGED <<tx, reply>>
        ELSE Exit(r.stream)
    BY Zenon DEF Construct
<1>4. CASE /\ r.result = TRUE
           /\ r.stream = [file |-> Flushed(stream), good |-> TRUE,
                          buffer |-> << [num |-> num,
                                         page |-> [data |-> data, round |-> Len(history)]] >>]
    BY <1>2, <1>3, <1>4, Zenon
<1>5. CASE r.result = FALSE /\ StreamOf(r.stream, history)
    BY <1>2, <1>3, <1>5, ExitKeeps
<1> QED BY <1>1, <1>4, <1>5, WriteOutcome

\* The root is the first page in the file.
LEMMA CreateRootKeeps ==
    ASSUME PageFileInv, CreateRoot
    PROVE  PageFileInv'
<1>1. /\ pc = "newRoot" /\ stream = Closed /\ history = <<NewDatabase>>
      /\ fl = AfterNextPage(EmptyFreeList) /\ reply = {} /\ tx = NoTx
      /\ meta = [freelistPage |-> FreelistPage, root |-> NoPage]
    BY DEF CreateRoot, PageFileInv, MemoryInv
<1>2. NextPage(fl) = FirstRoot /\ FirstRoot \in 0 .. MaxPages
    BY <1>1, Numbers
<1>3. SUFFICES ASSUME /\ pc' = "newMeta"
                      /\ meta' = NewDatabase.meta
                      /\ fl' = AfterNextPage(fl) /\ base' = base
                      /\ tx' = tx /\ reply' = reply /\ exists' = TRUE /\ history' = history
                      /\ stream' = [file |-> Flushed(stream), good |-> TRUE,
                                    buffer |-> << [num |-> FirstRoot,
                                                   page |-> [data |-> SerializeNode(EmptyNode),
                                                             round |-> Len(history)]] >>]
               PROVE  PageFileInv'
  <2>1. [meta EXCEPT !.root = FirstRoot] = NewDatabase.meta
      BY <1>1 DEF NewDatabase
  <2> DEFINE next == /\ pc' = "newMeta" /\ meta' = [meta EXCEPT !.root = NextPage(fl)]
                     /\ fl' = AfterNextPage(fl) /\ UNCHANGED base
  <2>2. Construct(NextPage(fl), SerializeNode(EmptyNode), next)
      BY Zenon DEF CreateRoot
  <2>3. next => /\ pc' = "newMeta" /\ meta' = NewDatabase.meta
                /\ fl' = AfterNextPage(fl) /\ base' = base
      BY <1>2, <2>1
  <2> HIDE DEF next
  <2>4. pc # "down"
      BY <1>1
  <2>5. CASE PageFileInv'
      BY <2>5
  <2>6. CASE /\ next /\ tx' = tx /\ reply' = reply /\ exists' = TRUE /\ history' = history
             /\ stream' = [file |-> Flushed(stream), good |-> TRUE,
                           buffer |-> << [num |-> NextPage(fl),
                                          page |-> [data |-> SerializeNode(EmptyNode),
                                                    round |-> Len(history)]] >>]
      BY <1>2, <2>3, <2>6
  <2>7. \/ PageFileInv'
        \/ /\ next /\ tx' = tx /\ reply' = reply /\ exists' = TRUE /\ history' = history
           /\ stream' = [file |-> Flushed(stream), good |-> TRUE,
                         buffer |-> << [num |-> NextPage(fl),
                                        page |-> [data |-> SerializeNode(EmptyNode),
                                                  round |-> Len(history)]] >>]
      BY <2>2, <2>4, ConstructOutcome
  <2> QED BY <2>5, <2>6, <2>7
<1> DEFINE g == Flushed(stream')
           e == [data |-> SerializeNode(EmptyNode), round |-> Len(history)]
<1>4. Databases(history) /\ StreamOf(stream, history) /\ Flushed(stream) = <<>> /\ Len(history) = 1
    BY <1>1, Created, EmptyFile
<1>5. /\ Puts(<<>>, g, FirstRoot, e) /\ stream'.good = TRUE
      /\ (Whole(g) => HasTree(g, history[Stored(g, MetaPage).round].nodes))
             => StreamOf(stream', history)
  <2>1. /\ FirstRoot >= FirstRoot
        /\ FirstRoot # MetaPage /\ FirstRoot # FreelistPage
      BY Numbers
  <2>2. /\ e.round = Len(history)
        /\ stream' = [file |-> Flushed(stream), good |-> TRUE,
                      buffer |-> << [num |-> FirstRoot, page |-> e] >>]
      BY <1>3
  <2> HIDE DEF e
  <2>3. /\ Puts(Flushed(stream), g, FirstRoot, e) /\ stream'.good = TRUE
        /\ (Whole(g) => HasTree(g, history[Stored(g, MetaPage).round].nodes))
               => StreamOf(stream', history)
      BY <1>2, <1>4, <2>1, <2>2, Wrote
  <2> QED BY <1>4, <2>3
<1>6. Stored(g, MetaPage) = Hole /\ Stored(g, FreelistPage) = Hole /\ Stored(g, FirstRoot) = e
      /\ FirstRoot < Len(g) /\ g = [i \in 1 .. Len(g) |-> g[i]] /\ Len(g) \in Nat
  <2> HIDE DEF g, e
  <2>1. /\ g = [i \in 1 .. Len(g) |-> g[i]] /\ Len(g) \in Nat
        /\ \A p \in Nat : p < Len(g) <=> p < Len(<<>>) \/ p <= FirstRoot
        /\ \A p \in Nat : Stored(g, p) = IF p = FirstRoot THEN e ELSE Stored(<<>>, p)
      BY <1>5, Zenon DEF Puts
  <2>2. /\ MetaPage \in Nat /\ FreelistPage \in Nat /\ FirstRoot \in Nat /\ FirstRoot <= FirstRoot
        /\ MetaPage # FirstRoot /\ FreelistPage # FirstRoot
      BY Numbers
  <2>3. Stored(<<>>, MetaPage) = Hole /\ Stored(<<>>, FreelistPage) = Hole
      BY Numbers DEF Stored
  <2> QED BY <2>1, <2>2, <2>3, Zenon
<1>7. ~Whole(g)
    BY <1>4, <1>6, WholePages DEF Hole
<1>8. HasTree(g, NewDatabase.nodes)
    BY <1>6, Created DEF HasTree
<1>9. StreamInv'
  <2>1. StreamOf(stream', history')
      BY <1>3, <1>5, <1>7
  <2>2. Saved(Flushed(stream))'
      BY <1>3, <1>6, <1>8 DEF Saved, Hole
  <2> QED BY <2>1, <2>2 DEF StreamInv
<1>10. MemoryInv'
  <2>1. fl' = NewFreeList
      BY <1>1, <1>3 DEF NewFreeList
  <2>2. /\ pc' = "newMeta" /\ exists' = TRUE /\ meta' = NewDatabase.meta
        /\ reply' = {} /\ tx' = NoTx /\ history' = <<NewDatabase>>
      BY <1>1, <1>3
  <2>3. stream'.good
      BY <1>5
  <2> QED BY <2>1, <2>2, <2>3 DEF MemoryInv, Phase
<1>11. HistoryInv' /\ EndedIsWritten' /\ OpensAsLeft' /\ ReadsAreCurrent'
    BY <1>1, <1>3, <1>4 DEF HistoryInv, EndedIsWritten, OpensAsLeft, ReadsAreCurrent
<1> QED BY <1>9, <1>10, <1>11 DEF PageFileInv

\* A page that the constructor writes over the file as it is after the root.
LEMMA CreateNext ==
    ASSUME PageFileInv, pc \in {"newMeta", "newFreelist"},
           NEW num \in {MetaPage, FreelistPage}, NEW page, page.round = 1,
           num = MetaPage => page.data = SerializeMeta(meta),
           num = FreelistPage => page.data = SerializeFreeList(fl),
           stream' = [file |-> Flushed(stream), good |-> TRUE,
                      buffer |-> << [num |-> num, page |-> page] >>]
    PROVE  /\ Stored(Flushed(stream'), num) = page
           /\ \A p \in {MetaPage, FreelistPage} \ {num} :
                  Stored(Flushed(stream'), p) = Stored(Flushed(stream), p)
           /\ Stored(Flushed(stream), MetaPage).round = IF pc = "newMeta" THEN 0 ELSE 1
           /\ Stored(Flushed(stream), FreelistPage).round = 0
           /\ HasTree(Flushed(stream'), NewDatabase.nodes)
           /\ Len(Flushed(stream')) \in (FirstRoot + 1) .. (MaxPages + 1)
           /\ Flushed(stream') = [i \in 1 .. Len(Flushed(stream')) |-> Flushed(stream')[i]]
           /\ \A p \in 0 .. MaxPages : Stored(Flushed(stream'), p).round \in 0 .. 1
           /\ stream'.good = TRUE /\ stream'.buffer[1].num = num
           /\ StreamOf(stream', history)
<1> DEFINE f == Flushed(stream)
           g == Flushed(stream')
<1>1. /\ history = <<NewDatabase>> /\ fl = NewFreeList /\ meta = NewDatabase.meta
      /\ stream.good
    BY DEF PageFileInv, MemoryInv
<1>2. Len(history) = 1 /\ history[1] = NewDatabase /\ Databases(history)
      /\ NewDatabase.fl = NewFreeList
    BY <1>1, Created DEF NewDatabase
<1>3. /\ StreamOf(stream, history)
      /\ Stored(f, MetaPage).round = IF pc = "newMeta" THEN 0 ELSE 1
      /\ Stored(f, FreelistPage).round = 0
      /\ HasTree(f, NewDatabase.nodes)
    BY <1>1 DEF PageFileInv, StreamInv, Saved
<1>4. FileOf(f, history) /\ FirstRoot < Len(f)
    BY <1>3, Created DEF StreamOf, HasTree
<1>5. /\ Len(f) \in (FirstRoot + 1) .. (MaxPages + 1) /\ Len(f) > 0 /\ num \in 0 .. MaxPages
      /\ MetaPage \in Nat /\ FreelistPage \in Nat
    BY <1>4, Numbers DEF FileOf
<1>6. /\ Puts(f, g, num, page) /\ stream'.good = TRUE /\ stream'.buffer[1].num = num
      /\ (Whole(g) => HasTree(g, history[Stored(g, MetaPage).round].nodes))
             => StreamOf(stream', history)
  <2>1. num = MetaPage => /\ page.data = SerializeMeta(history[Len(history)].meta)
                          /\ Stored(f, FreelistPage).round > 0 \/ Len(history) = 1
      BY <1>1, <1>2
  <2>2. num = FreelistPage => page.data = SerializeFreeList(history[Len(history)].fl)
      BY <1>1, <1>2
  <2>3. page.round = Len(history) /\ (Len(f) > 0 \/ num >= FirstRoot)
      BY <1>2, <1>5
  <2>4. /\ Databases(history) /\ StreamOf(stream, history) /\ num \in 0 .. MaxPages
        /\ stream' = [file |-> f, good |-> TRUE, buffer |-> << [num |-> num, page |-> page] >>]
      BY <1>2, <1>3, <1>5
  <2>5. Len(Flushed(stream)) > 0 \/ num >= FirstRoot
      BY <2>3
  <2>6. num = MetaPage => /\ page.data = SerializeMeta(history[Len(history)].meta)
                          /\ Stored(Flushed(stream), FreelistPage).round > 0 \/ Len(history) = 1
      BY <2>1
  <2>7. page.round = Len(history) /\ f = Flushed(stream) /\ g = Flushed(stream')
      BY <2>3
  <2>8. /\ Puts(Flushed(stream), Flushed(stream'), num, page)
        /\ stream'.good = TRUE /\ stream'.buffer[1].num = num
        /\ (Whole(Flushed(stream'))
              => HasTree(Flushed(stream'), history[Stored(Flushed(stream'), MetaPage).round].nodes))
           => StreamOf(stream', history)
    <3> HIDE DEF f, g
    <3> QED BY <2>2, <2>4, <2>5, <2>6, <2>7, WroteNow
  <2> QED BY <2>7, <2>8
<1> HIDE DEF f, g
<1>7. HasTree(g, NewDatabase.nodes)
  <2>1. num \notin Pages(NewDatabase.nodes)
      BY Numbers, Created
  <2> QED BY <1>3, <1>6, <2>1, PutKeepsTree
<1>8. /\ g = [i \in 1 .. Len(g) |-> g[i]] /\ Len(g) \in (FirstRoot + 1) .. (MaxPages + 1)
      /\ \A p \in Nat : Stored(g, p) = IF p = num THEN page ELSE Stored(f, p)
  <2>1. Len(g) = Len(f)
    <3>1. \A p \in Nat : p < Len(g) <=> p < Len(f)
        BY <1>5, <1>6, Numbers DEF Puts
    <3>2. Len(f) \in Nat /\ Len(g) \in Nat
        BY <1>5, <1>6, Numbers DEF Puts
    <3> QED BY <3>1, <3>2
  <2> QED BY <1>5, <1>6, <2>1 DEF Puts
<1>9. \A p \in 0 .. MaxPages : Stored(g, p).round \in 0 .. 1
    BY <1>2, <1>4, <1>8 DEF FileOf
<1>10. Whole(g) => Stored(g, MetaPage).round = 1
  <2>1. Whole(g) => Stored(g, MetaPage).round > 0
      BY <1>2, <1>8, WholePages, Numbers
  <2>2. MetaPage \in 0 .. MaxPages
      BY Numbers
  <2> QED BY <1>9, <2>1, <2>2
<1>11. StreamOf(stream', history)
    BY <1>2, <1>6, <1>7, <1>10
<1> QED BY <1>3, <1>5, <1>6, <1>7, <1>8, <1>9, <1>11 DEF f, g

\* The meta page goes over a hole.
LEMMA CreateMetaKeeps ==
    ASSUME PageFileInv, CreateMeta
    PROVE  PageFileInv'
<1>1. /\ pc = "newMeta" /\ history = <<NewDatabase>> /\ Len(history) = 1
      /\ fl = NewFreeList /\ meta = NewDatabase.meta /\ reply = {} /\ tx = NoTx
    BY DEF CreateMeta, PageFileInv, MemoryInv
<1> DEFINE e == [data |-> SerializeMeta(meta), round |-> Len(history)]
<1>2. SUFFICES ASSUME /\ pc' = "newFreelist" /\ UNCHANGED <<fl, meta, base>>
                      /\ tx' = tx /\ reply' = reply /\ exists' = TRUE /\ history' = history
                      /\ stream' = [file |-> Flushed(stream), good |-> TRUE,
                                    buffer |-> << [num |-> MetaPage, page |-> e] >>]
               PROVE  PageFileInv'
    BY <1>1, ConstructOutcome DEF CreateMeta
<1>3. e.round = 1 /\ e.data = SerializeMeta(meta)
    BY <1>1
<1> HIDE DEF e
<1> DEFINE g == Flushed(stream')
<1>4. /\ Stored(g, MetaPage) = e
      /\ Stored(g, FreelistPage).round = 0
      /\ HasTree(g, NewDatabase.nodes)
      /\ stream'.good = TRUE /\ StreamOf(stream', history)
  <2>1. MetaPage # FreelistPage /\ pc \in {"newMeta", "newFreelist"}
      BY <1>1, Numbers
  <2>2. stream' = [file |-> Flushed(stream), good |-> TRUE,
                   buffer |-> << [num |-> MetaPage, page |-> e] >>]
      BY <1>2
  <2>3. /\ Stored(g, MetaPage) = e
        /\ \A p \in {MetaPage, FreelistPage} \ {MetaPage} :
               Stored(g, p) = Stored(Flushed(stream), p)
        /\ Stored(Flushed(stream), FreelistPage).round = 0
        /\ HasTree(g, NewDatabase.nodes)
        /\ stream'.good = TRUE /\ StreamOf(stream', history)
      BY <1>3, <2>1, <2>2, CreateNext
  <2> QED BY <2>1, <2>3
<1>5. StreamInv'
  <2>1. Saved(Flushed(stream))'
      BY <1>2, <1>3, <1>4 DEF Saved
  <2> QED BY <1>2, <1>4, <2>1 DEF StreamInv
<1>6. MemoryInv'
  <2>1. stream'.good
      BY <1>4
  <2>2. /\ pc' = "newFreelist" /\ exists' = TRUE /\ meta' = NewDatabase.meta /\ fl' = NewFreeList
        /\ reply' = {} /\ tx' = NoTx /\ history' = <<NewDatabase>>
      BY <1>1, <1>2
  <2> QED BY <2>1, <2>2 DEF MemoryInv, Phase
<1>7. HistoryInv' /\ EndedIsWritten' /\ OpensAsLeft' /\ ReadsAreCurrent'
  <2>1. HistoryInv'
      BY <1>2 DEF PageFileInv, HistoryInv
  <2> QED BY <1>1, <1>2, <2>1 DEF EndedIsWritten, OpensAsLeft, ReadsAreCurrent
<1> QED BY <1>5, <1>6, <1>7 DEF PageFileInv

\* The free list goes over a hole, and the file is whole.
LEMMA CreateFreelistKeeps ==
    ASSUME PageFileInv, CreateFreelist
    PROVE  PageFileInv'
<1>1. /\ pc = "newFreelist" /\ history = <<NewDatabase>> /\ Len(history) = 1
      /\ history[1] = NewDatabase
      /\ fl = NewFreeList /\ meta = NewDatabase.meta /\ reply = {} /\ tx = NoTx
    BY DEF CreateFreelist, PageFileInv, MemoryInv
<1>2. meta.freelistPage = FreelistPage /\ NewDatabase.fl = NewFreeList
    BY <1>1 DEF NewDatabase
<1> DEFINE e == [data |-> SerializeFreeList(fl), round |-> Len(history)]
<1>3. SUFFICES ASSUME /\ pc' = "open" /\ base' = 1 /\ UNCHANGED <<fl, meta>>
                      /\ tx' = tx /\ reply' = reply /\ exists' = TRUE /\ history' = history
                      /\ stream' = [file |-> Flushed(stream), good |-> TRUE,
                                    buffer |-> << [num |-> FreelistPage, page |-> e] >>]
               PROVE  PageFileInv'
    BY <1>1, <1>2, ConstructOutcome DEF CreateFreelist
<1>4. e.round = 1 /\ e.data = SerializeFreeList(fl)
    BY <1>1
<1> HIDE DEF e
<1> DEFINE g == Flushed(stream')
<1>5. /\ Stored(g, MetaPage).round = 1
      /\ Stored(g, FreelistPage).round = 1
      /\ HasTree(g, NewDatabase.nodes)
      /\ Len(g) \in (FirstRoot + 1) .. (MaxPages + 1)
      /\ g = [i \in 1 .. Len(g) |-> g[i]]
      /\ \A p \in 0 .. MaxPages : Stored(g, p).round \in 0 .. 1
      /\ stream'.good = TRUE /\ stream'.buffer[1].num = FreelistPage
      /\ StreamOf(stream', history)
  <2>1. /\ MetaPage # FreelistPage
        /\ pc \in {"newMeta", "newFreelist"} /\ pc # "newMeta"
      BY <1>1, Numbers
  <2>2. stream' = [file |-> Flushed(stream), good |-> TRUE,
                   buffer |-> << [num |-> FreelistPage, page |-> e] >>]
      BY <1>3
  <2>3. /\ Stored(g, FreelistPage) = e
        /\ \A p \in {MetaPage, FreelistPage} \ {FreelistPage} :
               Stored(g, p) = Stored(Flushed(stream), p)
        /\ Stored(Flushed(stream), MetaPage).round = IF pc = "newMeta" THEN 0 ELSE 1
        /\ HasTree(g, NewDatabase.nodes)
        /\ Len(g) \in (FirstRoot + 1) .. (MaxPages + 1)
        /\ g = [i \in 1 .. Len(g) |-> g[i]]
        /\ \A p \in 0 .. MaxPages : Stored(g, p).round \in 0 .. 1
        /\ stream'.good = TRUE /\ stream'.buffer[1].num = FreelistPage
        /\ StreamOf(stream', history)
      BY <1>4, <2>1, <2>2, CreateNext
  <2> QED BY <1>4, <2>1, <2>3
<1> HIDE DEF g
<1>6. Whole(g)
  <2>1. /\ Len(g) \in Nat /\ Len(g) > 1 /\ Len(history) \in Nat /\ Len(g) <= MaxPages + 1
        /\ MaxPages \in Nat
      BY <1>1, <1>5, Numbers
  <2>2. \A p \in Nat : p < Len(g) => Stored(g, p).round <= 1
      BY <1>5, <2>1
  <2> QED BY <1>5, <2>1, <2>2, WholePages
<1>7. Databases(history) /\ FileOf(g, history)
    BY <1>5 DEF PageFileInv, HistoryInv, StreamOf, g
<1>8. Holds(g, NewDatabase)
  <2>1. g[1].round = 1
      BY <1>5, <1>6, <1>7, WholeHolds
  <2> QED BY <1>1, <1>6, <1>7, <2>1, WholeHolds
<1>9. StreamInv'
  <2>1. Saved(Flushed(stream))'
      BY <1>3, <1>5, <1>6 DEF Saved, g
  <2> QED BY <1>3, <1>5, <2>1 DEF StreamInv
<1>10. MemoryInv'
  <2>1. /\ pc' = "open" /\ exists' = TRUE /\ base' \in 1 .. Len(history') /\ tx' = NoTx
      BY <1>1, <1>3
  <2> QED BY <2>1 DEF MemoryInv, Phase
<1>11. HistoryInv'
    BY <1>3 DEF PageFileInv, HistoryInv
<1>12. EndedIsWritten'
    BY <1>1, <1>3, <1>5, <1>6, <1>8 DEF EndedIsWritten, g
<1>13. OpensAsLeft' /\ ReadsAreCurrent'
    BY <1>1, <1>2, <1>3 DEF OpensAsLeft, ReadsAreCurrent
<1> QED BY <1>9, <1>10, <1>11, <1>12, <1>13 DEF PageFileInv
-----------------------------------------------------------------------------
\* What the constructor reads from a file that was left in the middle of the
\* creation: free list and meta page, or holes.
LEMMA ReadsTorn ==
    ASSUME NEW h, Databases(h), NEW f, FileOf(f, h), Len(f) > 0,
           Stored(f, FreelistPage).round = 0,
           NEW m, m = DeserializeMeta(Stored(f, MetaPage).data)
    PROVE  /\ DeserializeFreeList(Stored(f, m.freelistPage).data) = EmptyFreeList
           /\ m.root \in {NoPage, FirstRoot}
<1>1. /\ MetaPage \in 0 .. MaxPages /\ FreelistPage \in 0 .. MaxPages
      /\ NoPage = MetaPage /\ Hole.data = EmptyPage /\ Len(h) \in Nat
    BY Numbers, LenProperties DEF NoPage, Hole, Databases
<1>2. Stored(f, FreelistPage) = Hole
    BY <1>1 DEF FileOf
<1>3. CASE Stored(f, MetaPage).round = 0
  <2>1. Stored(f, MetaPage) = Hole
      BY <1>1, <1>3 DEF FileOf
  <2>2. m = NoMeta
      BY <1>1, <2>1, EmptyReads DEF NoMeta, NoPage
  <2> QED BY <1>1, <2>1, <2>2, EmptyReads DEF NoMeta
<1>4. CASE Stored(f, MetaPage).round # 0
  <2>1. Stored(f, MetaPage).round <= 1 /\ Stored(f, MetaPage).round \in 0 .. Len(h)
      BY <1>1 DEF FileOf
  <2>2. Stored(f, MetaPage).round = 1 /\ 1 > 0
      BY <1>1, <1>4, <2>1
  <2>3. Stored(f, MetaPage).data = SerializeMeta(NewDatabase.meta)
      BY <2>2 DEF FileOf, Databases
  <2>4. m = NewDatabase.meta
      BY <2>3, Created, ReadsBack
  <2> QED BY <1>1, <1>2, <2>4, EmptyReads DEF NewDatabase
<1> QED BY <1>3, <1>4

\* A file is opened, or refused.
LEMMA OpenOutcome ==
    ASSUME DocumentedUse, PageFileInv, Open,
           NEW f, f = stream.file, NEW m, m = DeserializeMeta(Stored(f, MetaPage).data)
    PROVE  \/ \E s : /\ Exit(s) /\ StreamOf(s, history)
                     /\ stream \in StreamType => s \in StreamType
           \/ /\ MetaPage \in 0 .. Len(f) - 1
              /\ meta' = m /\ fl' = DeserializeFreeList(Stored(f, m.freelistPage).data)
              /\ stream' = [file |-> f, buffer |-> <<>>, good |-> TRUE]
              /\ StreamOf(stream', history)
              /\ base' = Max({1, f[1].round}) /\ tx' = NoTx /\ reply' = {}
              /\ pc' = IF Whole(f) THEN "open" ELSE "torn"
<1>1. /\ pc = "down" /\ exists = TRUE /\ exists' = TRUE /\ history' = history
      /\ reply = {} /\ tx = NoTx /\ stream.buffer = <<>> /\ stream.good
    BY DEF Open, PageFileInv, MemoryInv
<1>2. StreamOf(stream, history) /\ Databases(history) /\ Flushed(stream) = f /\ FileOf(f, history)
      /\ Len(history) \in Nat
    BY <1>1, LenProperties DEF PageFileInv, StreamInv, HistoryInv, Flushed, StreamOf, Databases
<1>3. PICK r \in ReadPage(stream, MetaPage) :
        IF r.result = Unreadable THEN Exit(r.stream)
        ELSE \E k \in {DeserializeMeta(r.result)} :
             \E q \in ReadPage(r.stream, k.freelistPage) :
                IF q.result = Unreadable THEN Exit(q.stream)
                ELSE /\ meta' = k
                     /\ fl' = DeserializeFreeList(q.result)
                     /\ stream' = q.stream
                     /\ pc' = IF Whole(q.stream.file) \/ "tornUse" \in Situation
                              THEN "open" ELSE "torn"
                     /\ base' = Max({1, q.stream.file[1].round})
                     /\ UNCHANGED <<tx, reply>>
    BY Zenon DEF Open
<1>4. /\ StreamOf(r.stream, history)
      /\ \/ /\ MetaPage \in 0 .. Len(f) - 1
            /\ r.result = Stored(f, MetaPage).data
            /\ r.stream = [file |-> f, buffer |-> <<>>, good |-> TRUE]
         \/ r.result = Unreadable
  <2>1. StreamOf(r.stream, history) /\ Reads(stream, MetaPage, r)
      BY <1>2, ReadOutcome
  <2> QED BY <1>2, <2>1 DEF Reads
<1>5. CASE r.result = Unreadable
    BY <1>3, <1>4, <1>5, ReadType
<1>6. CASE r.result # Unreadable
  <2>1. /\ MetaPage \in 0 .. Len(f) - 1
        /\ r.result = Stored(f, MetaPage).data
        /\ Flushed(r.stream) = f
      BY <1>2, <1>4, <1>6, Emptied
  <2>2. PICK q \in ReadPage(r.stream, m.freelistPage) :
                IF q.result = Unreadable THEN Exit(q.stream)
                ELSE /\ meta' = m
                     /\ fl' = DeserializeFreeList(q.result)
                     /\ stream' = q.stream
                     /\ pc' = IF Whole(q.stream.file) \/ "tornUse" \in Situation
                              THEN "open" ELSE "torn"
                     /\ base' = Max({1, q.stream.file[1].round})
                     /\ UNCHANGED <<tx, reply>>
      BY <1>3, <1>6, <2>1, Zenon
  <2>3. /\ StreamOf(q.stream, history)
        /\ \/ /\ q.result = Stored(f, m.freelistPage).data
              /\ q.stream = [file |-> f, buffer |-> <<>>, good |-> TRUE]
           \/ q.result = Unreadable
    <3>1. StreamOf(q.stream, history) /\ Reads(r.stream, m.freelistPage, q)
        BY <1>4, ReadOutcome
    <3> QED BY <2>1, <3>1 DEF Reads
  <2>4. CASE q.result = Unreadable
    <3>1. stream \in StreamType => q.stream \in StreamType
        BY ReadType
    <3> QED BY <2>2, <2>3, <2>4, <3>1
  <2>5. CASE q.result # Unreadable
    <3>1. /\ meta' = m /\ fl' = DeserializeFreeList(Stored(f, m.freelistPage).data)
          /\ stream' = [file |-> f, buffer |-> <<>>, good |-> TRUE]
          /\ StreamOf(stream', history)
          /\ base' = Max({1, f[1].round}) /\ tx' = NoTx /\ reply' = {}
          /\ pc' = IF Whole(f) THEN "open" ELSE "torn"
      <4>1. "tornUse" \notin Situation
          BY DEF DocumentedUse
      <4>2. q.stream = [file |-> f, buffer |-> <<>>, good |-> TRUE] /\ q.stream.file = f
          BY <2>3, <2>5
      <4>3. q.result = Stored(f, m.freelistPage).data
          BY <2>3, <2>5
      <4> QED BY <1>1, <2>2, <2>3, <2>5, <4>1, <4>2, <4>3
    <3> QED BY <2>1, <3>1
  <2> QED BY <2>4, <2>5
<1> QED BY <1>5, <1>6

\* Either keeps the invariant.
LEMMA OpenKeeps ==
    ASSUME DocumentedUse, PageFileInv, Open
    PROVE  PageFileInv'
<1> DEFINE f == stream.file
           m == DeserializeMeta(Stored(f, MetaPage).data)
<1>1. /\ pc = "down" /\ exists = TRUE /\ exists' = TRUE /\ history' = history
      /\ reply = {} /\ tx = NoTx /\ stream.buffer = <<>> /\ stream.good
    BY DEF Open, PageFileInv, MemoryInv
<1>2. StreamOf(stream, history) /\ Databases(history) /\ Flushed(stream) = f /\ FileOf(f, history)
      /\ Len(history) \in Nat
    BY <1>1, LenProperties DEF PageFileInv, StreamInv, HistoryInv, Flushed, StreamOf, Databases
<1>3. CASE \E s : Exit(s) /\ StreamOf(s, history)
    BY <1>1, <1>3, ExitKeeps
<1>4. CASE /\ MetaPage \in 0 .. Len(f) - 1
           /\ meta' = m /\ fl' = DeserializeFreeList(Stored(f, m.freelistPage).data)
           /\ stream' = [file |-> f, buffer |-> <<>>, good |-> TRUE]
           /\ StreamOf(stream', history)
           /\ base' = Max({1, f[1].round}) /\ tx' = NoTx /\ reply' = {}
           /\ pc' = IF Whole(f) THEN "open" ELSE "torn"
  <2>2. Flushed(stream') = f /\ stream'.file = f /\ stream'.buffer = <<>>
      BY <1>2, <1>4, Emptied
  <2>3. /\ Len(f) > 1 /\ FreelistPage = 1 /\ MetaPage = 0
        /\ Stored(f, FreelistPage) = f[FreelistPage + 1] /\ Stored(f, MetaPage) = f[MetaPage + 1]
    <3>1. Len(f) \in {0} \cup 3 .. (MaxPages + 1)
        BY <1>2, Numbers DEF FileOf
    <3> HIDE DEF f
    <3>2. FreelistPage = 1 /\ MetaPage = 0 /\ MaxPages \in Nat
        BY Numbers
    <3>3. Len(f) \in Nat /\ Len(f) > 1
        BY <1>4, <3>1, <3>2
    <3>4. Stored(f, MetaPage) = f[1] /\ Stored(f, FreelistPage) = f[2]
        BY <3>2, <3>3, StoredAt
    <3> QED BY <3>2, <3>3, <3>4
  <2>4. HistoryInv'
      BY <1>1, <1>2 DEF HistoryInv
  <2>5. CASE Whole(f)
    <3> DEFINE d == history[f[1].round]
    <3>1. /\ f[1] = Stored(f, MetaPage) /\ f[1].round \in 1 .. Len(history)
          /\ Holds(f, d)
        BY <1>2, <2>5, WholeHolds
    <3>2. base' = f[1].round
        BY <1>2, <1>4, <3>1, MaxOfTwo
    <3>3. d.meta.freelistPage = FreelistPage
      <4>1. d \in Database
          BY <1>2, <3>1, ElementOfSeq DEF Databases
      <4> QED BY <4>1 DEF Database
    <3>4. meta' = d.meta /\ fl' = d.fl
        BY <1>4, <2>3, <3>1, <3>3 DEF Holds
    <3>5. StreamInv'
        BY <1>1, <1>4, <2>2, <2>5, <3>1, <3>2 DEF StreamInv, Saved
    <3>6. MemoryInv'
      <4>1. /\ pc' = "open" /\ exists' = TRUE /\ tx' = NoTx /\ base' \in 1 .. Len(history')
          BY <1>1, <1>4, <2>5, <3>1, <3>2
      <4> QED BY <4>1 DEF MemoryInv, Phase
    <3>7. EndedIsWritten' /\ OpensAsLeft' /\ ReadsAreCurrent'
        BY <1>1, <1>4, <2>2, <2>5, <3>1, <3>2, <3>4 DEF EndedIsWritten, OpensAsLeft, ReadsAreCurrent
    <3> QED BY <2>4, <3>5, <3>6, <3>7 DEF PageFileInv
  <2>6. CASE ~Whole(f)
    <3>1. StreamInv'
        BY <1>1, <1>4, <2>6 DEF StreamInv, Saved
    <3>2. MemoryInv'
      <4>1. /\ pc' = "torn" /\ exists' = TRUE /\ tx' = NoTx /\ reply' = {}
          BY <1>1, <1>4, <2>6
      <4> QED BY <4>1 DEF MemoryInv, Phase
    <3>3. f[FreelistPage + 1].round = 0
              => fl' = EmptyFreeList /\ meta'.root \in {NoPage, FirstRoot}
        BY <1>2, <1>4, <2>3, ReadsTorn
    <3>4. OpensAsLeft'
        BY <1>4, <2>2, <2>6, <3>3 DEF OpensAsLeft, FreelistPage
    <3>5. EndedIsWritten' /\ ReadsAreCurrent'
        BY <1>4, <2>6 DEF EndedIsWritten, ReadsAreCurrent
    <3> QED BY <2>4, <3>1, <3>2, <3>4, <3>5 DEF PageFileInv
  <2> QED BY <2>5, <2>6
<1> QED BY <1>3, <1>4, OpenOutcome
-----------------------------------------------------------------------------
\* What a process has that is done with the file's constructor: the database it
\* works on, and if no call has failed that database is in the file.
LEMMA WorksOn ==
    ASSUME PageFileInv, pc \in {"open", "tx"}, NEW d, d = history[base]
    PROVE  /\ Databases(history) /\ StreamOf(stream, history)
           /\ Len(history) \in Nat /\ base \in 1 .. Len(history)
           /\ d \in Database /\ Sound(d) /\ d.nodes \in [Page -> Node \cup {NoNode}]
           /\ stream.good => /\ Whole(Flushed(stream)) /\ HasTree(Flushed(stream), d.nodes)
                             /\ Stored(Flushed(stream), MetaPage).round = base
<1>1. Databases(history) /\ StreamOf(stream, history) /\ Len(history) \in Nat
    BY LenProperties DEF PageFileInv, HistoryInv, StreamInv, Databases
<1>2. base \in 1 .. Len(history)
    BY DEF PageFileInv, MemoryInv
<1>3. d \in Database /\ Sound(d)
  <2>1. DOMAIN history = 1 .. Len(history) /\ history \in Seq(Database)
      BY <1>1, LenProperties DEF Databases
  <2>2. history[base] \in Database
      BY <1>2, <2>1, ElementOfSeq
  <2>3. Sound(history[base])
      BY <1>1, <1>2, <2>1 DEF Databases
  <2> QED BY <2>2, <2>3
<1>4. ASSUME stream.good
      PROVE  /\ Whole(Flushed(stream)) /\ HasTree(Flushed(stream), d.nodes)
             /\ Stored(Flushed(stream), MetaPage).round = base
  <2>1. Whole(Flushed(stream)) /\ Stored(Flushed(stream), MetaPage).round = base
      BY <1>4 DEF PageFileInv, StreamInv, Saved
  <2>2. FileOf(Flushed(stream), history)
      BY <1>1 DEF StreamOf
  <2> QED BY <2>1, <2>2 DEF FileOf
<1>5. d.nodes \in [Page -> Node \cup {NoNode}]
    BY <1>3 DEF Database
<1> QED BY <1>1, <1>2, <1>3, <1>4, <1>5

\* A node is read.
LEMMA GetNodeKeeps ==
    ASSUME PageFileInv, NEW p \in Page, GetNode(p)
    PROVE  PageFileInv'
<1> DEFINE d == history[base]
           f == Flushed(stream)
<1>1. /\ pc \in {"open", "tx"} /\ p \in Pages(d.nodes)
      /\ UNCHANGED <<pc, starts, exists, fl, meta, tx, base, history>>
    BY DEF GetNode, Tree
<1>2. PICK r \in ReadPage(stream, p) :
        /\ stream' = r.stream
        /\ reply' = {<<p, IF r.result = Unreadable THEN NoNode
                          ELSE DeserializeNode(r.result)>>}
    BY Zenon DEF GetNode
<1>3. /\ StreamOf(stream, history) /\ d.nodes \in [Page -> Node \cup {NoNode}]
      /\ stream.good => /\ Whole(f) /\ HasTree(f, d.nodes)
                        /\ Stored(f, MetaPage).round = base
    BY <1>1, WorksOn
<1>4. StreamOf(r.stream, history) /\ Reads(stream, p, r)
    BY <1>3, ReadOutcome
<1>5. stream'.good => stream.good /\ Flushed(stream') = f /\ stream'.buffer = <<>>
  <2>1. CASE stream.good /\ stream' = [file |-> f, buffer |-> <<>>, good |-> TRUE]
    <3>1. Flushed([file |-> f, buffer |-> <<>>, good |-> TRUE]) = f
        BY <1>3, Emptied
    <3> QED BY <2>1, <3>1
  <2>2. CASE stream'.good = FALSE
      BY <2>2
  <2> QED BY <1>2, <1>4, <2>1, <2>2 DEF Reads
<1>6. HistoryInv'
    BY <1>1 DEF PageFileInv, HistoryInv
<1>7. StreamInv'
  <2>1. stream'.good => Saved(Flushed(stream))'
      BY <1>1, <1>3, <1>5 DEF Saved
  <2> QED BY <1>1, <1>2, <1>4, <2>1 DEF StreamInv
<1>8. MemoryInv'
  <2>1. pc = "tx" => TxOn(history[base])'
      BY <1>1 DEF PageFileInv, MemoryInv, TxOn
  <2>2. /\ exists = TRUE /\ base \in 1 .. Len(history)
        /\ pc = "open" => tx = NoTx
      BY <1>1 DEF PageFileInv, MemoryInv
  <2> QED BY <1>1, <2>1, <2>2 DEF MemoryInv, Phase
<1>9. EndedIsWritten'
    BY <1>1, <1>5 DEF PageFileInv, EndedIsWritten
<1>10. OpensAsLeft'
    BY <1>1 DEF PageFileInv, OpensAsLeft
<1>11. ReadsAreCurrent'
  <2>1. d.nodes[p] \in Node /\ d.nodes[p] # NoNode
      BY <1>1, <1>3 DEF Pages
  <2>2. r.result # Unreadable => r.result = SerializeNode(d.nodes[p])
      BY <1>1, <1>3, <1>4 DEF Reads, HasTree
  <2>3. r.result # Unreadable => DeserializeNode(r.result) = d.nodes[p]
    <3>1. NodeReadsBack(d.nodes[p])
        BY <2>1, FileAssumption, NodeReads
    <3> QED BY <2>2, <3>1 DEF NodeReadsBack
  <2>4. reply' \in {{<<p, NoNode>>}, {<<p, d.nodes[p]>>}}
      BY <1>2, <2>3
  <2> QED BY <1>1, <2>4 DEF ReadsAreCurrent
<1> QED BY <1>6, <1>7, <1>8, <1>9, <1>10, <1>11 DEF PageFileInv

\* A transaction works in memory.
LEMMA TransactKeeps ==
    ASSUME PageFileInv, NEW over \in SUBSET Page, NEW n \in Node,
           NEW grown \in BOOLEAN, NEW moved \in BOOLEAN, NEW gone \in SUBSET Page,
           Transact(over, n, grown, moved, gone)
    PROVE  PageFileInv'
<1> DEFINE d == history[base]
           new == IF grown THEN <<NextPage(fl)>> ELSE <<>>
<1>1. /\ pc = "open" /\ pc' = "tx" /\ over \subseteq Pages(d.nodes)
      /\ gone \subseteq Pages(d.nodes) \ {meta.root} /\ (moved => grown)
      /\ grown => CanAllocate(fl, MaxPages)
      /\ tx' = [dirtyNodes |-> [p \in Page |-> IF p \in over \cup Range(new) THEN n ELSE NoNode],
                release |-> SetToSeq(gone), allocatedPages |-> new]
      /\ fl' = IF grown THEN AfterNextPage(fl) ELSE fl
      /\ meta' = IF moved THEN [meta EXCEPT !.root = NextPage(fl)] ELSE meta
      /\ UNCHANGED <<starts, exists, stream, reply, base, history>>
    BY DEF Transact, Tree
<1>2. /\ d \in Database /\ Sound(d) /\ StreamOf(stream, history) /\ base \in 1 .. Len(history)
    BY <1>1, WorksOn
<1>3. fl = d.fl /\ meta = d.meta
    BY <1>1 DEF PageFileInv, OpensAsLeft
<1>4. SetToSeq(gone) \in Seq(Page) /\ Range(SetToSeq(gone)) \subseteq gone /\ IsInjective(SetToSeq(gone))
    BY Vector
<1>5. /\ new \in Seq(Page)
      /\ Range(new) = IF grown THEN {NextPage(d.fl)} ELSE {}
      /\ Range(new) \subseteq Page
  <2>1. CASE grown
    <3>1. NextPage(d.fl) \in Page
        BY <1>1, <1>2, <1>3, <2>1, TakeFromDatabase
    <3>2. new = <<NextPage(d.fl)>>
        BY <1>3, <2>1
    <3> HIDE DEF new
    <3> QED BY <2>1, <3>1, <3>2 DEF Range
  <2>2. CASE ~grown
      BY <2>2 DEF Range
  <2> QED BY <2>1, <2>2
<1>6. TxOn(d)'
  <2> DEFINE dn == [p \in Page |-> IF p \in over \cup Range(new) THEN n ELSE NoNode]
  <2>1. tx'.dirtyNodes = dn /\ tx'.release = SetToSeq(gone) /\ tx'.allocatedPages = new
        /\ tx' = [dirtyNodes |-> dn, release |-> SetToSeq(gone), allocatedPages |-> new]
      BY <1>1
  <2> HIDE DEF new
  <2>2. dn \in [Page -> Node \cup {NoNode}]
      OBVIOUS
  <2>3. Pages(dn) = over \cup Range(new)
      BY <1>5, FileAssumption DEF Pages
  <2> HIDE DEF dn
  <2>4. tx' \in [dirtyNodes : [Page -> Node \cup {NoNode}],
                 release : Seq(Page), allocatedPages : Seq(Page)]
      BY <1>4, <1>5, <2>1, <2>2
  <2>5. \/ tx'.allocatedPages = <<>> /\ fl' = d.fl /\ meta' = d.meta
        \/ /\ CanAllocate(d.fl, MaxPages)
           /\ tx'.allocatedPages = <<NextPage(d.fl)>> /\ fl' = AfterNextPage(d.fl)
           /\ meta' \in {d.meta, [d.meta EXCEPT !.root = NextPage(d.fl)]}
    <3>1. CASE grown
        BY <1>1, <1>3, <2>1, <3>1 DEF new
    <3>2. CASE ~grown
        BY <1>1, <1>3, <2>1, <3>2 DEF new
    <3> QED BY <3>1, <3>2
  <2>6. d' = d
      BY <1>1
  <2>7. /\ Pages(tx'.dirtyNodes) \subseteq Pages(d.nodes) \cup Range(tx'.allocatedPages)
        /\ Range(tx'.allocatedPages) \subseteq Pages(tx'.dirtyNodes)
        /\ Range(tx'.release) \subseteq Pages(d.nodes) \ {d.meta.root} /\ IsInjective(tx'.release)
      BY <1>1, <1>3, <1>4, <2>1, <2>3
  <2> HIDE DEF d
  <2> QED BY <2>4, <2>5, <2>6, <2>7 DEF TxOn
<1>7. StreamInv'
  <2>1. stream.good => Saved(Flushed(stream))'
      BY <1>1 DEF PageFileInv, StreamInv, Saved
  <2> QED BY <1>1, <1>2, <2>1 DEF StreamInv
<1>8. MemoryInv'
  <2>1. exists = TRUE
      BY <1>1 DEF PageFileInv, MemoryInv
  <2>2. pc' = "tx" /\ exists' = TRUE /\ base' \in 1 .. Len(history') /\ TxOn(history[base])'
      BY <1>1, <1>2, <1>6, <2>1
  <2> QED BY <2>2 DEF MemoryInv, Phase
<1>9. HistoryInv' /\ EndedIsWritten' /\ OpensAsLeft' /\ ReadsAreCurrent'
    BY <1>1 DEF PageFileInv, HistoryInv, EndedIsWritten, OpensAsLeft, ReadsAreCurrent
<1> QED BY <1>7, <1>8, <1>9 DEF PageFileInv

\* A transaction begins to end.
LEMMA EndTxKeeps ==
    ASSUME DocumentedUse, PageFileInv, pc = "tx", NEW released, EndTx(released),
           Leaving(released) \in Database, Sound(Leaving(released)),
           tx'.dirtyNodes \in [Page -> Node \cup {NoNode}], tx'.release = released,
           tx' = [dirtyNodes |-> tx'.dirtyNodes, release |-> tx'.release,
                  allocatedPages |-> tx'.allocatedPages]
    PROVE  PageFileInv'
<1> DEFINE d == history[base]
           x == Leaving(released)
           f == Flushed(stream)
<1>1. /\ FreeListFits(x.fl) /\ history' = Append(history, x) /\ pc' = "nodes"
      /\ UNCHANGED <<starts, exists, stream, fl, meta, reply, base>>
    BY DEF EndTx, DocumentedUse, Leaving
<1>2. /\ Databases(history) /\ StreamOf(stream, history)
      /\ Len(history) \in Nat /\ base \in 1 .. Len(history)
      /\ stream.good => /\ Whole(f) /\ HasTree(f, d.nodes)
                        /\ Stored(f, MetaPage).round = base
    BY WorksOn
<1> HIDE DEF x
<1>3. /\ Databases(history') /\ Len(history') = Len(history) + 1
      /\ history'[Len(history')] = x
      /\ \A i \in 1 .. Len(history) : history'[i] = history[i]
    BY <1>1, <1>2, OneMore DEF x
<1>4. HistoryInv'
    BY <1>3 DEF HistoryInv
<1>5. /\ x.nodes = [p \in Page |-> IF p \in Range(released) THEN NoNode
                               ELSE IF tx'.dirtyNodes[p] # NoNode THEN tx'.dirtyNodes[p]
                               ELSE d.nodes[p]]
      /\ x.fl = ReleasePages(fl, released) /\ x.meta = meta
    BY DEF Leaving, x
<1>6. StreamInv'
  <2>1. StreamOf(stream', history')
    <3>1. FileOf(stream.file, history) /\ FileOf(Flushed(stream), history)
        BY <1>2 DEF StreamOf
    <3>2. FileOf(stream.file, history') /\ FileOf(Flushed(stream), history')
        BY <1>1, <1>2, <3>1, LongerHistory DEF x
    <3>3. StreamOf(stream, history')
        BY <1>2, <3>2 DEF StreamOf
    <3> QED BY <1>1, <3>3
  <2>2. ASSUME stream.good PROVE Saved(f)'
    <3> DEFINE left == [p \in Page |-> IF tx'.dirtyNodes[p] = NoNode THEN x.nodes[p] ELSE NoNode]
    <3>1. Stored(f, MetaPage).round < Len(history')
        BY <1>2, <1>3, <2>2
    <3>2. \A p \in Pages(left) : p \in Pages(d.nodes) /\ left[p] = d.nodes[p]
        BY <1>5 DEF Pages
    <3>3. HasTree(f, left)
        BY <1>2, <2>2, <3>2 DEF HasTree
    <3>4. f' = f /\ Latest' = x
        BY <1>1, <1>3 DEF Latest
    <3> HIDE DEF f
    <3> QED BY <1>1, <3>1, <3>3, <3>4 DEF Saved
  <2> QED BY <1>1, <2>1, <2>2 DEF StreamInv
<1>7. MemoryInv'
  <2>1. /\ pc' = "nodes" /\ exists' = TRUE /\ base' \in 1 .. Len(history') /\ base' < Len(history')
        /\ meta' = Latest'.meta
    <3>1. exists = TRUE
        BY DEF PageFileInv, MemoryInv
    <3> QED BY <1>1, <1>2, <1>3, <1>5, <3>1 DEF Latest
  <2>2. /\ ReleasePages(fl', tx'.release) = Latest'.fl
        /\ \A p \in Pages(tx'.dirtyNodes) : Latest'.nodes[p] \in {NoNode, tx'.dirtyNodes[p]}
    <3>1. Latest' = x
        BY <1>3 DEF Latest
    <3> QED BY <1>1, <1>5, <3>1 DEF Pages
  <2> QED BY <2>1, <2>2 DEF MemoryInv, Phase
<1>8. EndedIsWritten' /\ OpensAsLeft' /\ ReadsAreCurrent'
  <2>1. history'[base'] = history[base]
      BY <1>1, <1>2, <1>3
  <2> QED BY <1>1, <2>1 DEF PageFileInv, EndedIsWritten, OpensAsLeft, ReadsAreCurrent
<1> QED BY <1>4, <1>6, <1>7, <1>8 DEF PageFileInv

\* A commit begins.
LEMMA BeginCommitKeeps ==
    ASSUME DocumentedUse, PageFileInv, BeginCommit
    PROVE  PageFileInv'
<1> DEFINE d == history[base]
<1>1. pc = "tx" /\ tx' = tx /\ EndTx(tx.release)
    BY DEF BeginCommit
<1>2. TxOn(d) /\ d \in Database /\ Sound(d)
    BY <1>1, WorksOn DEF PageFileInv, MemoryInv
<1> HIDE DEF d
<1>3. /\ tx.dirtyNodes \in [Page -> Node \cup {NoNode}] /\ tx.release \in Seq(Page)
      /\ Pages(tx.dirtyNodes) \subseteq Pages(d.nodes) \cup Range(tx.allocatedPages)
      /\ Range(tx.allocatedPages) \subseteq Pages(tx.dirtyNodes)
      /\ Range(tx.release) \subseteq Pages(d.nodes) \ {d.meta.root} /\ IsInjective(tx.release)
    BY <1>2 DEF TxOn
<1>4. /\ Range(tx.allocatedPages) \cap Pages(d.nodes) = {}
      /\ meta.root = d.meta.root \/ meta.root \in Range(tx.allocatedPages)
    BY <1>2, InMemory
<1>5. meta.root \in (Pages(d.nodes) \cup Pages(tx'.dirtyNodes)) \ Range(tx.release)
    BY <1>1, <1>2, <1>3, <1>4 DEF Sound
<1>6. Leaving(tx.release) \in Database /\ Sound(Leaving(tx.release))
    BY <1>1, <1>2, <1>3, <1>5, LeavesSound DEF d
<1>7. tx = [dirtyNodes |-> tx.dirtyNodes, release |-> tx.release,
            allocatedPages |-> tx.allocatedPages]
    BY <1>2 DEF TxOn
<1> QED BY <1>1, <1>3, <1>6, <1>7, EndTxKeeps

\* A rollback begins.
LEMMA BeginRollbackKeeps ==
    ASSUME DocumentedUse, PageFileInv, BeginRollback
    PROVE  PageFileInv'
<1> DEFINE d == history[base]
<1>1. /\ pc = "tx" /\ EndTx(tx.allocatedPages) /\ meta = d.meta
      /\ tx' = [NoTx EXCEPT !.release = tx.allocatedPages]
    BY DEF BeginRollback
<1>2. TxOn(d) /\ d \in Database /\ Sound(d)
    BY <1>1, WorksOn DEF PageFileInv, MemoryInv
<1> HIDE DEF d
<1>3. /\ tx' = [dirtyNodes |-> tx'.dirtyNodes, release |-> tx'.release,
                 allocatedPages |-> tx'.allocatedPages]
      /\ tx'.dirtyNodes = [p \in Page |-> NoNode] /\ tx'.release = tx.allocatedPages
      /\ tx'.dirtyNodes \in [Page -> Node \cup {NoNode}] /\ Pages(tx'.dirtyNodes) = {}
    BY <1>1 DEF NoTx, Pages
<1>4. tx.allocatedPages \in Seq(Page)
    BY <1>2 DEF TxOn
<1>5. IsInjective(tx.allocatedPages) /\ Range(tx.allocatedPages) \cap Pages(d.nodes) = {}
    BY <1>2, InMemory
<1>6. meta.root \in (Pages(d.nodes) \cup Pages(tx'.dirtyNodes)) \ Range(tx.allocatedPages)
    BY <1>1, <1>2, <1>5 DEF Sound
<1>7. Leaving(tx.allocatedPages) \in Database /\ Sound(Leaving(tx.allocatedPages))
    BY <1>2, <1>3, <1>4, <1>5, <1>6, LeavesSound DEF d
<1> QED BY <1>1, <1>3, <1>7, EndTxKeeps
-----------------------------------------------------------------------------
\* What a process has that is in a commit or a rollback.
LEMMA Ending ==
    ASSUME PageFileInv, pc \in {"nodes", "meta"}
    PROVE  /\ Databases(history) /\ StreamOf(stream, history) /\ exists = TRUE
           /\ Len(history) \in Nat /\ base \in 1 .. Len(history) /\ base < Len(history)
           /\ Latest \in Database /\ Sound(Latest) /\ meta = Latest.meta
           /\ meta.freelistPage = FreelistPage /\ meta.root \in Pages(Latest.nodes)
           /\ FileOf(Flushed(stream), history)
<1>1. Databases(history) /\ StreamOf(stream, history) /\ Len(history) \in Nat
    BY LenProperties DEF PageFileInv, HistoryInv, StreamInv, Databases
<1>2. /\ base \in 1 .. Len(history) /\ base < Len(history) /\ meta = Latest.meta
      /\ exists = TRUE
    BY DEF PageFileInv, MemoryInv
<1>3. Latest \in Database /\ Sound(Latest)
  <2>1. /\ DOMAIN history = 1 .. Len(history) /\ history \in Seq(Database)
        /\ Len(history) \in 1 .. Len(history)
      BY <1>1, <1>2, LenProperties DEF Databases
  <2>2. history[Len(history)] \in Database
      BY <2>1, ElementOfSeq
  <2>3. Sound(history[Len(history)])
      BY <1>1, <2>1 DEF Databases
  <2> QED BY <2>2, <2>3 DEF Latest
<1>4. meta.freelistPage = FreelistPage /\ meta.root \in Pages(Latest.nodes)
    BY <1>2, <1>3 DEF Database, Sound
<1> QED BY <1>1, <1>2, <1>3, <1>4 DEF StreamOf

\* A dirty node is written over the page that it had.
LEMMA SaveNodeKeeps ==
    ASSUME PageFileInv, NEW p \in Page, SaveNode(p)
    PROVE  PageFileInv'
<1> DEFINE f == Flushed(stream)
           g == Flushed(stream')
           n == tx.dirtyNodes[p]
           e == [data |-> SerializeNode(n), round |-> Len(history)]
           left == [q \in Page |-> IF tx.dirtyNodes[q] = NoNode THEN Latest.nodes[q] ELSE NoNode]
           left2 == [q \in Page |-> IF tx'.dirtyNodes[q] = NoNode THEN Latest.nodes[q] ELSE NoNode]
<1>1. /\ pc = "nodes" /\ n # NoNode
      /\ tx' = [tx EXCEPT !.dirtyNodes = [@ EXCEPT ![p] = NoNode]]
      /\ UNCHANGED <<pc, starts, exists, fl, meta, reply, base, history>>
    BY DEF SaveNode
<1>2. PICK r \in WritePage(stream, p, SerializeNode(n)) : stream' = r.stream
    BY Zenon DEF SaveNode
<1>3. /\ Databases(history) /\ StreamOf(stream, history) /\ exists = TRUE
      /\ Len(history) \in Nat /\ base \in 1 .. Len(history) /\ base < Len(history)
      /\ meta = Latest.meta /\ FileOf(f, history)
    BY <1>1, Ending
<1>4. /\ tx.dirtyNodes \in [Page -> Node \cup {NoNode}]
      /\ ReleasePages(fl, tx.release) = Latest.fl
      /\ \A q \in Pages(tx.dirtyNodes) : Latest.nodes[q] \in {NoNode, tx.dirtyNodes[q]}
    BY <1>1 DEF PageFileInv, MemoryInv
<1>5. /\ tx'.release = tx.release /\ tx'.dirtyNodes = [tx.dirtyNodes EXCEPT ![p] = NoNode]
      /\ tx' = [dirtyNodes |-> tx'.dirtyNodes, release |-> tx'.release,
                allocatedPages |-> tx'.allocatedPages]
  <2>1. tx = [dirtyNodes |-> tx.dirtyNodes, release |-> tx.release,
              allocatedPages |-> tx.allocatedPages]
      BY <1>1 DEF PageFileInv, MemoryInv
  <2> QED BY <1>1, <2>1
<1>6. \/ stream'.good = FALSE /\ StreamOf(stream', history)
      \/ /\ stream.good
         /\ stream' = [file |-> f, good |-> TRUE, buffer |-> << [num |-> p, page |-> e] >>]
    BY <1>2, <1>3, WriteOutcome
<1>7. tx'.dirtyNodes \in [Page -> Node \cup {NoNode}]
      /\ Pages(tx'.dirtyNodes) = Pages(tx.dirtyNodes) \ {p}
      /\ \A q \in Pages(tx'.dirtyNodes) : tx'.dirtyNodes[q] = tx.dirtyNodes[q]
    BY <1>4, <1>5 DEF Pages
<1>8. StreamInv'
  <2>1. CASE stream'.good = FALSE /\ StreamOf(stream', history)
      BY <1>1, <2>1 DEF StreamInv
  <2>2. CASE /\ stream.good
             /\ stream' = [file |-> f, good |-> TRUE, buffer |-> << [num |-> p, page |-> e] >>]
    <3>1. Stored(f, MetaPage).round < Len(history) /\ HasTree(f, left)
        BY <1>1, <2>2 DEF PageFileInv, StreamInv, Saved
    <3>2. /\ p \in 0 .. MaxPages /\ p >= FirstRoot /\ p # MetaPage /\ p # FreelistPage
          /\ MetaPage \in Nat /\ Page \subseteq Nat
        BY Numbers
    <3>3. e.round = Len(history) /\ e.data = SerializeNode(n)
        OBVIOUS
    <3> HIDE DEF e, f, g, left, left2
    <3>4. /\ Puts(f, g, p, e) /\ stream'.good = TRUE
          /\ (Whole(g) => HasTree(g, history[Stored(g, MetaPage).round].nodes))
                 => StreamOf(stream', history)
        BY <1>3, <2>2, <3>2, <3>3, Wrote DEF f, g
    <3>5. Stored(g, MetaPage) = Stored(f, MetaPage)
        BY <3>2, <3>4 DEF Puts
    <3>6. ~Whole(g)
        BY <1>3, <3>1, <3>2, <3>3, <3>4, <3>5, NotWhole
    <3>7. HasTree(g, left2)
      <4> SUFFICES ASSUME NEW q \in Pages(left2)
                   PROVE  q < Len(g) /\ Stored(g, q).data = SerializeNode(left2[q])
          BY DEF HasTree
      <4>1. q \in Page /\ q \in Nat /\ p \in Nat /\ left2[q] = Latest.nodes[q] /\ Latest.nodes[q] # NoNode
            /\ tx'.dirtyNodes[q] = NoNode
          BY <3>2 DEF Pages, left2
      <4>2. /\ q < Len(g) <=> q < Len(f) \/ q <= p
            /\ Stored(g, q) = IF q = p THEN e ELSE Stored(f, q)
          BY <3>4, <4>1 DEF Puts
      <4>3. CASE q = p
        <5>1. Latest.nodes[p] = n
            BY <1>1, <1>4, <4>1, <4>3 DEF Pages
        <5>2. q <= p
            BY <4>1, <4>3
        <5> QED BY <3>3, <4>1, <4>2, <4>3, <5>1, <5>2
      <4>4. CASE q # p
        <5>1. tx.dirtyNodes[q] = NoNode
            BY <1>4, <1>5, <4>1, <4>4
        <5>2. q \in Pages(left) /\ left[q] = Latest.nodes[q]
            BY <4>1, <5>1 DEF Pages, left
        <5> QED BY <3>1, <4>1, <4>2, <4>4, <5>2 DEF HasTree
      <4> QED BY <4>3, <4>4
    <3>8. Saved(Flushed(stream))'
      <4>1. Latest' = Latest
          BY <1>1 DEF Latest
      <4> QED BY <1>1, <3>1, <3>5, <3>7, <4>1 DEF Saved, g, left2
    <3> QED BY <1>1, <3>4, <3>6, <3>8 DEF StreamInv
  <2> HIDE DEF f, e
  <2> QED BY <1>6, <2>1, <2>2
<1>9. MemoryInv'
  <2>1. Latest' = Latest
      BY <1>1 DEF Latest
  <2>2. /\ pc' = "nodes" /\ exists' = TRUE /\ base' \in 1 .. Len(history') /\ base' < Len(history')
        /\ meta' = Latest'.meta /\ ReleasePages(fl', tx'.release) = Latest'.fl
        /\ \A q \in Pages(tx'.dirtyNodes) : Latest'.nodes[q] \in {NoNode, tx'.dirtyNodes[q]}
      BY <1>1, <1>3, <1>4, <1>5, <1>7, <2>1
  <2> HIDE DEF n
  <2> QED BY <1>5, <1>7, <2>2 DEF MemoryInv, Phase
<1>10. HistoryInv' /\ EndedIsWritten' /\ OpensAsLeft' /\ ReadsAreCurrent'
    BY <1>1 DEF PageFileInv, HistoryInv, EndedIsWritten, OpensAsLeft, ReadsAreCurrent
<1> QED BY <1>8, <1>9, <1>10 DEF PageFileInv

\* The free list is written, with the pages that are released.
LEMMA SaveFreelistKeeps ==
    ASSUME PageFileInv, SaveFreelist
    PROVE  PageFileInv'
<1> DEFINE f == Flushed(stream)
           g == Flushed(stream')
           num == FreelistPage
           e == [data |-> SerializeFreeList(fl'), round |-> Len(history)]
<1>1. /\ pc = "nodes" /\ pc' = "meta" /\ Pages(tx.dirtyNodes) = {}
      /\ fl' = ReleasePages(fl, tx.release)
      /\ UNCHANGED <<starts, exists, meta, tx, reply, base, history>>
    BY DEF SaveFreelist
<1>2. /\ Databases(history) /\ StreamOf(stream, history) /\ exists = TRUE
      /\ Len(history) \in Nat /\ base \in 1 .. Len(history) /\ base < Len(history)
      /\ Latest \in Database /\ meta = Latest.meta /\ FileOf(f, history)
      /\ meta.freelistPage = FreelistPage /\ meta.root \in Pages(Latest.nodes)
    BY <1>1, Ending
<1>3. PICK r \in WritePage(stream, num, SerializeFreeList(fl')) : stream' = r.stream
    BY <1>2, Zenon DEF SaveFreelist
<1>4. fl' = Latest.fl
    BY <1>1 DEF PageFileInv, MemoryInv
<1>5. \/ stream'.good = FALSE /\ StreamOf(stream', history)
      \/ /\ stream.good
         /\ stream' = [file |-> f, good |-> TRUE, buffer |-> << [num |-> num, page |-> e] >>]
    BY <1>2, <1>3, WriteOutcome
<1>6. Latest' = Latest
    BY <1>1 DEF Latest
<1>7. StreamInv'
  <2>1. CASE stream'.good = FALSE /\ StreamOf(stream', history)
      BY <1>1, <2>1 DEF StreamInv
  <2>2. CASE /\ stream.good
             /\ stream' = [file |-> f, good |-> TRUE, buffer |-> << [num |-> num, page |-> e] >>]
    <3>1. /\ Stored(f, MetaPage).round < Len(history)
          /\ HasTree(f, [q \in Page |-> IF tx.dirtyNodes[q] = NoNode
                                        THEN Latest.nodes[q] ELSE NoNode])
        BY <1>1, <2>2 DEF PageFileInv, StreamInv, Saved
    <3>2. HasTree(f, Latest.nodes)
      <4> DEFINE left == [q \in Page |-> IF tx.dirtyNodes[q] = NoNode
                                         THEN Latest.nodes[q] ELSE NoNode]
      <4>1. \A q \in Pages(Latest.nodes) : q \in Pages(left) /\ left[q] = Latest.nodes[q]
          BY <1>1 DEF Pages
      <4>2. HasTree(f, left)
          BY <3>1
      <4> HIDE DEF left, f
      <4> QED BY <4>1, <4>2 DEF HasTree
    <3>3. /\ num \in 0 .. MaxPages /\ num # MetaPage /\ num \notin Pages(Latest.nodes)
          /\ MetaPage \in Nat /\ num \in Nat
        BY Numbers DEF Pages
    <3>4. Len(f) > 0
      <4>1. meta.root \in Page /\ meta.root < Len(f)
          BY <1>2, <3>2 DEF HasTree, Pages
      <4>2. Len(f) \in Nat /\ meta.root \in Nat
          BY <1>2, <4>1, Numbers DEF FileOf
      <4> HIDE DEF f
      <4> QED BY <4>1, <4>2
    <3>5. e.round = Len(history) /\ e.data = SerializeFreeList(history[Len(history)].fl)
        BY <1>4 DEF Latest
    <3> HIDE DEF e, f, g
    <3>6. /\ Puts(f, g, num, e) /\ stream'.good = TRUE
          /\ (Whole(g) => HasTree(g, history[Stored(g, MetaPage).round].nodes))
                 => StreamOf(stream', history)
      <4>1. stream' = [file |-> f, good |-> TRUE, buffer |-> << [num |-> num, page |-> e] >>]
          BY <2>2
      <4>2. num = FreelistPage => e.data = SerializeFreeList(history[Len(history)].fl)
          BY <3>5
      <4>3. e.round = Len(history) /\ (Len(f) > 0 \/ num >= FirstRoot)
          BY <3>4, <3>5
      <4> HIDE DEF num
      <4> QED BY <1>2, <3>3, <4>1, <4>2, <4>3, Wrote DEF f, g
    <3>7. Stored(g, MetaPage) = Stored(f, MetaPage) /\ Stored(g, num) = e
        BY <3>3, <3>6 DEF Puts
    <3>8. ~Whole(g)
        BY <1>2, <3>1, <3>3, <3>5, <3>6, <3>7, NotWhole
    <3>9. HasTree(g, Latest.nodes)
        BY <3>2, <3>3, <3>6, PutKeepsTree
    <3>10. Saved(Flushed(stream))'
        BY <1>1, <1>6, <3>1, <3>5, <3>7, <3>9 DEF Saved, g
    <3> QED BY <1>1, <3>6, <3>8, <3>10 DEF StreamInv
  <2> HIDE DEF f, e
  <2> QED BY <1>5, <2>1, <2>2
<1>8. MemoryInv'
  <2>1. /\ pc' = "meta" /\ exists' = TRUE /\ base' \in 1 .. Len(history') /\ base' < Len(history')
        /\ meta' = Latest'.meta /\ fl' = Latest'.fl
      BY <1>1, <1>2, <1>4, <1>6
  <2> QED BY <2>1 DEF MemoryInv, Phase
<1>9. HistoryInv' /\ EndedIsWritten' /\ OpensAsLeft' /\ ReadsAreCurrent'
    BY <1>1 DEF PageFileInv, HistoryInv, EndedIsWritten, OpensAsLeft, ReadsAreCurrent
<1> QED BY <1>7, <1>8, <1>9 DEF PageFileInv

\* The meta page is written: the file is whole again.
LEMMA SaveMetaKeeps ==
    ASSUME PageFileInv, SaveMeta
    PROVE  PageFileInv'
<1> DEFINE f == Flushed(stream)
           g == Flushed(stream')
           num == MetaPage
           e == [data |-> SerializeMeta(meta), round |-> Len(history)]
<1>1. /\ pc = "meta" /\ pc' = "open" /\ tx' = NoTx /\ reply' = {} /\ base' = Len(history)
      /\ UNCHANGED <<starts, exists, fl, meta, history>>
    BY DEF SaveMeta
<1>2. PICK r \in WritePage(stream, MetaPage, SerializeMeta(meta)) : stream' = r.stream
    BY Zenon DEF SaveMeta
<1>3. /\ Databases(history) /\ StreamOf(stream, history) /\ exists = TRUE
      /\ Len(history) \in Nat /\ base \in 1 .. Len(history) /\ base < Len(history)
      /\ Latest \in Database /\ meta = Latest.meta /\ FileOf(f, history)
      /\ meta.root \in Pages(Latest.nodes)
    BY <1>1, Ending
<1>4. fl = Latest.fl /\ Latest = history[base']
    BY <1>1 DEF PageFileInv, MemoryInv, Latest
<1>5. \/ stream'.good = FALSE /\ StreamOf(stream', history)
      \/ /\ stream.good
         /\ stream' = [file |-> f, good |-> TRUE, buffer |-> << [num |-> MetaPage, page |-> e] >>]
    BY <1>2, <1>3, WriteOutcome
<1>6. StreamInv' /\ EndedIsWritten'
  <2>1. CASE stream'.good = FALSE /\ StreamOf(stream', history)
      BY <1>1, <2>1 DEF StreamInv, EndedIsWritten
  <2>2. CASE /\ stream.good
             /\ stream' = [file |-> f, good |-> TRUE, buffer |-> << [num |-> MetaPage, page |-> e] >>]
    <3>1. Stored(f, FreelistPage).round = Len(history) /\ HasTree(f, Latest.nodes)
        BY <1>1, <2>2 DEF PageFileInv, StreamInv, Saved
    <3>2. /\ MetaPage \in 0 .. MaxPages /\ MetaPage # FreelistPage /\ MetaPage \notin Pages(Latest.nodes)
          /\ MetaPage \in Nat /\ FreelistPage \in Nat /\ MaxPages \in Nat
        BY Numbers DEF Pages
    <3>3. Len(f) \in 2 .. (MaxPages + 1)
      <4>1. meta.root \in Page /\ meta.root < Len(f)
          BY <1>3, <3>1 DEF HasTree, Pages
      <4>2. Len(f) \in {0} \cup 3 .. (MaxPages + 1) /\ meta.root \in 2 .. MaxPages
          BY <1>3, <4>1, Numbers DEF FileOf
      <4> HIDE DEF f
      <4> QED BY <3>2, <4>1, <4>2
    <3>4. e.round = Len(history) /\ e.data = SerializeMeta(history[Len(history)].meta)
        BY <1>3 DEF Latest
    <3> HIDE DEF e, f, g
    <3>5. Len(f) > 0 /\ Stored(f, FreelistPage).round > 0
        BY <1>3, <3>1, <3>2, <3>3
    <3>6. /\ Puts(f, g, MetaPage, e) /\ stream'.good = TRUE /\ stream'.buffer[1].num = MetaPage
          /\ (Whole(g) => HasTree(g, history[Stored(g, MetaPage).round].nodes))
                 => StreamOf(stream', history)
      <4>1. stream' = [file |-> f, good |-> TRUE, buffer |-> << [num |-> num, page |-> e] >>]
          BY <2>2
      <4>2. /\ num = MetaPage => /\ e.data = SerializeMeta(history[Len(history)].meta)
                                 /\ Stored(f, FreelistPage).round > 0 \/ Len(history) = 1
            /\ num = FreelistPage => e.data = SerializeFreeList(history[Len(history)].fl)
          BY <3>2, <3>4, <3>5
      <4>3. e.round = Len(history) /\ (Len(f) > 0 \/ num >= FirstRoot) /\ num \in 0 .. MaxPages
          BY <3>2, <3>4, <3>5
      <4> HIDE DEF num
      <4>4. /\ Puts(f, g, num, e) /\ stream'.good = TRUE
            /\ (Whole(g) => HasTree(g, history[Stored(g, MetaPage).round].nodes))
                   => StreamOf(stream', history)
          BY <1>3, <4>1, <4>2, <4>3, Wrote DEF f, g
      <4>5. stream'.buffer[1].num = num
          BY <4>1
      <4> QED BY <4>4, <4>5 DEF num
    <3>7. /\ Stored(g, MetaPage) = e /\ Stored(g, FreelistPage) = Stored(f, FreelistPage)
          /\ HasTree(g, Latest.nodes)
      <4>1. Puts(f, g, MetaPage, e)
          BY <3>6
      <4>2. Stored(g, MetaPage) = e /\ Stored(g, FreelistPage) = Stored(f, FreelistPage)
          BY <3>2, <4>1 DEF Puts
      <4>3. HasTree(g, Latest.nodes)
          BY <3>1, <3>2, <4>1, PutKeepsTree
      <4> QED BY <4>2, <4>3
    <3>8. StreamOf(stream', history)
        BY <3>4, <3>6, <3>7 DEF Latest
    <3>9. Len(g) = Len(f) /\ g = [i \in 1 .. Len(g) |-> g[i]]
      <4>1. \A p \in Nat : p < Len(g) <=> p < Len(f)
          BY <3>2, <3>3, <3>6, Numbers DEF Puts
      <4>2. Len(g) \in Nat /\ g = [i \in 1 .. Len(g) |-> g[i]]
          BY <3>6 DEF Puts
      <4>3. Len(f) \in Nat
          BY <3>2, <3>3
      <4>4. ~(Len(f) < Len(g)) /\ ~(Len(g) < Len(f))
          BY <4>1, <4>2, <4>3
      <4> QED BY <4>2, <4>3, <4>4
    <3>10. Whole(g)
      <4>1. \A p \in Nat : p < Len(g) => Stored(g, p).round <= Len(history)
        <5>1. FileOf(g, history)
            BY <3>8 DEF StreamOf, g
        <5>2. \A p \in 0 .. MaxPages : Stored(g, p).round \in 0 .. Len(history)
            BY <5>1 DEF FileOf
        <5> QED BY <1>3, <3>2, <3>3, <3>9, <5>2
      <4>2. Len(g) \in Nat /\ Len(g) > 1 /\ Len(history) > 0
          BY <1>3, <3>2, <3>3, <3>9
      <4> QED BY <1>3, <3>1, <3>4, <3>7, <3>9, <4>1, <4>2, WholePages
    <3>11. Saved(Flushed(stream))'
        BY <1>1, <3>4, <3>7, <3>10 DEF Saved, g
    <3>12. StreamInv'
        BY <1>1, <3>8, <3>11 DEF StreamInv
    <3>13. Holds(g, Latest)
      <4>1. FileOf(g, history)
          BY <3>8 DEF StreamOf, g
      <4>2. g[1].round = Len(history) /\ Holds(g, history[g[1].round])
          BY <1>3, <3>4, <3>7, <3>10, <4>1, WholeHolds
      <4> QED BY <4>2 DEF Latest
    <3>14. base' # 1
        BY <1>1, <1>3
    <3>15. EndedIsWritten'
        BY <1>1, <1>4, <3>6, <3>10, <3>13, <3>14 DEF EndedIsWritten, g
    <3> QED BY <3>12, <3>15
  <2> HIDE DEF f, e
  <2> QED BY <1>5, <2>1, <2>2
<1>7. MemoryInv'
  <2>1. pc' = "open" /\ exists' = TRUE /\ base' \in 1 .. Len(history') /\ tx' = NoTx
      BY <1>1, <1>3
  <2> QED BY <2>1 DEF MemoryInv, Phase
<1>8. OpensAsLeft'
    BY <1>1, <1>3, <1>4 DEF OpensAsLeft
<1>9. HistoryInv' /\ ReadsAreCurrent'
    BY <1>1 DEF PageFileInv, HistoryInv, ReadsAreCurrent
<1> QED BY <1>6, <1>7, <1>8, <1>9 DEF PageFileInv
-----------------------------------------------------------------------------
\* What the invariant says of the types of what is in memory.
ListType == [maxPage : 0 .. MaxPages, releasedPages : Seq(Page)]
MetaType == [freelistPage : {NoPage, FreelistPage}, root : Page \cup {NoPage}]
TxType == [dirtyNodes : [Page -> Node \cup {NoNode}],
           release : Seq(Page), allocatedPages : Seq(Page)]
MemoryTypes ==
    /\ pc \in Phase /\ exists \in BOOLEAN
    /\ history \in Seq(Database) /\ Len(history) \in Nat
    /\ pc \notin {"nodes", "torn"} => fl \in ListType
    /\ pc # "torn" => meta \in MetaType
    /\ pc \notin {"nodes", "meta"} => tx \in TxType
    /\ pc \in {"open", "tx", "nodes", "meta"} => base \in 0 .. Len(history)
    /\ pc \in {"down", "newRoot", "newMeta", "newFreelist", "torn"} => reply = {}

\* Without a transaction.
LEMMA NoTxType == NoTx \in TxType
BY EmptySeq DEF NoTx, TxType

\* The types of a database are those of memory.
LEMMA DatabaseTypes ==
    ASSUME NEW d \in Database
    PROVE  d.fl \in ListType /\ d.meta \in MetaType
BY Numbers DEF Database, ListType, MetaType

\* The invariant says this.
LEMMA InvTypes == PageFileInv => MemoryTypes
<1> SUFFICES ASSUME PageFileInv PROVE MemoryTypes
    OBVIOUS
<1>1. /\ pc \in Phase /\ exists \in BOOLEAN /\ Databases(history)
      /\ history \in Seq(Database) /\ Len(history) \in Nat
      /\ pc \in {"down", "newRoot", "newMeta", "newFreelist", "torn"} => reply = {} /\ tx = NoTx
      /\ pc \in {"open", "tx", "nodes", "meta"} => base \in 1 .. Len(history)
    BY LenProperties DEF PageFileInv, HistoryInv, MemoryInv, Databases
<1>2. pc \in {"open", "tx", "nodes", "meta"} => history[base] \in Database /\ Latest \in Database
  <2>1. \A i \in 1 .. Len(history) : history[i] \in Database
      BY <1>1, ElementOfSeq
  <2>2. pc \in {"open", "tx", "nodes", "meta"} => Len(history) \in 1 .. Len(history)
      BY <1>1
  <2> QED BY <1>1, <2>1, <2>2 DEF Latest
<1>3. /\ EmptyFreeList \in ListType /\ AfterNextPage(EmptyFreeList) \in ListType
      /\ NewFreeList \in ListType /\ NoMeta \in MetaType /\ NewDatabase.meta \in MetaType
      /\ [freelistPage |-> FreelistPage, root |-> NoPage] \in MetaType
  <2>1. EmptyFreeList \in ListType
      BY Numbers DEF EmptyFreeList, InitialPage, ListType
  <2>2. AfterNextPage(EmptyFreeList) \in ListType
      BY Numbers DEF ListType
  <2>3. NewFreeList \in ListType
      BY Numbers DEF ListType
  <2>4. NoMeta \in MetaType /\ [freelistPage |-> FreelistPage, root |-> NoPage] \in MetaType
      BY DEF NoMeta, MetaType
  <2>5. NewDatabase.meta \in MetaType
      BY Created, DatabaseTypes
  <2> QED BY <2>1, <2>2, <2>3, <2>4, <2>5
<1>4. pc = "tx" => fl \in ListType /\ meta \in MetaType /\ tx \in TxType
  <2> SUFFICES ASSUME pc = "tx" PROVE fl \in ListType /\ meta \in MetaType /\ tx \in TxType
      OBVIOUS
  <2>1. TxOn(history[base]) /\ Sound(history[base])
    <3>1. \A i \in DOMAIN history : Sound(history[i])
        BY <1>1 DEF Databases
    <3>2. base \in DOMAIN history
        BY <1>1, LenProperties
    <3> QED BY <3>1, <3>2 DEF PageFileInv, MemoryInv
  <2>2. /\ fl \in [maxPage : Page, releasedPages : Seq(Page)]
        /\ meta \in [freelistPage : {FreelistPage}, root : Page]
      BY <1>2, <2>1, InMemory
  <2>3. tx \in TxType
      BY <2>1 DEF TxOn, TxType
  <2> QED BY <2>2, <2>3, Numbers DEF ListType, MetaType
<1>5. pc \notin {"nodes", "torn"} => fl \in ListType
  <2>1. pc = "down" => fl = EmptyFreeList
      BY DEF PageFileInv, MemoryInv
  <2>2. pc = "newRoot" => fl = AfterNextPage(EmptyFreeList)
      BY DEF PageFileInv, MemoryInv
  <2>3. pc \in {"newMeta", "newFreelist"} => fl = NewFreeList
      BY DEF PageFileInv, MemoryInv
  <2>4. pc = "open" => fl = history[base].fl
      BY DEF PageFileInv, OpensAsLeft
  <2>5. pc = "meta" => fl = Latest.fl
      BY DEF PageFileInv, MemoryInv
  <2> QED BY <1>1, <1>2, <1>3, <1>4, <2>1, <2>2, <2>3, <2>4, <2>5, DatabaseTypes DEF Phase
<1>6. pc # "torn" => meta \in MetaType
  <2>1. pc = "down" => meta = NoMeta
      BY DEF PageFileInv, MemoryInv
  <2>2. pc = "newRoot" => meta = [freelistPage |-> FreelistPage, root |-> NoPage]
      BY DEF PageFileInv, MemoryInv
  <2>3. pc \in {"newMeta", "newFreelist"} => meta = NewDatabase.meta
      BY DEF PageFileInv, MemoryInv
  <2>4. pc = "open" => meta = history[base].meta
      BY DEF PageFileInv, OpensAsLeft
  <2>5. pc \in {"nodes", "meta"} => meta = Latest.meta
      BY DEF PageFileInv, MemoryInv
  <2> QED BY <1>1, <1>2, <1>3, <1>4, <2>1, <2>2, <2>3, <2>4, <2>5, DatabaseTypes DEF Phase
<1>7. pc \notin {"nodes", "meta"} => tx \in TxType
  <2>1. pc = "open" => tx = NoTx
      BY DEF PageFileInv, MemoryInv
  <2> QED BY <1>1, <1>4, <2>1, NoTxType DEF Phase
<1>8. pc \in {"open", "tx", "nodes", "meta"} => base \in 0 .. Len(history)
    BY <1>1
<1> QED BY <1>1, <1>5, <1>6, <1>7, <1>8 DEF MemoryTypes

\* TypeOK with these names.
TypeInv ==
    /\ pc \in Phase /\ exists \in BOOLEAN /\ history \in Seq(Database)
    /\ starts \in 0 .. MaxStarts /\ stream \in StreamType
    /\ fl \in ListType /\ meta \in MetaType /\ tx \in TxType
    /\ reply \subseteq Page \X (Node \cup {NoNode})
    /\ base \in 0 .. Len(history)

\* It is TypeOK.
LEMMA TypeIs == TypeInv => TypeOK
BY DEF TypeInv, TypeOK, Database, StreamType, PageType, ListType, MetaType, TxType

\* So it is in the beginning.
LEMMA InitTypes == Init => TypeInv
<1> SUFFICES ASSUME Init PROVE TypeInv
    OBVIOUS
<1>1. NewDatabase \in Database /\ <<NewDatabase>> \in Seq(Database)
    BY Created DEF Databases
<1>2. stream \in StreamType
  <2>1. <<>> \in Seq(PageType) /\ TRUE \in BOOLEAN
      BY EmptySeq
  <2>2. stream = [file |-> <<>>, buffer |-> <<>>, good |-> TRUE]
      BY DEF Init, Closed
  <2> QED BY <2>1, <2>2, StreamIs
<1>3. MemoryTypes
    BY Initial, InvTypes
<1>4. pc = "down" /\ starts = 0 /\ reply = {} /\ base = 0 /\ history = <<NewDatabase>>
    BY DEF Init
<1>5. 0 \in 0 .. MaxStarts
    BY FileAssumption
<1> QED BY <1>1, <1>2, <1>3, <1>4, <1>5 DEF TypeInv, MemoryTypes

\* What is written is the bytes of a page.
LEMMA WrittenTypes ==
    /\ \A n \in Node : SerializeNode(n) \in [Position -> Byte]
    /\ \A m \in MetaType : SerializeMeta(m) \in [Position -> Byte] /\ m.freelistPage \in 0 .. MaxPages
    /\ \A f \in ListType : SerializeFreeList(f) \in [Position -> Byte]
<1>1. \A n \in Node : SerializeNode(n) \in [Position -> Byte]
    BY FileAssumption, NodeReads
<1>2. ASSUME NEW m \in MetaType
      PROVE  SerializeMeta(m) \in [Position -> Byte] /\ m.freelistPage \in 0 .. MaxPages
  <2>1. /\ m = [freelistPage |-> m.freelistPage, root |-> m.root]
        /\ m.freelistPage \in {0, 1} /\ m.root \in Page \cup {0}
      BY Numbers DEF MetaType, NoPage
  <2>2. m.freelistPage \in Nat /\ m.root \in Nat /\ m.freelistPage \in 0 .. MaxPages
      BY <2>1, Numbers
  <2> QED BY <2>1, <2>2, MetaReads
<1>3. ASSUME NEW f \in ListType PROVE SerializeFreeList(f) \in [Position -> Byte]
  <2>1. /\ f = [maxPage |-> f.maxPage, releasedPages |-> f.releasedPages]
        /\ f.maxPage \in Nat /\ f.releasedPages \in Seq(Page)
      BY Numbers DEF ListType
  <2>2. Page \subseteq Nat
      BY Numbers
  <2>3. f.releasedPages \in Seq(Nat)
      BY <2>1, <2>2, SeqMonotonic
  <2> QED BY <2>1, <2>3, FreeListReads
<1> QED BY <1>1, <1>2, <1>3

\* What is read where a process opens a file.
LEMMA OpenTypes ==
    ASSUME NEW h, Databases(h), NEW f, FileOf(f, h),
           NEW m, m = DeserializeMeta(Stored(f, MetaPage).data)
    PROVE  /\ m \in MetaType
           /\ DeserializeFreeList(Stored(f, m.freelistPage).data) \in ListType
<1>1. /\ MetaPage \in 0 .. MaxPages /\ FreelistPage \in 0 .. MaxPages
      /\ NoPage = MetaPage /\ Hole.data = EmptyPage /\ Len(h) \in Nat
      /\ EmptyFreeList \in ListType
    BY Numbers, LenProperties DEF NoPage, Hole, Databases, EmptyFreeList, InitialPage, ListType
<1>2. \A r \in 1 .. Len(h) : h[r] \in Database /\ FreeListFits(h[r].fl)
  <2>1. h \in Seq(Database) /\ DOMAIN h = 1 .. Len(h)
      BY LenProperties DEF Databases
  <2> QED BY <2>1, ElementOfSeq DEF Databases
<1>3. ASSUME NEW p \in {MetaPage, FreelistPage}
      PROVE  Stored(f, p) = Hole \/ (Stored(f, p).round > 0 /\ Stored(f, p).round \in 1 .. Len(h))
  <2>1. p \in 0 .. MaxPages
      BY <1>1
  <2>2. Stored(f, p).round \in 0 .. Len(h) /\ (Stored(f, p).round = 0 => Stored(f, p) = Hole)
      BY <2>1 DEF FileOf
  <2> QED BY <1>1, <2>2
<1>4. CASE Stored(f, MetaPage) = Hole
  <2>1. m = [freelistPage |-> 0, root |-> 0]
      BY <1>1, <1>4, EmptyReads
  <2>2. m \in MetaType /\ m.freelistPage = MetaPage
      BY <1>1, <2>1, Numbers DEF MetaType
  <2> QED BY <1>1, <1>4, <2>2, EmptyReads
<1>5. CASE Stored(f, MetaPage).round > 0 /\ Stored(f, MetaPage).round \in 1 .. Len(h)
  <2> DEFINE d == h[Stored(f, MetaPage).round]
  <2>1. Stored(f, MetaPage).data = SerializeMeta(d.meta)
      BY <1>5 DEF FileOf
  <2>2. d \in Database /\ FreeListFits(d.fl)
      BY <1>2, <1>5
  <2>3. m = d.meta
    <3> HIDE DEF d
    <3> QED BY <2>1, <2>2, ReadsBack
  <2>4. m \in MetaType /\ m.freelistPage = FreelistPage
    <3>1. d.meta.freelistPage = FreelistPage
        BY <2>2 DEF Database
    <3> HIDE DEF d
    <3> QED BY <2>2, <2>3, <3>1, DatabaseTypes
  <2>5. CASE Stored(f, FreelistPage) = Hole
      BY <1>1, <2>4, <2>5, EmptyReads
  <2>6. CASE Stored(f, FreelistPage).round > 0 /\ Stored(f, FreelistPage).round \in 1 .. Len(h)
    <3> DEFINE e == h[Stored(f, FreelistPage).round]
    <3>1. Stored(f, FreelistPage).data = SerializeFreeList(e.fl)
        BY <2>6 DEF FileOf
    <3>2. e \in Database /\ FreeListFits(e.fl)
        BY <1>2, <2>6
    <3> HIDE DEF d, e
    <3>3. DeserializeFreeList(Stored(f, FreelistPage).data) = e.fl /\ e.fl \in ListType
        BY <3>1, <3>2, ReadsBack, DatabaseTypes
    <3> QED BY <2>4, <3>3
  <2> QED BY <1>3, <2>5, <2>6
<1> QED BY <1>3, <1>4, <1>5

\* What is left to show of a step: the invariant says the rest of what follows it.
LEMMA StepTypes ==
    ASSUME MemoryTypes', stream' \in StreamType, starts' \in 0 .. MaxStarts,
           pc' \in {"nodes", "torn"} => fl' \in ListType,
           pc' = "torn" => meta' \in MetaType,
           pc' \in {"nodes", "meta"} => tx' \in TxType,
           pc' \in {"open", "tx", "nodes", "meta"} => reply' \subseteq Page \X (Node \cup {NoNode}),
           pc' \in {"down", "newRoot", "newMeta", "newFreelist", "torn"} => base' \in 0 .. Len(history')
    PROVE  TypeInv'
<1>1. /\ pc' \in Phase /\ exists' \in BOOLEAN /\ history' \in Seq(Database)
      /\ fl' \in ListType /\ meta' \in MetaType /\ tx' \in TxType
    BY DEF MemoryTypes, Phase
<1>2. reply' \subseteq Page \X (Node \cup {NoNode})
  <2>1. pc' \in {"down", "newRoot", "newMeta", "newFreelist", "torn"} => reply' = {}
      BY DEF MemoryTypes
  <2> QED BY <1>1, <2>1 DEF Phase
<1>3. base' \in 0 .. Len(history')
  <2>1. pc' \in {"open", "tx", "nodes", "meta"} => base' \in 0 .. Len(history')
      BY DEF MemoryTypes
  <2> QED BY <1>1, <2>1 DEF Phase
<1> QED BY <1>1, <1>2, <1>3 DEF TypeInv

\* The end of a process.
LEMMA ExitTypes ==
    ASSUME MemoryTypes', NEW s \in StreamType, Exit(s), starts' \in 0 .. MaxStarts
    PROVE  TypeInv'
<1>1. pc' = "down" /\ base' = 0 /\ stream' \in StreamType
    BY ExitType DEF Exit, Gone
<1>2. base' \in 0 .. Len(history')
    BY <1>1 DEF MemoryTypes
<1> QED BY <1>1, <1>2, StepTypes

\* A page written by the constructor.
LEMMA ConstructTypes ==
    ASSUME TypeInv, MemoryTypes, MemoryTypes', NEW num \in 0 .. MaxPages,
           NEW data \in [Position -> Byte], NEW ACTION next, Construct(num, data, next),
           next => pc' \in {"newMeta", "newFreelist", "open"} /\ base' \in 0 .. Len(history)
    PROVE  TypeInv'
<1>1. PICK r \in WritePage(stream, num, data) :
        IF r.result
        THEN /\ next
             /\ stream' = r.stream
             /\ UNCHANGED <<tx, reply>>
        ELSE Exit(r.stream)
    BY Zenon DEF Construct
<1>2. /\ r.stream \in StreamType /\ starts' = starts /\ history' = history
      /\ starts' \in 0 .. MaxStarts /\ reply \subseteq Page \X (Node \cup {NoNode})
  <2>1. stream \in StreamType /\ Len(history) \in Nat
      BY DEF TypeInv, MemoryTypes
  <2> QED BY <2>1, WriteType DEF Construct, TypeInv
<1>3. CASE r.result
  <2>1. /\ pc' \in {"newMeta", "newFreelist", "open"} /\ base' \in 0 .. Len(history')
        /\ stream' \in StreamType /\ reply' \subseteq Page \X (Node \cup {NoNode})
      BY <1>1, <1>2, <1>3
  <2> QED BY <1>2, <2>1, StepTypes
<1>4. CASE ~r.result
    BY <1>1, <1>2, <1>4, ExitTypes
<1> QED BY <1>3, <1>4

\* It writes the root, the meta page and the free list.
LEMMA CreateTypes ==
    ASSUME PageFileInv, TypeInv, MemoryTypes, MemoryTypes',
           CreateRoot \/ CreateMeta \/ CreateFreelist
    PROVE  TypeInv'
<1>1. /\ fl \in ListType /\ meta \in MetaType /\ base \in 0 .. Len(history)
      /\ 1 \in 0 .. Len(history) /\ MetaPage \in 0 .. MaxPages
  <2>1. Len(history) \in Nat /\ Len(history) > 0
      BY DEF PageFileInv, HistoryInv, Databases, MemoryTypes
  <2> QED BY <2>1, Numbers DEF TypeInv
<1>2. CASE CreateRoot
  <2> DEFINE next == /\ pc' = "newMeta"
                     /\ meta' = [meta EXCEPT !.root = NextPage(fl)]
                     /\ fl' = AfterNextPage(fl)
                     /\ UNCHANGED base
  <2>1. Construct(NextPage(fl), SerializeNode(EmptyNode), next)
      BY <1>2 DEF CreateRoot
  <2>2. NextPage(fl) \in 0 .. MaxPages
    <3>1. fl = AfterNextPage(EmptyFreeList)
        BY <1>2 DEF CreateRoot, PageFileInv, MemoryInv
    <3> QED BY <3>1, Numbers
  <2>3. SerializeNode(EmptyNode) \in [Position -> Byte]
      BY FileAssumption, WrittenTypes
  <2>4. next => pc' \in {"newMeta", "newFreelist", "open"} /\ base' \in 0 .. Len(history)
      BY <1>1
  <2> HIDE DEF next
  <2> QED BY <2>1, <2>2, <2>3, <2>4, ConstructTypes
<1>3. CASE CreateMeta
  <2> DEFINE next == pc' = "newFreelist" /\ UNCHANGED <<fl, meta, base>>
  <2>1. Construct(MetaPage, SerializeMeta(meta), next)
      BY <1>3 DEF CreateMeta
  <2>2. SerializeMeta(meta) \in [Position -> Byte]
      BY <1>1, WrittenTypes
  <2>3. next => pc' \in {"newMeta", "newFreelist", "open"} /\ base' \in 0 .. Len(history)
      BY <1>1
  <2> HIDE DEF next
  <2> QED BY <1>1, <2>1, <2>2, <2>3, ConstructTypes
<1>4. CASE CreateFreelist
  <2> DEFINE next == pc' = "open" /\ base' = 1 /\ UNCHANGED <<fl, meta>>
  <2>1. Construct(meta.freelistPage, SerializeFreeList(fl), next)
      BY <1>4 DEF CreateFreelist
  <2>2. SerializeFreeList(fl) \in [Position -> Byte] /\ meta.freelistPage \in 0 .. MaxPages
      BY <1>1, WrittenTypes
  <2>3. next => pc' \in {"newMeta", "newFreelist", "open"} /\ base' \in 0 .. Len(history)
      BY <1>1
  <2> HIDE DEF next
  <2> QED BY <2>1, <2>2, <2>3, ConstructTypes
<1> QED BY <1>2, <1>3, <1>4

\* The opening of a file.
LEMMA OpenedTypes ==
    ASSUME DocumentedUse, PageFileInv, TypeInv, MemoryTypes', Open
    PROVE  TypeInv'
<1> DEFINE f == stream.file
           m == DeserializeMeta(Stored(f, MetaPage).data)
<1>1. /\ stream \in StreamType /\ f \in Seq(PageType) /\ history' = history
      /\ starts' \in 0 .. MaxStarts
  <2>1. starts < MaxStarts /\ starts' = starts + 1 /\ history' = history
      BY DEF Open
  <2>2. stream \in StreamType /\ starts \in 0 .. MaxStarts
      BY DEF TypeInv
  <2> QED BY <2>1, <2>2, FlushedType, FileAssumption
<1>2. Databases(history) /\ FileOf(f, history)
    BY DEF PageFileInv, HistoryInv, StreamInv, StreamOf
<1>3. CASE \E s : Exit(s) /\ s \in StreamType
    BY <1>1, <1>3, ExitTypes
<1>4. CASE /\ MetaPage \in 0 .. Len(f) - 1
           /\ meta' = m /\ fl' = DeserializeFreeList(Stored(f, m.freelistPage).data)
           /\ stream' = [file |-> f, buffer |-> <<>>, good |-> TRUE]
           /\ base' = Max({1, f[1].round}) /\ reply' = {}
           /\ pc' = IF Whole(f) THEN "open" ELSE "torn"
  <2>1. meta' \in MetaType /\ fl' \in ListType
    <3> HIDE DEF f, m
    <3>1. m = DeserializeMeta(Stored(f, MetaPage).data)
        BY DEF m
    <3> QED BY <1>2, <1>4, <3>1, OpenTypes
  <2>2. stream' \in StreamType
    <3>1. TRUE \in BOOLEAN
        OBVIOUS
    <3> HIDE DEF f
    <3> QED BY <1>1, <1>4, <3>1, StreamIs
  <2>3. base' \in 0 .. Len(history')
    <3>1. Len(history) \in Nat /\ Len(history) > 0 /\ Len(f) \in Nat
        BY <1>1, <1>2, LenProperties DEF Databases
    <3>2. Stored(f, MetaPage) = f[1] /\ Stored(f, MetaPage).round \in 0 .. Len(history)
      <4> HIDE DEF f
      <4>1. MetaPage < Len(f)
          BY <1>4, <3>1, Numbers
      <4> QED BY <1>2, <3>1, <4>1, RoundOf, StoredAt
    <3>3. f[1].round \in 0 .. Len(history)
        BY <3>2
    <3> DEFINE k == f[1].round
    <3>4. base' = Max({1, k}) /\ k \in 0 .. Len(history)
        BY <1>4, <3>3
    <3> HIDE DEF k
    <3>5. Max({1, k}) = IF 1 <= k THEN k ELSE 1
        BY <3>1, <3>4, MaxOfTwo
    <3> QED BY <1>1, <3>1, <3>4, <3>5
  <2>4. reply' = {} /\ pc' \in {"open", "torn"}
      BY <1>4
  <2> QED BY <1>1, <2>1, <2>2, <2>3, <2>4, StepTypes
<1>5. \/ \E s : Exit(s) /\ s \in StreamType
      \/ /\ MetaPage \in 0 .. Len(f) - 1
         /\ meta' = m /\ fl' = DeserializeFreeList(Stored(f, m.freelistPage).data)
         /\ stream' = [file |-> f, buffer |-> <<>>, good |-> TRUE]
         /\ base' = Max({1, f[1].round}) /\ reply' = {}
         /\ pc' = IF Whole(f) THEN "open" ELSE "torn"
    BY <1>1, OpenOutcome
<1> QED BY <1>3, <1>4, <1>5

\* What is read of the tree.
LEMMA GetNodeTypes ==
    ASSUME PageFileInv, TypeInv, MemoryTypes', PageFileInv', NEW p \in Page, GetNode(p)
    PROVE  TypeInv'
<1>1. PICK r \in ReadPage(stream, p) :
        /\ stream' = r.stream
        /\ reply' = {<<p, IF r.result = Unreadable THEN NoNode
                          ELSE DeserializeNode(r.result)>>}
    BY Zenon DEF GetNode
<1>2. /\ stream' \in StreamType /\ starts' = starts /\ starts \in 0 .. MaxStarts
      /\ pc' \in {"open", "tx"} /\ base' = base /\ history' = history
      /\ pc \in {"open", "tx"}
    BY <1>1, ReadType DEF GetNode, TypeInv
<1>3. reply' \subseteq Page \X (Node \cup {NoNode})
  <2> DEFINE x == IF r.result = Unreadable THEN NoNode ELSE DeserializeNode(r.result)
  <2>1. reply' = {<<p, x>>}
      BY <1>1
  <2> HIDE DEF x
  <2>2. x \in {NoNode, history[base].nodes[p]}
    <3>1. \A y \in reply' : y[2] \in {NoNode, history[base].nodes[y[1]]}
        BY <1>2 DEF PageFileInv, ReadsAreCurrent
    <3>2. <<p, x>>[1] = p /\ <<p, x>>[2] = x
        OBVIOUS
    <3> QED BY <2>1, <3>1, <3>2
  <2>3. history[base].nodes \in [Page -> Node \cup {NoNode}]
      BY <1>2, WorksOn
  <2>4. x \in Node \cup {NoNode}
      BY <2>2, <2>3
  <2> QED BY <2>1, <2>4
<1> QED BY <1>2, <1>3, StepTypes

\* A page written by a commit or a rollback.
LEMMA SaveTypes ==
    ASSUME TypeInv, MemoryTypes, NEW num \in 0 .. MaxPages, NEW data \in [Position -> Byte],
           \E r \in WritePage(stream, num, data) : stream' = r.stream
    PROVE  stream' \in StreamType
<1>1. stream \in StreamType /\ Len(history) \in Nat
    BY DEF TypeInv, MemoryTypes
<1> QED BY <1>1, WriteType

\* It writes nodes, the free list and the meta page.
LEMMA EndingTypes ==
    ASSUME TypeInv, MemoryTypes, MemoryTypes',
           SaveFreelist \/ SaveMeta \/ \E p \in Page : SaveNode(p)
    PROVE  TypeInv'
<1>1. /\ starts' = starts /\ starts \in 0 .. MaxStarts /\ meta \in MetaType
      /\ fl \in ListType /\ tx \in TxType /\ reply \subseteq Page \X (Node \cup {NoNode})
      /\ MetaPage \in 0 .. MaxPages
    BY Numbers DEF TypeInv, SaveFreelist, SaveMeta, SaveNode
<1>2. CASE SaveFreelist
  <2>1. /\ pc' = "meta" /\ meta' = meta /\ tx' = tx /\ reply' = reply
        /\ \E r \in WritePage(stream, meta.freelistPage, SerializeFreeList(fl')) :
               stream' = r.stream
      BY <1>2 DEF SaveFreelist
  <2>2. fl' \in ListType
      BY <2>1 DEF MemoryTypes
  <2>3. SerializeFreeList(fl') \in [Position -> Byte] /\ meta.freelistPage \in 0 .. MaxPages
      BY <1>1, <2>2, WrittenTypes
  <2>4. stream' \in StreamType
      BY <2>1, <2>3, SaveTypes
  <2> QED BY <1>1, <2>1, <2>4, StepTypes
<1>3. CASE SaveMeta
  <2>1. /\ pc' = "open" /\ reply' = {}
        /\ \E r \in WritePage(stream, MetaPage, SerializeMeta(meta)) : stream' = r.stream
      BY <1>3 DEF SaveMeta
  <2>2. SerializeMeta(meta) \in [Position -> Byte]
      BY <1>1, WrittenTypes
  <2>3. stream' \in StreamType
      BY <1>1, <2>1, <2>2, SaveTypes
  <2> QED BY <1>1, <2>1, <2>3, StepTypes
<1>4. ASSUME NEW p \in Page, SaveNode(p) PROVE TypeInv'
  <2> DEFINE n == tx.dirtyNodes[p]
  <2>1. /\ pc' = "nodes" /\ fl' = fl /\ reply' = reply /\ n # NoNode
        /\ tx' = [tx EXCEPT !.dirtyNodes = [@ EXCEPT ![p] = NoNode]]
        /\ \E r \in WritePage(stream, p, SerializeNode(n)) : stream' = r.stream
      BY <1>4 DEF SaveNode
  <2>2. tx' \in TxType /\ n \in Node
      BY <1>1, <2>1 DEF TxType
  <2> HIDE DEF n
  <2>3. SerializeNode(n) \in [Position -> Byte] /\ p \in 0 .. MaxPages
      BY <2>2, WrittenTypes, Numbers
  <2>4. stream' \in StreamType
      BY <2>1, <2>3, SaveTypes
  <2> QED BY <1>1, <2>1, <2>2, <2>4, StepTypes
<1> QED BY <1>2, <1>3, <1>4

\* A transaction in memory, and the beginning of its end.
LEMMA InMemoryTypes ==
    ASSUME TypeInv, MemoryTypes, MemoryTypes',
           NEW over, NEW n, NEW grown, NEW moved, NEW gone,
           Transact(over, n, grown, moved, gone) \/ BeginCommit \/ BeginRollback
    PROVE  TypeInv'
<1>1. /\ starts' = starts /\ stream' = stream /\ reply' = reply
      /\ pc' \in {"tx", "nodes"}
      /\ pc' = "nodes" => fl' = fl
    BY DEF Transact, BeginCommit, BeginRollback, EndTx
<1>2. pc' = "nodes" => tx' \in TxType
  <2>1. CASE BeginCommit
      BY <2>1 DEF BeginCommit, TypeInv
  <2>2. CASE BeginRollback
    <3>1. tx.allocatedPages \in Seq(Page) /\ NoTx \in TxType
        BY NoTxType DEF TypeInv, TxType
    <3>2. tx' = [NoTx EXCEPT !.release = tx.allocatedPages]
        BY <2>2 DEF BeginRollback
    <3> QED BY <3>1, <3>2 DEF TxType
  <2> QED BY <2>1, <2>2 DEF Transact
<1>3. /\ stream' \in StreamType /\ starts' \in 0 .. MaxStarts /\ fl \in ListType
      /\ reply' \subseteq Page \X (Node \cup {NoNode})
    BY <1>1 DEF TypeInv
<1> QED BY <1>1, <1>2, <1>3, StepTypes

\* Every variable keeps its type.
LEMMA TypeKeeps ==
    ASSUME DocumentedUse, PageFileInv, PageFileInv', MemoryTypes, MemoryTypes',
           TypeInv, [Next]_vars
    PROVE  TypeInv'
<1>1. CASE Create
  <2>1. /\ pc' = "newRoot" /\ stream' = stream /\ base' = base /\ history' = history
        /\ starts < MaxStarts /\ starts' = starts + 1
      BY <1>1 DEF Create
  <2>2. starts' \in 0 .. MaxStarts /\ stream' \in StreamType /\ base' \in 0 .. Len(history')
      BY <2>1, FileAssumption DEF TypeInv
  <2> QED BY <2>1, <2>2, StepTypes
<1>2. CASE CreateRoot \/ CreateMeta \/ CreateFreelist
    BY <1>2, CreateTypes
<1>3. CASE Open
    BY <1>3, OpenedTypes
<1>4. CASE Close \/ Die
  <2>1. Exit(stream) /\ stream \in StreamType /\ starts' \in 0 .. MaxStarts
      BY <1>4 DEF Close, Die, TypeInv
  <2> QED BY <2>1, ExitTypes
<1>5. ASSUME NEW p \in Page, GetNode(p) PROVE TypeInv'
    BY <1>5, GetNodeTypes
<1>6. CASE SaveFreelist \/ SaveMeta \/ \E p \in Page : SaveNode(p)
    BY <1>6, EndingTypes
<1>7. ASSUME NEW over \in SUBSET Page, NEW gone \in SUBSET Page, NEW n \in Node,
             NEW grown \in BOOLEAN, NEW moved \in BOOLEAN,
             Transact(over, n, grown, moved, gone)
      PROVE  TypeInv'
    BY <1>7, InMemoryTypes
<1>8. CASE BeginCommit \/ BeginRollback
    BY <1>8, InMemoryTypes
<1>9. CASE UNCHANGED vars
    BY <1>9 DEF vars, TypeInv
<1> QED BY <1>1, <1>2, <1>3, <1>4, <1>5, <1>6, <1>7, <1>8, <1>9 DEF Next
-----------------------------------------------------------------------------
\* Nothing changes.
LEMMA StutterKeeps ==
    ASSUME PageFileInv, UNCHANGED vars
    PROVE  PageFileInv'
<1>1. UNCHANGED <<pc, starts, exists, stream, fl, meta, tx, reply, base, history>>
    BY DEF vars
<1>2. HistoryInv' /\ StreamInv'
    BY <1>1 DEF PageFileInv, HistoryInv, StreamInv, Saved, Latest
<1>3. MemoryInv'
    BY <1>1 DEF PageFileInv, MemoryInv, TxOn, Latest
<1>4. EndedIsWritten' /\ OpensAsLeft' /\ ReadsAreCurrent'
    BY <1>1 DEF PageFileInv, EndedIsWritten, OpensAsLeft, ReadsAreCurrent
<1> QED BY <1>2, <1>3, <1>4 DEF PageFileInv

\* The invariant holds in every state of the documented use.
THEOREM PageFileIsRight ==
    ASSUME DocumentedUse
    PROVE  Spec => []PageFileInv
<1>1. ASSUME PageFileInv, [Next]_vars PROVE PageFileInv'
  <2>1. CASE Create
      BY <1>1, <2>1, CreateKeeps
  <2>2. CASE CreateRoot
      BY <1>1, <2>2, CreateRootKeeps
  <2>3. CASE CreateMeta
      BY <1>1, <2>3, CreateMetaKeeps
  <2>4. CASE CreateFreelist
      BY <1>1, <2>4, CreateFreelistKeeps
  <2>5. CASE Open
      BY <1>1, <2>5, OpenKeeps
  <2>6. CASE Close \/ Die
      BY <1>1, <2>6, EndKeeps
  <2>7. ASSUME NEW p \in Page, GetNode(p) PROVE PageFileInv'
      BY <1>1, <2>7, GetNodeKeeps
  <2>8. ASSUME NEW p \in Page, SaveNode(p) PROVE PageFileInv'
      BY <1>1, <2>8, SaveNodeKeeps
  <2>9. ASSUME NEW over \in SUBSET Page, NEW gone \in SUBSET Page, NEW n \in Node,
               NEW grown \in BOOLEAN, NEW moved \in BOOLEAN,
               Transact(over, n, grown, moved, gone)
        PROVE  PageFileInv'
      BY <1>1, <2>9, TransactKeeps
  <2>10. CASE BeginCommit
      BY <1>1, <2>10, BeginCommitKeeps
  <2>11. CASE BeginRollback
      BY <1>1, <2>11, BeginRollbackKeeps
  <2>12. CASE SaveFreelist
      BY <1>1, <2>12, SaveFreelistKeeps
  <2>13. CASE SaveMeta
      BY <1>1, <2>13, SaveMetaKeeps
  <2>14. CASE UNCHANGED vars
      BY <1>1, <2>14, StutterKeeps
  <2> QED BY <1>1, <2>1, <2>2, <2>3, <2>4, <2>5, <2>6, <2>7, <2>8, <2>9, <2>10, <2>11,
             <2>12, <2>13, <2>14 DEF Next
<1> QED BY <1>1, Initial, PTL DEF Spec

\* What a commit or a rollback has left is in the file, unless a call has failed
\* that neither of them reports.
THEOREM EndedStaysWritten ==
    ASSUME DocumentedUse
    PROVE  Spec => []EndedIsWritten
<1>1. PageFileInv => EndedIsWritten
    BY DEF PageFileInv
<1> QED BY <1>1, PageFileIsRight, PTL

\* A file none of whose pages is newer than its meta page is the database of the
\* transaction that wrote that page.
THEOREM WholeFilesAreDatabases ==
    ASSUME DocumentedUse
    PROVE  Spec => []WholeFileIsDatabase
<1>1. PageFileInv => WholeFileIsDatabase
  <2> SUFFICES ASSUME PageFileInv, Whole(stream.file)
               PROVE  Holds(stream.file, history[stream.file[1].round])
                      /\ Sound(history[stream.file[1].round])
      BY DEF WholeFileIsDatabase
  <2>1. Databases(history) /\ FileOf(stream.file, history)
      BY DEF PageFileInv, HistoryInv, StreamInv, StreamOf
  <2> QED BY <2>1, WholeHolds
<1> QED BY <1>1, PageFileIsRight, PTL

\* A process starts from what the last one has left.
THEOREM StartsFromWhatWasLeft ==
    ASSUME DocumentedUse
    PROVE  Spec => []OpensAsLeft
<1>1. PageFileInv => OpensAsLeft
    BY DEF PageFileInv
<1> QED BY <1>1, PageFileIsRight, PTL

\* A node that is read is the one that the last transaction has left.
THEOREM ReadsStayCurrent ==
    ASSUME DocumentedUse
    PROVE  Spec => []ReadsAreCurrent
<1>1. PageFileInv => ReadsAreCurrent
    BY DEF PageFileInv
<1> QED BY <1>1, PageFileIsRight, PTL

\* Every variable has its type.
THEOREM TypesHold ==
    ASSUME DocumentedUse
    PROVE  Spec => []TypeOK
<1>1. /\ PageFileInv /\ PageFileInv' /\ MemoryTypes /\ MemoryTypes' /\ TypeInv
      /\ [Next]_vars
      => TypeInv'
    BY TypeKeeps
<1> QED BY <1>1, InitTypes, InvTypes, TypeIs, PageFileIsRight, PTL DEF Spec

\* A node that fits reads back as it was written, of whatever size a page is and
\* however many values a byte has.
THEOREM NodesReadBack == Spec => []NodeRoundTrip
<1>1. NodeRoundTrip
    BY FileAssumption, NodeReads DEF NodeRoundTrip
<1> QED BY <1>1, PTL

\* A number reads back exactly if it is below the sign bit of an int, and a free
\* list of such numbers that fits its page does.
THEOREM NumbersReadBack == Spec => []NumbersRoundTrip
<1>1. ASSUME NEW n \in 0 .. Values[LongSize] - 1 PROVE LongReadsBack(n) <=> LongFits(n)
  <2> DEFINE ws == << <<0, Long(n)>> >>
             g == [k \in 0 .. 0 |-> n]
  <2>1. Values[8] \in Nat /\ n \in Nat /\ n < Values[LongSize]
      BY Widths DEF LongSize
  <2>2. /\ g \in [0 .. 0 -> Nat] /\ DOMAIN ws = 1 .. 1
        /\ Range(ws) = {<<8 * k, Long(g[k])>> : k \in 0 .. 0}
    <3>1. g \in [0 .. 0 -> Nat] /\ g[0] = n /\ DOMAIN ws = 1 .. 1 /\ 0 .. 0 = {0} /\ 8 * 0 = 0
        BY <2>1
    <3>2. Range(ws) = {<<0, Long(n)>>}
        BY DEF Range
    <3> HIDE DEF g, ws
    <3>3. {<<8 * k, Long(g[k])>> : k \in 0 .. 0} = {<<0, Long(n)>>}
        BY <3>1
    <3> QED BY <3>1, <3>2, <3>3
  <2>3. 8 * (0 + 1) <= PageSize
      BY FormatAssumption DEF LongSize
  <2>4. g[0] = n /\ 8 * 0 = 0 /\ 0 \in 0 .. 0
      OBVIOUS
  <2> HIDE DEF ws, g
  <2>5. Bears(Written(ws), 0, Long(n))
      BY <2>2, <2>3, <2>4, LongsWritten
  <2> QED BY <2>1, <2>5, LongRead DEF LongReadsBack, ws
<1>2. ASSUME NEW f, IsFreeList(f), FreeListFits(f) PROVE FreeListReadsBack(f)
  <2>1. /\ f = [maxPage |-> f.maxPage, releasedPages |-> f.releasedPages]
        /\ f.maxPage \in Nat /\ f.releasedPages \in Seq(Nat) /\ LongFits(f.maxPage)
        /\ \A i \in DOMAIN f.releasedPages : LongFits(f.releasedPages[i])
      BY <1>2 DEF IsFreeList
  <2> QED BY <1>2, <2>1, FreeListReads
<1>3. NumbersRoundTrip
    BY <1>1, <1>2, FileAssumption DEF NumbersRoundTrip
<1> QED BY <1>3, PTL
=============================================================================
