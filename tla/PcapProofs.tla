----------------------------- MODULE PcapProofs -----------------------------
(* That tools/export_pcap.py writes streams that reassemble, and that        *)
(* tools/pcap_to_csv.py puts streams together: for any file of rows, any     *)
(* content whose bytes can be told apart, any segmentation and loss, and any *)
(* number of packets.                                                        *)
EXTENDS PcapToCsv, FiniteSetTheorems, SequenceTheorems, WellFoundedInduction, TLAPS

----------------------------------------------------------------------------
(* Least and greatest numbers.                                             *)

LEMMA LeastOf ==
  ASSUME NEW S, S \subseteq Nat, S # {}
  PROVE  \E x \in S : \A y \in S : x <= y
<1>1. PICK x \in S : \A y \in S : ~(<<y, x>> \in OpToRel(<, Nat))
  BY NatLessThanWellFounded, WFMin
<1>2. ASSUME NEW y \in S PROVE x <= y
  <2>1. x \in Nat /\ y \in Nat /\ <<y, x>> \in Nat \X Nat
    OBVIOUS
  <2>2. <<y, x>>[1] = y /\ <<y, x>>[2] = x
    OBVIOUS
  <2>3. <<y, x>> \notin {ss \in Nat \X Nat : ss[1] < ss[2]}
    BY <1>1, Zenon DEF OpToRel
  <2>4. ~(<<y, x>>[1] < <<y, x>>[2])
    BY <2>1, <2>3, Zenon
  <2> QED BY <2>1, <2>2, <2>4
<1> QED BY <1>2

LEMMA GreatestOf ==
  ASSUME NEW n \in Nat, NEW S, S \subseteq 0..n, S # {}
  PROVE  \E x \in S : \A y \in S : x >= y
<1> DEFINE T == {n - y : y \in S}
<1>0. \A y \in S : y \in Nat /\ n - y \in Nat
  OBVIOUS
<1>1. T \subseteq Nat /\ T # {}
  BY <1>0
<1>2. PICK x \in T : \A y \in T : x <= y
  BY <1>1, LeastOf
<1>3. PICK m \in S : x = n - m
  OBVIOUS
<1>4. ASSUME NEW y \in S PROVE m >= y
  <2>1. n - y \in T
    OBVIOUS
  <2>2. x <= n - y
    BY <1>2, <2>1
  <2> QED BY <1>0, <1>3, <2>2
<1> QED BY <1>4

\* Max of FiniteSetsExt.
LEMMA MaxIs ==
  ASSUME NEW S, S \subseteq Nat, NEW x \in S, \A y \in S : x >= y
  PROVE  Max(S) = x
<1>1. Max(S) \in S /\ \A y \in S : Max(S) >= y
  BY Zenon DEF Max
<1>2. Max(S) \in Nat /\ x \in Nat /\ x >= Max(S) /\ Max(S) >= x
  BY <1>1
<1> QED BY <1>2

LEMMA MaxOf ==
  ASSUME NEW n \in Nat, NEW S, S \subseteq 0..n, S # {}
  PROVE  Max(S) \in S /\ \A y \in S : Max(S) >= y
<1>1. \E z \in S : \A y \in S : z >= y
  BY GreatestOf
<1> QED BY <1>1, Zenon DEF Max

\* s[a+1 .. b].
PartOf(s, a, b) == SubSeq(s, a + 1, b)

LEMMA Part ==
  ASSUME NEW S, NEW s \in Seq(S), NEW b \in 0..Len(s), NEW a \in 0..b
  PROVE  /\ PartOf(s, a, b) \in Seq(S) /\ Len(PartOf(s, a, b)) = b - a
         /\ \A i \in 1..b - a : PartOf(s, a, b)[i] = s[a + i]
<1>1. a \in Nat /\ b \in Nat /\ a <= b /\ \A i \in a + 1..b : s[i] \in S
  BY ElementOfSeq
<1> DEFINE m == a + 1
<1>2. m \in Int /\ b \in Int /\ \A i \in m..b : s[i] \in S
  BY <1>1
<1>3. m <= b <=> a + 1 <= b
  OBVIOUS
<1>4. b - m + 1 = b - a /\ \A i \in 1..b - a : m + i - 1 = a + i
  BY <1>1
<1> HIDE DEF m
<1>5. /\ SubSeq(s, m, b) \in Seq(S)
      /\ Len(SubSeq(s, m, b)) = IF m <= b THEN b - m + 1 ELSE 0
      /\ \A i \in 1..b - m + 1 : SubSeq(s, m, b)[i] = s[m + i - 1]
  BY <1>2, SubSeqProperties
<1>6. Len(SubSeq(s, m, b)) = b - a
  BY <1>1, <1>3, <1>4, <1>5
<1> QED BY <1>4, <1>5, <1>6 DEF m, PartOf

LEMMA Joined ==
  ASSUME NEW S, NEW s \in Seq(S), NEW t \in Seq(S)
  PROVE  /\ s \o t \in Seq(S) /\ Len(s \o t) = Len(s) + Len(t)
         /\ Len(s) \in Nat /\ Len(t) \in Nat
         /\ \A i \in 1..Len(s) : (s \o t)[i] = s[i]
         /\ \A i \in 1..Len(t) : (s \o t)[Len(s) + i] = t[i]
OBVIOUS

Alike(s, a, b, t, c, d) ==
  /\ b \in 0..Len(s) /\ a \in 0..b
  /\ d \in 0..Len(t) /\ c \in 0..d
  /\ d - c = b - a /\ \A i \in 1..b - a : s[a + i] = t[c + i]

LEMMA SameParts ==
  ASSUME NEW S, NEW s \in Seq(S), NEW t \in Seq(S), NEW a, NEW b, NEW c, NEW d,
         Alike(s, a, b, t, c, d)
  PROVE  PartOf(s, a, b) = PartOf(t, c, d)
<1> DEFINE x == PartOf(s, a, b)
           y == PartOf(t, c, d)
<1>0. /\ b \in 0..Len(s) /\ a \in 0..b /\ d \in 0..Len(t) /\ c \in 0..d
      /\ d - c = b - a /\ \A i \in 1..b - a : s[a + i] = t[c + i]
  BY DEF Alike
<1>1. x \in Seq(S) /\ Len(x) = b - a /\ \A i \in 1..b - a : x[i] = s[a + i]
  BY <1>0, Part
<1>2. y \in Seq(S) /\ Len(y) = d - c /\ \A i \in 1..d - c : y[i] = t[c + i]
  BY <1>0, Part
<1> HIDE DEF x, y
<1>3. x = y
  BY <1>0, <1>1, <1>2, SeqEqual
<1> QED BY <1>3 DEF x, y

LEMMA SameJoined ==
  ASSUME NEW S, NEW s \in Seq(S), NEW t \in Seq(S), NEW z \in Seq(S),
         Len(z) = Len(s) + Len(t),
         \A k \in 1..Len(s) : z[k] = s[k],
         \A k \in 1..Len(t) : z[Len(s) + k] = t[k]
  PROVE  z = s \o t
<1>1. /\ s \o t \in Seq(S) /\ Len(s \o t) = Len(z) /\ Len(s) \in Nat /\ Len(t) \in Nat
      /\ \A k \in 1..Len(s) : (s \o t)[k] = s[k]
      /\ \A k \in 1..Len(t) : (s \o t)[Len(s) + k] = t[k]
  BY Joined
<1>2. \A k \in 1..Len(z) : (s \o t)[k] = z[k]
  <2> TAKE k \in 1..Len(z)
  <2>1. CASE k <= Len(s)
    <3>1. k \in 1..Len(s)
      BY <1>1, <2>1
    <3> QED BY <1>1, <3>1
  <2>2. CASE k > Len(s)
    <3> DEFINE i == k - Len(s)
    <3>1. i \in 1..Len(t) /\ k = Len(s) + i
      BY <1>1, <2>2
    <3> HIDE DEF i
    <3> QED BY <1>1, <3>1
  <2> QED BY <1>1, <2>1, <2>2
<1> QED BY <1>1, <1>2, SeqEqual

----------------------------------------------------------------------------
(* Remainders.                                                             *)

LEMMA ModRange ==
  ASSUME NEW S \in Nat, S > 1, NEW x \in Int
  PROVE  x % S \in 0..S-1
OBVIOUS

LEMMA DivMod ==
  ASSUME NEW S \in Nat, S > 1, NEW x \in Int
  PROVE  x = S * (x \div S) + (x % S)
OBVIOUS

LEMMA DivInt ==
  ASSUME NEW S \in Nat, S > 1, NEW x \in Int
  PROVE  x \div S \in Int
OBVIOUS

LEMMA DivUnique ==
  ASSUME NEW S \in Nat, S > 1, NEW q \in Int, NEW r \in 0..S-1, NEW p \in Int, NEW t \in 0..S-1, S * q + r = S * p + t
  PROVE  q = p /\ r = t
<1>1. S * (q - p) = t - r
  OBVIOUS
<1>2. CASE q - p >= 1
  <2>1. S * (q - p) >= S 
     BY <1>2
  <2> QED BY <1>1, <2>1
<1>3. CASE q - p <= -1
  <2>1. S * (q - p) <= -S 
     BY <1>3
  <2> QED BY <1>1, <2>1
<1>4. CASE q - p = 0
   BY <1>1, <1>4
<1> QED BY <1>2, <1>3, <1>4

LEMMA ModIs ==
  ASSUME NEW S \in Nat, S > 1, NEW x \in Int, NEW q \in Int, NEW r \in 0..S-1, x = S * q + r
  PROVE  x % S = r
<1>1. x \div S \in Int /\ x % S \in 0..S-1 /\ x = S * (x \div S) + (x % S)
  BY ModRange, DivMod, DivInt
<1>2. S * q + r = S * (x \div S) + (x % S)
  BY <1>1
<1> QED BY <1>1, <1>2, DivUnique

LEMMA ModPlus ==
  ASSUME NEW S \in Nat, S > 1, NEW x \in Int, NEW d \in Int
  PROVE  ((x % S) + d) % S = (x + d) % S
<1> DEFINE q == x \div S
           r == x % S
           p == (r + d) \div S
           t == (r + d) % S
<1>1. q \in Int /\ r \in 0..S-1 /\ x = S * q + r
  BY ModRange, DivMod, DivInt
<1> HIDE DEF q, r
<1>2. p \in Int /\ t \in 0..S-1 /\ r + d = S * p + t
  BY <1>1, ModRange, DivMod, DivInt
<1> HIDE DEF p, t
<1>3. x + d = S * (q + p) + t
  BY <1>1, <1>2
<1> DEFINE y == x + d
           k == q + p
<1>30. y \in Int /\ k \in Int /\ y = S * k + t
  BY <1>1, <1>2, <1>3
<1> HIDE DEF y, k
<1>4. y % S = t
  BY <1>2, <1>30, ModIs
<1> QED BY <1>4 DEF t, r, y

LEMMA ModMinus ==
  ASSUME NEW S \in Nat, S > 1, NEW x \in Int, NEW d \in Int
  PROVE  (d - (x % S)) % S = (d - x) % S
<1> DEFINE q == x \div S
           r == x % S
           p == (d - r) \div S
           t == (d - r) % S
<1>1. q \in Int /\ r \in 0..S-1 /\ x = S * q + r
  BY ModRange, DivMod, DivInt
<1> HIDE DEF q, r
<1>2. p \in Int /\ t \in 0..S-1 /\ d - r = S * p + t
  BY <1>1, ModRange, DivMod, DivInt
<1> HIDE DEF p, t
<1>3. d - x = S * (p - q) + t
  BY <1>1, <1>2
<1> DEFINE y == d - x
           k == p - q
<1>30. y \in Int /\ k \in Int /\ y = S * k + t
  BY <1>1, <1>2, <1>3
<1> HIDE DEF y, k
<1>4. y % S = t
  BY <1>2, <1>30, ModIs
<1> QED BY <1>4 DEF t, r, y

LEMMA ModSmall ==
  ASSUME NEW S \in Nat, S > 1, NEW x \in Int
  PROVE  (x \in 0..S-1 => x % S = x) /\ (x \in -S..-1 => x % S = x + S)
<1>1. ASSUME x \in 0..S-1 PROVE x % S = x
  <2>1. x = S * 0 + x
    OBVIOUS
  <2> QED BY <1>1, <2>1, ModIs
<1>2. ASSUME x \in -S..-1 PROVE x % S = x + S
  <2>1. x = S * (-1) + (x + S) /\ x + S \in 0..S-1 /\ -1 \in Int
    BY <1>2
  <2> HIDE <1>2
  <2> QED BY <2>1, ModIs
<1> QED BY <1>1, <1>2

LEMMA Half ==
  ASSUME NEW S \in Nat, S > 1
  PROVE  2 * (S \div 2) <= S /\ S < 2 * (S \div 2) + 2 /\ S \div 2 \in Nat
OBVIOUS

\* The signed distance of two sequence numbers is that of the bytes they number.
LEMMA Distance ==
  ASSUME NEW x \in Int, NEW y \in Int, 2 * (x - y) < SEQS - 1, 2 * (y - x) <= SEQS
  PROVE  SeqDiff(x % SEQS, y % SEQS) = x - y
<1>1. SEQS \in Nat /\ SEQS > 1
  BY SEQSAssumption
<1> DEFINE a == x % SEQS
           b == y % SEQS
           d == (a - b) % SEQS
<1>2. a \in Int
  BY <1>1, ModRange
<1>3. d = (a - y) % SEQS
  BY <1>1, <1>2, ModMinus
<1>4. (a + (-y)) % SEQS = (x + (-y)) % SEQS
  <2> DEFINE e == -y
  <2>1. e \in Int
    OBVIOUS
  <2> HIDE DEF e
  <2>2. ((x % SEQS) + e) % SEQS = (x + e) % SEQS
    BY <1>1, <2>1, ModPlus
  <2> QED BY <2>2 DEF e
<1>5. a - y = a + (-y) /\ x - y = x + (-y) /\ x - y \in Int
  BY <1>2
<1>6. d = (x - y) % SEQS
  BY <1>3, <1>4, <1>5
<1>7. /\ x - y \in 0..SEQS-1 => d = x - y
      /\ x - y \in -SEQS..-1 => d = (x - y) + SEQS
  BY <1>1, <1>5, <1>6, ModSmall
<1>8. SeqDiff(a, b) = IF d >= SEQS \div 2 THEN d - SEQS ELSE d
  BY DEF SeqDiff
<1> DEFINE h == SEQS \div 2
           z == x - y
<1>9. h \in Nat /\ 2 * h <= SEQS /\ SEQS < 2 * h + 2
  BY <1>1, Half
<1>10. z \in Int /\ 2 * z < SEQS - 1 /\ 2 * (-z) <= SEQS
  OBVIOUS
<1> HIDE DEF h, z, d, a, b
<1>11. (IF d >= h THEN d - SEQS ELSE d) = z
  <2>1. CASE z >= 0
    <3>1. z \in 0..SEQS-1
      BY <1>1, <1>10, <2>1
    <3>2. d = z /\ ~(d >= h)
      BY <1>1, <1>7, <1>9, <1>10, <3>1 DEF z
    <3> QED BY <3>2
  <2>2. CASE z < 0
    <3>1. z \in -SEQS..-1
      BY <1>1, <1>10, <2>2
    <3>2. d = z + SEQS
      BY <1>7, <3>1 DEF z
    <3>3. d >= h /\ d - SEQS = z
      BY <1>1, <1>9, <1>10, <3>2
    <3> QED BY <3>3
  <2> QED BY <1>10, <2>1, <2>2
<1> QED BY <1>8, <1>11 DEF h, z, a, b

----------------------------------------------------------------------------
(* Where a sequence of bytes is cut into frames.                           *)

Step(s, a, b) == IF WholeFrame(s, a, Len(s)) THEN b = a + Total(s, a)
                 ELSE BadHeader(s, a, Len(s)) /\ b = Len(s)

\* c is where s is cut from its first a bytes on.
CutsFrom(s, a, c) ==
  /\ c \in Seq(0..Len(s)) /\ Len(c) >= 1 /\ c[1] = a
  /\ \A k \in 1..Len(c) - 1 : Step(s, c[k], c[k + 1])
  /\ ~Unit(s, c[Len(c)], Len(s))

LEMMA Steps ==
  ASSUME NEW s \in Seq(Nat), NEW a \in 0..Len(s)
  PROVE  /\ Unit(s, a, Len(s)) => \E b \in a+1..Len(s) : Step(s, a, b)
         /\ \A b : Step(s, a, b) => Unit(s, a, Len(s)) /\ b \in a+1..Len(s)
         /\ \A b, c : Step(s, a, b) /\ Step(s, a, c) => b = c
         /\ WholeFrame(s, a, Len(s)) => a + Total(s, a) \in a+1..Len(s)
         /\ BadHeader(s, a, Len(s)) => ~WholeFrame(s, a, Len(s)) /\ a < Len(s)
         /\ ~Unit(s, Len(s), Len(s))
<1>1. HEADER \in Nat /\ HEADER >= 1 /\ LENGTH_AT \in 1..HEADER /\ MIN_LENGTH \in Nat /\ MAX_LENGTH \in Nat /\ MIN_LENGTH >= 2
  BY FramingAssumption
<1>2. ASSUME HasHeader(a, Len(s)) PROVE a < Len(s) /\ s[a + LENGTH_AT] \in Nat
  <2>1. a + LENGTH_AT \in 1..Len(s)
    BY <1>1, <1>2 DEF HasHeader
  <2>2. s[a + LENGTH_AT] \in Nat
    BY <2>1, ElementOfSeq
  <2> QED BY <1>1, <1>2, <2>2 DEF HasHeader
<1>3. ASSUME WholeFrame(s, a, Len(s)) PROVE a + Total(s, a) \in a+1..Len(s)
  <2>1. /\ HasHeader(a, Len(s)) /\ s[a + LENGTH_AT] \in MIN_LENGTH..MAX_LENGTH
        /\ Total(s, a) = HEADER - 1 + s[a + LENGTH_AT] /\ Total(s, a) <= Len(s) - a
    BY <1>3 DEF WholeFrame, Total, ValidLength, LengthField
  <2>2. s[a + LENGTH_AT] \in Nat /\ s[a + LENGTH_AT] >= 2
    BY <1>1, <1>2, <2>1
  <2>3. Total(s, a) \in Nat /\ Total(s, a) >= 2
    <3>1. \A h, x \in Nat : h >= 1 /\ x >= 2 => h - 1 + x \in Nat /\ h - 1 + x >= 2
      OBVIOUS
    <3>2. HEADER - 1 + s[a + LENGTH_AT] \in Nat /\ HEADER - 1 + s[a + LENGTH_AT] >= 2
      BY <1>1, <2>2, <3>1
    <3>3. Total(s, a) = HEADER - 1 + s[a + LENGTH_AT]
      BY <2>1
    <3> QED BY <3>2, <3>3
  <2> QED BY <2>1, <2>3
<1>4. ASSUME BadHeader(s, a, Len(s)) PROVE ~WholeFrame(s, a, Len(s)) /\ Len(s) \in a+1..Len(s)
  BY <1>1, <1>2, <1>4 DEF WholeFrame, BadHeader
<1>5. ~Unit(s, Len(s), Len(s))
  BY <1>1 DEF Unit, WholeFrame, BadHeader, HasHeader
<1>6. Unit(s, a, Len(s)) => \E b \in a+1..Len(s) : Step(s, a, b)
  BY <1>3, <1>4 DEF Unit, Step
<1> QED BY <1>3, <1>4, <1>5, <1>6 DEF Unit, Step

\* The recursive function of Cuts, from its first m bytes on.
CutsOf(f, s, m) ==
  f = [a \in m..Len(s) |-> IF WholeFrame(s, a, Len(s)) THEN <<a>> \o f[a + Total(s, a)]
                           ELSE IF BadHeader(s, a, Len(s)) THEN <<a, Len(s)>>
                           ELSE <<a>>]

LEMMA CutsExist ==
  ASSUME NEW s \in Seq(Nat)
  PROVE  \E f : CutsOf(f, s, 0)
<1> DEFINE n == Len(s)
           bad == {i \in Nat : i <= n + 1 /\ \A f : ~CutsOf(f, s, n + 1 - i)}
<1>0. n \in Nat
  OBVIOUS
<1> SUFFICES ASSUME bad # {} PROVE FALSE
  <2>1. n + 1 \notin bad /\ n + 1 - (n + 1) = 0
    OBVIOUS
  <2> QED BY <1>0, <2>1
<1>1. PICK i \in bad : \A j \in bad : i <= j
  BY LeastOf
<1>2. i # 0
  <2>1. CutsOf([a \in n+1..n |-> <<>>], s, n + 1)
    <3>1. n+1..n = {}
      BY <1>0
    <3> QED BY <3>1 DEF CutsOf
  <2> QED BY <1>0, <1>1, <2>1
<1> DEFINE m == n + 1 - i
<1>3. i \in Nat /\ i >= 1 /\ i <= n + 1 /\ ~(i <= i - 1)
  BY <1>0, <1>1, <1>2
<1>30. m \in 0..n /\ n + 1 - (i - 1) = m + 1 /\ i - 1 \in Nat /\ i - 1 <= n + 1
  BY <1>0, <1>3
<1>31. i - 1 \notin bad
  BY <1>1, <1>3
<1>4. PICK f : CutsOf(f, s, m + 1)
  BY <1>30, <1>31
<1> HIDE DEF m, n
<1> DEFINE first == IF WholeFrame(s, m, n) THEN <<m>> \o f[m + Total(s, m)]
                    ELSE IF BadHeader(s, m, n) THEN <<m, n>> ELSE <<m>>
           h == [a \in m..n |-> IF a = m THEN first ELSE f[a]]
<1>5. \A a \in m..n : h[a] = IF WholeFrame(s, a, n) THEN <<a>> \o h[a + Total(s, a)]
                             ELSE IF BadHeader(s, a, n) THEN <<a, n>> ELSE <<a>>
  <2> TAKE a \in m..n
  <2>1. a \in 0..n /\ m \in 0..n
    BY <1>0, <1>30
  <2>2. WholeFrame(s, a, n) => a + Total(s, a) \in a+1..n
    BY <2>1, Steps DEF n
  <2>3. WholeFrame(s, a, n) => h[a + Total(s, a)] = f[a + Total(s, a)]
    BY <2>1, <2>2
  <2>4. CASE a = m
    BY <2>1, <2>3, <2>4
  <2>5. CASE a # m
    <3>1. a \in m+1..n /\ h[a] = f[a]
      BY <2>1, <2>5
    <3>2. f[a] = IF WholeFrame(s, a, n) THEN <<a>> \o f[a + Total(s, a)]
                 ELSE IF BadHeader(s, a, n) THEN <<a, n>> ELSE <<a>>
      BY <1>4, <3>1 DEF CutsOf, n
    <3> QED BY <2>3, <3>1, <3>2
  <2> QED BY <2>4, <2>5
<1>6. CutsOf(h, s, m)
  <2>1. h = [a \in m..n |-> h[a]]
    OBVIOUS
  <2> HIDE DEF h
  <2> QED BY <1>5, <2>1 DEF CutsOf, n
<1> QED BY <1>1, <1>6 DEF m, n

LEMMA CutsAre ==
  ASSUME NEW s \in Seq(Nat)
  PROVE  CutsFrom(s, 0, Cuts(s))
<1> DEFINE n == Len(s)
           f == CHOOSE f : f = [a \in 0..n |->
                  IF WholeFrame(s, a, n) THEN <<a>> \o f[a + Total(s, a)]
                  ELSE IF BadHeader(s, a, n) THEN <<a, n>> ELSE <<a>>]
           bad == {a \in 0..n : ~CutsFrom(s, a, f[a])}
<1>1. CutsOf(f, s, 0)
  BY CutsExist, Zenon DEF CutsOf
<1>2. Cuts(s) = f[0]
  BY DEF Cuts
<1> HIDE DEF f
<1>3. n \in Nat /\ 0 \in 0..n
  OBVIOUS
<1>4. ASSUME bad # {} PROVE FALSE
  <2>1. PICK a \in bad : \A b \in bad : a >= b
    BY <1>3, <1>4, GreatestOf
  <2>2. a \in 0..n /\ ~CutsFrom(s, a, f[a])
    OBVIOUS
  <2>3. f[a] = IF WholeFrame(s, a, n) THEN <<a>> \o f[a + Total(s, a)]
               ELSE IF BadHeader(s, a, n) THEN <<a, n>> ELSE <<a>>
    BY <1>1, <2>2 DEF CutsOf
  <2>4. CASE WholeFrame(s, a, n)
    <3> DEFINE b == a + Total(s, a)
               c == f[b]
    <3>1. b \in a+1..n
      BY <2>2, <2>4, Steps
    <3>2. b \in 0..n /\ ~(a >= b)
      BY <1>3, <2>2, <3>1
    <3>3. CutsFrom(s, b, c)
      BY <2>1, <3>2
    <3>4. f[a] = <<a>> \o c
      BY <2>3, <2>4
    <3>40. Step(s, a, b)
      BY <2>4 DEF Step
    <3> HIDE DEF b, c
    <3>5. c \in Seq(0..n) /\ <<a>> \in Seq(0..n) /\ Len(c) \in Nat /\ Len(c) >= 1
      BY <2>2, <3>3 DEF CutsFrom
    <3>6. /\ <<a>> \o c \in Seq(0..n) /\ Len(<<a>> \o c) = Len(c) + 1
          /\ (<<a>> \o c)[1] = a
          /\ \A k \in 1..Len(c) : (<<a>> \o c)[k + 1] = c[k]
      BY <3>5
    <3>7. \A k \in 1..Len(c) : Step(s, (<<a>> \o c)[k], (<<a>> \o c)[k + 1])
      <4> TAKE k \in 1..Len(c)
      <4>1. CASE k = 1
        BY <3>3, <3>40, <3>5, <3>6, <4>1 DEF CutsFrom
      <4>2. CASE k # 1
        <5>1. k - 1 \in 1..Len(c) - 1 /\ k - 1 \in 1..Len(c) /\ (k - 1) + 1 = k
          BY <3>5, <4>2
        <5>2. Step(s, c[k - 1], c[(k - 1) + 1])
          BY <3>3, <5>1 DEF CutsFrom
        <5>3. (<<a>> \o c)[(k - 1) + 1] = c[k - 1] /\ (<<a>> \o c)[k + 1] = c[k]
          BY <3>6, <5>1
        <5> QED BY <5>1, <5>2, <5>3
      <4> QED BY <4>1, <4>2
    <3>8. ~Unit(s, c[Len(c)], n)
      BY <3>3 DEF CutsFrom
    <3>9. (<<a>> \o c)[Len(c) + 1] = c[Len(c)]
      BY <3>5, <3>6
    <3>10. CutsFrom(s, a, <<a>> \o c)
      BY <3>5, <3>6, <3>7, <3>8, <3>9 DEF CutsFrom
    <3> QED BY <2>2, <3>4, <3>10
  <2>5. CASE ~WholeFrame(s, a, n) /\ BadHeader(s, a, n)
    <3>1. f[a] = <<a, n>>
      BY <2>3, <2>5
    <3>2. CutsFrom(s, a, <<a, n>>)
      <4>1. <<a, n>> \in Seq(0..n) /\ Len(<<a, n>>) = 2 /\ <<a, n>>[1] = a /\ <<a, n>>[2] = n
        BY <1>3, <2>2
      <4>2. Step(s, a, n) /\ ~Unit(s, n, n)
        BY <2>2, <2>5, Steps DEF Step
      <4>3. \A k \in 1..Len(<<a, n>>) - 1 : k = 1
        BY <4>1
      <4> HIDE DEF n
      <4> QED BY <4>1, <4>2, <4>3 DEF CutsFrom, n
    <3> QED BY <2>2, <3>1, <3>2
  <2>6. CASE ~WholeFrame(s, a, n) /\ ~BadHeader(s, a, n)
    <3>1. f[a] = <<a>>
      BY <2>3, <2>6
    <3>2. CutsFrom(s, a, <<a>>)
      <4>1. <<a>> \in Seq(0..n) /\ Len(<<a>>) = 1 /\ <<a>>[1] = a /\ ~Unit(s, a, n)
        BY <2>2, <2>6 DEF Unit
      <4> QED BY <4>1 DEF CutsFrom
    <3> QED BY <2>2, <3>1, <3>2
  <2> QED BY <2>4, <2>5, <2>6
<1> QED BY <1>2, <1>3, <1>4

\* Two ways to cut are one: at the least place where they part, both go on alike.
LEMMA CutsAgree ==
  ASSUME NEW s \in Seq(Nat), NEW a, NEW c, NEW d, CutsFrom(s, a, c), CutsFrom(s, a, d)
  PROVE  c = d
<1>0. c \in Seq(0..Len(s)) /\ d \in Seq(0..Len(s)) /\ Len(c) \in Nat \ {0} /\ Len(d) \in Nat \ {0}
  BY DEF CutsFrom
<1> DEFINE bad == {k \in 1..Len(c) : k > Len(d) \/ c[k] # d[k]}
<1>1. bad = {}
  <2> SUFFICES ASSUME bad # {} PROVE FALSE
    OBVIOUS
  <2>1. PICK k \in bad : \A j \in bad : k <= j
    <3>1. bad \subseteq Nat
      OBVIOUS
    <3> QED BY <3>1, LeastOf
  <2>2. k # 1
    BY <1>0, <2>1 DEF CutsFrom
  <2>3. k - 1 \in 1..Len(c) - 1 /\ k - 1 \in 1..Len(c) /\ k - 1 \notin bad /\ (k - 1) + 1 = k
    BY <1>0, <2>1, <2>2, SMTT(30)
  <2>4. k - 1 <= Len(d) /\ c[k - 1] = d[k - 1] /\ c[k - 1] \in 0..Len(s)
    <3>1. c[k - 1] \in 0..Len(s)
      BY <1>0, <2>3, ElementOfSeq
    <3>2. ~(k - 1 > Len(d)) /\ c[k - 1] = d[k - 1]
      BY <2>3
    <3> QED BY <1>0, <2>3, <3>1, <3>2
  <2>5. Step(s, c[k - 1], c[k])
    BY <2>3 DEF CutsFrom
  <2>6. Unit(s, c[k - 1], Len(s))
    BY <2>4, <2>5, Steps
  <2>7. k - 1 # Len(d)
    BY <2>4, <2>6 DEF CutsFrom
  <2>8. k - 1 \in 1..Len(d) - 1
    BY <1>0, <2>3, <2>4, <2>7
  <2>9. Step(s, d[k - 1], d[k])
    BY <2>3, <2>8 DEF CutsFrom
  <2>10. c[k] = d[k]
    BY <2>4, <2>5, <2>9, Steps
  <2> QED BY <1>0, <2>1, <2>8, <2>10
<1>2. \A k \in 1..Len(c) : k <= Len(d) /\ c[k] = d[k]
  <2> TAKE k \in 1..Len(c)
  <2>1. ~(k > Len(d)) /\ c[k] = d[k]
    BY <1>1
  <2> QED BY <1>0, <2>1
<1>20. Len(c) \in 1..Len(c)
  BY <1>0
<1>3. Len(c) = Len(d)
  <2> SUFFICES ASSUME Len(c) < Len(d) PROVE FALSE
    <3>1. Len(c) <= Len(d)
      BY <1>2, <1>20
    <3> QED BY <1>0, <3>1
  <2>1. Len(c) \in 1..Len(d) - 1 /\ c[Len(c)] = d[Len(c)] /\ c[Len(c)] \in 0..Len(s)
    BY <1>0, <1>2, ElementOfSeq
  <2>2. Step(s, d[Len(c)], d[Len(c) + 1])
    BY <2>1 DEF CutsFrom
  <2> QED BY <2>1, <2>2, Steps DEF CutsFrom
<1> QED BY <1>0, <1>2, <1>3, SeqEqual

LEMMA CutsRise ==
  ASSUME NEW s \in Seq(Nat), NEW c, CutsFrom(s, 0, c)
  PROVE  /\ Len(c) \in Nat \ {0} /\ \A k \in 1..Len(c) : c[k] \in 0..Len(s)
         /\ \A j, k \in 1..Len(c) : j < k => c[j] < c[k]
         /\ \A x \in 1..c[Len(c)] : \E k \in 1..Len(c) - 1 : c[k] < x /\ x <= c[k + 1]
<1>0. c \in Seq(0..Len(s)) /\ Len(c) \in Nat \ {0} /\ c[1] = 0
  BY DEF CutsFrom
<1>1. \A k \in 1..Len(c) : c[k] \in 0..Len(s)
  BY <1>0, ElementOfSeq
<1>2. \A k \in 1..Len(c) - 1 : c[k] < c[k + 1]
  <2> TAKE k \in 1..Len(c) - 1
  <2>1. k \in 1..Len(c) /\ c[k] \in 0..Len(s)
    BY <1>0, <1>1
  <2>2. Step(s, c[k], c[k + 1])
    BY DEF CutsFrom
  <2>3. c[k + 1] \in c[k]+1..Len(s)
    BY <2>1, <2>2, Steps
  <2> QED BY <2>1, <2>3
<1>3. ASSUME NEW j \in 1..Len(c), NEW i \in 1..Len(c), j < i PROVE c[j] < c[i]
  <2> DEFINE bad == {k \in 1..Len(c) : j < k /\ ~(c[j] < c[k])}
  <2> SUFFICES ASSUME bad # {} PROVE FALSE
    BY <1>3
  <2>1. PICK k \in bad : \A l \in bad : k <= l
    <3>1. bad \subseteq Nat
      OBVIOUS
    <3> QED BY <3>1, LeastOf
  <2>2. k - 1 \in 1..Len(c) - 1 /\ k - 1 \in 1..Len(c) /\ k - 1 \notin bad /\ (k - 1) + 1 = k
    BY <1>0, <2>1
  <2>3. c[k - 1] < c[k]
    BY <1>2, <2>2
  <2>4. c[j] \in Nat /\ c[k] \in Nat /\ c[k - 1] \in Nat
    BY <1>1, <2>2
  <2>5. CASE k - 1 = j
    BY <2>1, <2>3, <2>5
  <2>6. CASE k - 1 # j
    <3>1. j < k - 1
      BY <2>1, <2>2, <2>6
    <3>2. c[j] < c[k - 1]
      BY <2>2, <3>1
    <3> QED BY <2>1, <2>3, <2>4, <3>2
  <2> QED BY <2>5, <2>6
<1>4. ASSUME NEW x \in 1..c[Len(c)] PROVE \E k \in 1..Len(c) - 1 : c[k] < x /\ x <= c[k + 1]
  <2> DEFINE above == {k \in 1..Len(c) : x <= c[k]}
  <2>1. Len(c) \in above /\ above \subseteq Nat /\ x \in Nat
    BY <1>0, <1>1
  <2>2. PICK k \in above : \A l \in above : k <= l
    BY <2>1, LeastOf
  <2>3. k # 1
    BY <1>0, <2>1, <2>2
  <2>4. k - 1 \in 1..Len(c) - 1 /\ k - 1 \in 1..Len(c) /\ k - 1 \notin above /\ (k - 1) + 1 = k
    BY <1>0, <2>2, <2>3
  <2>5. c[k - 1] < x
    BY <1>1, <2>1, <2>4
  <2> QED BY <2>2, <2>4, <2>5
<1> QED BY <1>0, <1>1, <1>3, <1>4

\* What iter_frames yields, by the cuts.
FramesAt(s, c, taken, frames) ==
  /\ CutsFrom(s, 0, c)
  /\ Len(c) \in Nat \ {0} /\ \A k \in 1..Len(c) : c[k] \in 0..Len(s)
  /\ taken = c[Len(c)] /\ taken \in 0..Len(s)
  /\ frames \in Seq(Seq(Nat)) /\ Len(frames) = Len(c) - 1
  /\ \A k \in 1..Len(c) - 1 : c[k] < c[k + 1] /\ frames[k] = PartOf(s, c[k], c[k + 1])

LEMMA Frames ==
  ASSUME NEW s \in Seq(Nat)
  PROVE  FramesAt(s, Cuts(s), Taken(s), iter_frames(s))
<1> DEFINE c == Cuts(s)
<1>1. CutsFrom(s, 0, c)
  BY CutsAre
<1>2. /\ Len(c) \in Nat \ {0} /\ \A k \in 1..Len(c) : c[k] \in 0..Len(s)
      /\ \A j, k \in 1..Len(c) : j < k => c[j] < c[k]
  BY <1>1, CutsRise
<1>3. iter_frames(s) = [k \in 1..Len(c) - 1 |-> PartOf(s, c[k], c[k + 1])]
  BY DEF iter_frames, PartOf
<1>4. Taken(s) = c[Len(c)]
  BY DEF Taken
<1> HIDE DEF c
<1>5. Len(c) \in 1..Len(c) /\ Len(c) - 1 \in Nat
  BY <1>2
<1>6. \A k \in 1..Len(c) - 1 : k \in 1..Len(c) /\ k + 1 \in 1..Len(c) /\ k < k + 1
  BY <1>2
<1>7. \A k \in 1..Len(c) - 1 : c[k] < c[k + 1] /\ PartOf(s, c[k], c[k + 1]) \in Seq(Nat)
  <2> TAKE k \in 1..Len(c) - 1
  <2>1. c[k] \in 0..Len(s) /\ c[k + 1] \in 0..Len(s) /\ c[k] < c[k + 1]
    BY <1>2, <1>6
  <2>2. c[k] \in 0..c[k + 1]
    BY <2>1
  <2>3. PartOf(s, c[k], c[k + 1]) \in Seq(Nat)
    BY <2>1, <2>2, Part
  <2> QED BY <2>1, <2>3
<1>8. iter_frames(s) \in Seq(Seq(Nat)) /\ Len(iter_frames(s)) = Len(c) - 1
  BY <1>3, <1>5, <1>7
<1>9. \A k \in 1..Len(c) - 1 : iter_frames(s)[k] = PartOf(s, c[k], c[k + 1])
  BY <1>3
<1>10. Taken(s) \in 0..Len(s)
  BY <1>2, <1>4, <1>5
<1> QED BY <1>1, <1>2, <1>4, <1>7, <1>8, <1>9, <1>10 DEF c, FramesAt

\* No impossible length field was met.
Clean(s) == \A k \in 1..Len(Cuts(s)) : ~BadHeader(s, Cuts(s)[k], Len(s))
Rest(s) == PartOf(s, Taken(s), Len(s))

LEMMA RestIs ==
  ASSUME NEW s \in Seq(Nat)
  PROVE  /\ Rest(s) \in Seq(Nat) /\ Len(Rest(s)) = Len(s) - Taken(s)
         /\ \A i \in 1..Len(s) - Taken(s) : Rest(s)[i] = s[Taken(s) + i]
<1>1. Taken(s) \in 0..Len(s) /\ Len(s) \in 0..Len(s) /\ Taken(s) \in Nat
  BY Frames DEF FramesAt
<1> HIDE DEF Taken
<1> QED BY <1>1, Part DEF Rest

\* From what was taken of s on, s \o p is what is left of s and p.
LEMMA RestAndMore ==
  ASSUME NEW s \in Seq(Nat), NEW p \in Seq(Nat)
  PROVE  LET t == Taken(s)
             u == Rest(s) \o p
             v == s \o p
         IN  /\ u \in Seq(Nat) /\ v \in Seq(Nat) /\ Len(s) \in Nat /\ t \in 0..Len(s) /\ t \in Nat
             /\ Len(u) \in Nat /\ Len(v) \in Nat /\ Len(v) = t + Len(u) /\ Len(s) <= Len(v)
             /\ \A i \in 1..Len(s) : v[i] = s[i]
             /\ \A i \in 1..Len(u) : v[t + i] = u[i]
<1> DEFINE t == Taken(s)
           r == Rest(s)
           u == r \o p
           v == s \o p
<1>1. t \in 0..Len(s)
  BY Frames DEF FramesAt
<1>2. r \in Seq(Nat) /\ Len(r) = Len(s) - t /\ \A i \in 1..Len(s) - t : r[i] = s[t + i]
  BY RestIs
<1> HIDE DEF t, r
<1>3. /\ u \in Seq(Nat) /\ v \in Seq(Nat) /\ Len(s) \in Nat /\ Len(p) \in Nat /\ t \in Nat
      /\ Len(u) \in Nat /\ Len(v) = t + Len(u) /\ Len(v) = Len(s) + Len(p) /\ Len(s) <= Len(v)
  <2>1. u \in Seq(Nat) /\ Len(u) = Len(r) + Len(p) /\ Len(r) \in Nat /\ Len(p) \in Nat
    BY <1>2, Joined
  <2>2. v \in Seq(Nat) /\ Len(v) = Len(s) + Len(p) /\ Len(s) \in Nat
    BY Joined
  <2>3. t \in Nat /\ t <= Len(s) /\ Len(r) = Len(s) - t
    BY <1>1, <1>2
  <2> HIDE DEF u, v
  <2> QED BY <2>1, <2>2, <2>3
<1>4. \A i \in 1..Len(s) : v[i] = s[i]
  BY Joined
<1>5. \A i \in 1..Len(u) : v[t + i] = u[i]
  <2> TAKE i \in 1..Len(u)
  <2>0. /\ t \in Nat /\ t <= Len(s) /\ Len(r) = Len(s) - t /\ Len(r) \in Nat /\ i \in Nat /\ i >= 1
        /\ Len(u) = Len(r) + Len(p)
    <3>1. Len(u) = Len(r) + Len(p) /\ Len(r) \in Nat
      BY <1>2, Joined
    <3> QED BY <1>1, <1>2, <1>3, <3>1
  <2> HIDE DEF u, v
  <2>1. CASE i <= Len(r)
    <3>1. i \in 1..Len(r) /\ t + i \in 1..Len(s) /\ i \in 1..Len(s) - t
      BY <1>3, <2>0, <2>1
    <3>2. u[i] = r[i]
      BY <1>2, <3>1, Joined DEF u
    <3>3. v[t + i] = s[t + i]
      BY <1>4, <3>1
    <3> QED BY <1>2, <3>1, <3>2, <3>3
  <2>2. CASE i > Len(r)
    <3> DEFINE j == i - Len(r)
    <3>1. j \in 1..Len(p) /\ i = Len(r) + j /\ t + i = Len(s) + j
      BY <1>3, <2>0, <2>2
    <3> HIDE DEF j
    <3>2. u[Len(r) + j] = p[j]
      BY <1>2, <3>1, Joined, SMTT(30) DEF u
    <3>3. v[Len(s) + j] = p[j]
      BY <3>1, Joined DEF v
    <3> QED BY <3>1, <3>2, <3>3
  <2> QED BY <2>0, <2>1, <2>2
<1> HIDE DEF u, v
<1>6. Len(v) \in Nat
  BY <1>3
<1> QED BY <1>1, <1>3, <1>4, <1>5, <1>6 DEF t, u, v, r

\* What is cut of s when p follows: the cuts of s, and those of what s left and p.
LEMMA CutsOfMore ==
  ASSUME NEW s \in Seq(Nat), NEW p \in Seq(Nat), Clean(s)
  PROVE  LET c == Cuts(s)
             d == Cuts(Rest(s) \o p)
         IN Cuts(s \o p) = c \o [k \in 1..Len(d) - 1 |-> Taken(s) + d[k + 1]]
<1> DEFINE c == Cuts(s)
           t == Taken(s)
           r == Rest(s)
           u == r \o p
           v == s \o p
           d == Cuts(u)
           e == [k \in 1..Len(d) - 1 |-> t + d[k + 1]]
<1>1. /\ CutsFrom(s, 0, c) /\ Len(c) \in Nat \ {0} /\ t = c[Len(c)] /\ t \in 0..Len(s)
      /\ \A k \in 1..Len(c) : c[k] \in 0..Len(s)
  BY Frames DEF FramesAt
<1>20. \A k \in 1..Len(c) : ~BadHeader(s, c[k], Len(s))
  BY DEF Clean
<1>3. /\ u \in Seq(Nat) /\ v \in Seq(Nat) /\ Len(s) \in Nat /\ t \in Nat
      /\ Len(u) \in Nat /\ Len(v) \in Nat /\ Len(v) = t + Len(u) /\ Len(s) <= Len(v)
      /\ \A i \in 1..Len(s) : v[i] = s[i]
      /\ \A i \in 1..Len(u) : v[t + i] = u[i]
  BY RestAndMore
<1>4. \A i \in 1..Len(s) : v[i] = s[i]
  BY <1>3
<1>5. \A i \in 1..Len(u) : v[t + i] = u[i]
  BY <1>3
<1>6. /\ CutsFrom(u, 0, d) /\ Len(d) \in Nat \ {0}
      /\ \A k \in 1..Len(d) : d[k] \in 0..Len(u)
  BY <1>3, Frames DEF FramesAt
<1> HIDE DEF d, u, v, t, r, c
<1>7. HEADER \in Nat /\ LENGTH_AT \in 1..HEADER /\ MIN_LENGTH \in Nat /\ MAX_LENGTH \in Nat
  BY FramingAssumption
\* A whole frame of s is one of s \o p.
<1>8. ASSUME NEW k \in 1..Len(c) - 1 PROVE Step(v, c[k], c[k + 1])
  <2>1. k \in 1..Len(c) /\ c[k] \in 0..Len(s)
    BY <1>1
  <2>2. Step(s, c[k], c[k + 1]) /\ ~BadHeader(s, c[k], Len(s))
    BY <1>1, <1>20, <2>1 DEF CutsFrom
  <2>3. WholeFrame(s, c[k], Len(s)) /\ c[k + 1] = c[k] + Total(s, c[k])
    BY <2>2 DEF Step
  <2>4. c[k] + LENGTH_AT \in 1..Len(s)
    <3>1. Len(s) - c[k] >= HEADER
      BY <2>3 DEF WholeFrame, HasHeader
    <3>2. \A x, l, h \in Nat : \A a \in 1..h : l - x >= h => x + a \in 1..l
      OBVIOUS
    <3>3. c[k] \in Nat /\ Len(s) \in Nat /\ HEADER \in Nat /\ LENGTH_AT \in 1..HEADER
      BY <1>3, <1>7, <2>1
    <3> QED BY <3>1, <3>2, <3>3
  <2>5. v[c[k] + LENGTH_AT] = s[c[k] + LENGTH_AT]
    BY <1>4, <2>4
  <2>6. /\ ValidLength(v, c[k]) = ValidLength(s, c[k])
        /\ Total(v, c[k]) = Total(s, c[k])
    BY <2>5 DEF ValidLength, LengthField, Total
  <2>7. Total(s, c[k]) \in Nat
    <3>1. c[k] + Total(s, c[k]) \in c[k]+1..Len(s)
      BY <2>1, <2>3, Steps
    <3>2. s[c[k] + LENGTH_AT] \in Nat
      BY <2>4, ElementOfSeq
    <3>3. Total(s, c[k]) \in Int
      BY <1>7, <3>2 DEF Total, LengthField
    <3> QED BY <2>1, <3>1, <3>3
  <2>8. WholeFrame(v, c[k], Len(v))
    <3>1. Len(s) - c[k] >= HEADER /\ ValidLength(s, c[k]) /\ Total(s, c[k]) <= Len(s) - c[k]
      BY <2>3 DEF WholeFrame, HasHeader
    <3> HIDE DEF Total
    <3>2. Len(v) - c[k] >= HEADER /\ Total(s, c[k]) <= Len(v) - c[k]
      <4>1. \A x, y, z, l, m \in Int : l <= m /\ y - x >= z => (l = y => m - x >= z)
        OBVIOUS
      <4>2. c[k] \in Int /\ Len(v) \in Int /\ Len(s) \in Int /\ HEADER \in Int /\ Total(s, c[k]) \in Int
        BY <1>3, <1>7, <2>1, <2>7
      <4> QED BY <1>3, <3>1, <4>1, <4>2
    <3> QED BY <2>6, <3>1, <3>2 DEF WholeFrame, HasHeader
  <2> QED BY <2>3, <2>6, <2>8 DEF Step
\* From there on, s \o p is u.
<1>9. ASSUME NEW a \in 0..Len(u)
      PROVE  /\ WholeFrame(v, t + a, Len(v)) <=> WholeFrame(u, a, Len(u))
             /\ BadHeader(v, t + a, Len(v)) <=> BadHeader(u, a, Len(u))
             /\ \A b : Step(u, a, b) => Step(v, t + a, t + b)
             /\ Unit(v, t + a, Len(v)) <=> Unit(u, a, Len(u))
  <2>1. Len(v) - (t + a) = Len(u) - a
    BY <1>3
  <2>2. HasHeader(t + a, Len(v)) <=> HasHeader(a, Len(u))
    BY <2>1 DEF HasHeader
  <2>3. CASE ~HasHeader(a, Len(u))
    BY <2>2, <2>3 DEF WholeFrame, BadHeader, Step, Unit
  <2>4. CASE HasHeader(a, Len(u))
    <3>1. a + LENGTH_AT \in 1..Len(u) /\ t + (a + LENGTH_AT) = (t + a) + LENGTH_AT
      BY <1>3, <1>7, <2>4 DEF HasHeader
    <3>2. v[(t + a) + LENGTH_AT] = u[a + LENGTH_AT] /\ u[a + LENGTH_AT] \in Nat
      BY <1>3, <1>5, <3>1, ElementOfSeq
    <3>3. ValidLength(v, t + a) = ValidLength(u, a) /\ Total(v, t + a) = Total(u, a)
      BY <3>2 DEF ValidLength, LengthField, Total
    <3>4. Total(u, a) \in Int
      BY <1>7, <3>2 DEF Total, LengthField
    <3>5. /\ WholeFrame(v, t + a, Len(v)) <=> WholeFrame(u, a, Len(u))
          /\ BadHeader(v, t + a, Len(v)) <=> BadHeader(u, a, Len(u))
      BY <2>1, <2>2, <3>3 DEF WholeFrame, BadHeader
    <3>6. ASSUME NEW b, Step(u, a, b) PROVE Step(v, t + a, t + b)
      <4>1. CASE WholeFrame(u, a, Len(u))
        <5>1. b = a + Total(u, a) /\ t + b = (t + a) + Total(v, t + a)
          BY <1>3, <3>3, <3>4, <3>6, <4>1 DEF Step
        <5> QED BY <3>5, <4>1, <5>1 DEF Step
      <4>2. CASE ~WholeFrame(u, a, Len(u))
        BY <1>3, <3>5, <3>6, <4>2 DEF Step
      <4> QED BY <4>1, <4>2
    <3> QED BY <3>5, <3>6 DEF Unit
  <2> QED BY <2>3, <2>4
<1>10. /\ c \in Seq(0..Len(v)) /\ e \in Seq(0..Len(v)) /\ Len(e) = Len(d) - 1
       /\ \A k \in 1..Len(e) : e[k] = t + d[k + 1]
  <2>1. 0..Len(s) \subseteq 0..Len(v) /\ c \in Seq(0..Len(s))
    BY <1>1, <1>3 DEF CutsFrom
  <2>2. c \in Seq(0..Len(v))
    BY <2>1, SeqMonotonic
  <2>3. Len(d) - 1 \in Nat /\ \A k \in 1..Len(d) - 1 : t + d[k + 1] \in 0..Len(v)
    <3>1. \A k \in 1..Len(d) - 1 : k + 1 \in 1..Len(d)
      BY <1>6
    <3> QED BY <1>3, <1>6, <3>1
  <2> QED BY <2>2, <2>3
<1>11. \A k \in 1..Len(e) : k + 1 \in 1..Len(d) /\ k + 1 <= Len(d)
  BY <1>6, <1>10
<1> DEFINE w == c \o e
<1> HIDE DEF e
<1>12. /\ w \in Seq(0..Len(v)) /\ Len(w) = Len(c) + Len(e) /\ Len(e) \in Nat
       /\ \A k \in 1..Len(c) : w[k] = c[k]
       /\ \A k \in 1..Len(e) : w[Len(c) + k] = e[k]
  <2> DEFINE S == 0..Len(v)
  <2>1. c \in Seq(S) /\ e \in Seq(S)
    BY <1>10
  <2> HIDE DEF S
  <2>2. /\ w \in Seq(S) /\ Len(w) = Len(c) + Len(e) /\ Len(e) \in Nat
        /\ \A k \in 1..Len(c) : w[k] = c[k]
        /\ \A k \in 1..Len(e) : w[Len(c) + k] = e[k]
    BY <2>1, Joined
  <2> QED BY <2>2 DEF S
<1>13. \A k \in 1..Len(d) : w[Len(c) + k - 1] = t + d[k]
  <2> TAKE k \in 1..Len(d)
  <2>1. CASE k = 1
    <3>1. Len(c) + k - 1 = Len(c) /\ Len(c) \in 1..Len(c) /\ d[k] = 0 /\ t + 0 = t
      BY <1>1, <1>3, <1>6, <2>1 DEF CutsFrom
    <3> QED BY <1>1, <1>12, <3>1
  <2>2. CASE k # 1
    <3>1. k - 1 \in 1..Len(e) /\ (k - 1) + 1 = k /\ Len(c) + k - 1 = Len(c) + (k - 1)
      BY <1>1, <1>6, <1>10, <2>2
    <3> QED BY <1>10, <1>12, <3>1
  <2> QED BY <2>1, <2>2
<1> HIDE DEF w
<1>14. ASSUME NEW k \in 1..Len(w) - 1 PROVE Step(v, w[k], w[k + 1])
  <2>1. CASE k < Len(c)
    <3>1. k \in 1..Len(c) - 1 /\ k \in 1..Len(c) /\ k + 1 \in 1..Len(c)
      BY <1>1, <2>1
    <3> QED BY <1>8, <1>12, <3>1
  <2>2. CASE k >= Len(c)
    <3> DEFINE j == k - Len(c) + 1
    <3>0. /\ Len(w) = Len(c) + (Len(d) - 1) /\ Len(c) \in Nat /\ Len(d) \in Nat
          /\ k \in Nat /\ k <= Len(w) - 1
      BY <1>1, <1>6, <1>10, <1>12
    <3>1. /\ j \in 1..Len(d) - 1 /\ j \in 1..Len(d) /\ j + 1 \in 1..Len(d)
          /\ Len(c) + j - 1 = k /\ Len(c) + (j + 1) - 1 = k + 1
      BY <2>2, <3>0
    <3> HIDE DEF j
    <3>2. Step(u, d[j], d[j + 1]) /\ d[j] \in 0..Len(u)
      BY <1>6, <3>1 DEF CutsFrom
    <3>3. Step(v, t + d[j], t + d[j + 1])
      BY <1>9, <3>2
    <3>4. w[k] = t + d[j] /\ w[k + 1] = t + d[j + 1]
      BY <1>13, <3>1
    <3> QED BY <3>3, <3>4
  <2> QED BY <1>1, <2>1, <2>2
<1>15. ~Unit(v, w[Len(w)], Len(v))
  <2>1. Len(d) \in 1..Len(d) /\ Len(c) + Len(d) - 1 = Len(w)
    BY <1>1, <1>6, <1>10, <1>12
  <2>2. w[Len(w)] = t + d[Len(d)]
    BY <1>13, <2>1
  <2>3. d[Len(d)] \in 0..Len(u) /\ ~Unit(u, d[Len(d)], Len(u))
    BY <1>6, <2>1 DEF CutsFrom
  <2> QED BY <1>9, <2>2, <2>3
<1>16. w[1] = 0 /\ Len(w) >= 1
  <2>1. c[1] = 0 /\ 1 \in 1..Len(c) /\ Len(w) >= Len(c)
    BY <1>1, <1>12 DEF CutsFrom
  <2> QED BY <1>1, <1>12, <2>1
<1>17. CutsFrom(v, 0, w)
  BY <1>12, <1>14, <1>15, <1>16 DEF CutsFrom
<1>18. CutsFrom(v, 0, Cuts(v))
  BY <1>3, CutsAre
<1>19. Cuts(v) = w
  BY <1>3, <1>17, <1>18, CutsAgree
<1> QED BY <1>19 DEF w, v, u, r, c, d, e, t

LEMMA Shifted ==
  ASSUME NEW t \in Nat, NEW m \in Nat, NEW e0 \in 0..m, NEW e1 \in 0..m, e0 < e1
  PROVE  /\ e0 \in 0..e1 /\ (t + e0) \in 0..t + e1 /\ (t + e1) \in 0..t + m
         /\ (t + e1) - (t + e0) = e1 - e0
         /\ \A i \in 1..e1 - e0 : e0 + i \in 1..m /\ t + (e0 + i) = (t + e0) + i
OBVIOUS

\* Frames that are cut of s \o p: those of s, then those of what s left and p.
LEMMA FramesOfMore ==
  ASSUME NEW s \in Seq(Nat), NEW p \in Seq(Nat), Clean(s)
  PROVE  /\ iter_frames(s \o p) = iter_frames(s) \o iter_frames(Rest(s) \o p)
         /\ Taken(s \o p) = Taken(s) + Taken(Rest(s) \o p)
<1> DEFINE c == Cuts(s)
           t == Taken(s)
           u == Rest(s) \o p
           v == s \o p
           d == Cuts(u)
           e == [k \in 1..Len(d) - 1 |-> t + d[k + 1]]
           w == Cuts(v)
           x == iter_frames(s)
           y == iter_frames(u)
           z == iter_frames(v)
           tu == Taken(u)
           tv == Taken(v)
<1>1. /\ u \in Seq(Nat) /\ v \in Seq(Nat) /\ Len(s) \in Nat /\ t \in 0..Len(s) /\ t \in Nat
      /\ Len(u) \in Nat /\ Len(v) \in Nat /\ Len(v) = t + Len(u) /\ Len(s) <= Len(v)
      /\ \A i \in 1..Len(s) : v[i] = s[i]
      /\ \A i \in 1..Len(u) : v[t + i] = u[i]
  BY RestAndMore
<1>3. w = c \o e
  BY CutsOfMore
<1>4. FramesAt(s, c, t, x)
  BY Frames
<1>5. FramesAt(u, d, tu, y)
  BY <1>1, Frames
<1>6. FramesAt(v, w, tv, z)
  BY <1>1, Frames
<1>c. /\ CutsFrom(s, 0, c) /\ Len(c) \in Nat \ {0} /\ t = c[Len(c)]
      /\ \A k \in 1..Len(c) : c[k] \in 0..Len(s)
      /\ x \in Seq(Seq(Nat)) /\ Len(x) = Len(c) - 1
      /\ \A k \in 1..Len(c) - 1 : c[k] < c[k + 1] /\ x[k] = PartOf(s, c[k], c[k + 1])
  BY <1>4, Zenon DEF FramesAt
<1>d. /\ CutsFrom(u, 0, d) /\ Len(d) \in Nat \ {0} /\ tu = d[Len(d)]
      /\ \A k \in 1..Len(d) : d[k] \in 0..Len(u)
      /\ y \in Seq(Seq(Nat)) /\ Len(y) = Len(d) - 1
      /\ \A k \in 1..Len(d) - 1 : d[k] < d[k + 1] /\ y[k] = PartOf(u, d[k], d[k + 1])
  BY <1>5, Zenon DEF FramesAt
<1>w. /\ tv = w[Len(w)]
      /\ z \in Seq(Seq(Nat)) /\ Len(z) = Len(w) - 1
      /\ \A k \in 1..Len(w) - 1 : z[k] = PartOf(v, w[k], w[k + 1])
  BY <1>6, Zenon DEF FramesAt
<1> HIDE DEF c, d, t, u, v, w, x, y, z, tu, tv
<1>7. /\ c \in Seq(Nat) /\ e \in Seq(Nat) /\ Len(e) = Len(d) - 1
      /\ \A k \in 1..Len(e) : e[k] = t + d[k + 1]
  <2>2. c \in Seq(0..Len(s))
    BY <1>c DEF CutsFrom
  <2>3. 0..Len(s) \subseteq Nat
    BY <1>1
  <2>4. c \in Seq(Nat)
    BY <2>2, <2>3, SeqMonotonic
  <2>5. Len(d) - 1 \in Nat /\ \A k \in 1..Len(d) - 1 : t + d[k + 1] \in Nat
    <3>0. Len(d) \in Nat /\ Len(d) >= 1
      BY <1>d
    <3>1. \A k \in 1..Len(d) - 1 : k + 1 \in 1..Len(d)
      BY <3>0
    <3>2. \A k \in 1..Len(d) : d[k] \in Nat
      BY <1>1, <1>d
    <3> QED BY <1>1, <3>0, <3>1, <3>2
  <2> QED BY <2>4, <2>5
<1> HIDE DEF e
<1>8. /\ Len(w) = Len(c) + Len(e) /\ Len(e) \in Nat
      /\ \A k \in 1..Len(c) : w[k] = c[k]
      /\ \A k \in 1..Len(e) : w[Len(c) + k] = e[k]
  <2>1. c \in Seq(Nat) /\ e \in Seq(Nat)
    BY <1>7
  <2> QED BY <1>3, <2>1, Joined
<1>9. /\ Len(c) \in Nat /\ Len(c) >= 1 /\ Len(d) \in Nat /\ Len(d) >= 1 /\ Len(e) = Len(d) - 1
      /\ Len(w) = Len(c) + (Len(d) - 1)
  BY <1>c, <1>d, <1>7, <1>8
\* Every cut of u is one of v.
<1>90. \A k \in 1..Len(d) : w[Len(c) - 1 + k] = t + d[k]
  <2> TAKE k \in 1..Len(d)
  <2>1. CASE k = 1
    <3>1. Len(c) - 1 + k = Len(c) /\ Len(c) \in 1..Len(c)
      BY <1>9, <2>1
    <3>2. d[k] = 0 /\ t + 0 = t
      BY <1>1, <1>d, <2>1 DEF CutsFrom
    <3> QED BY <1>c, <1>8, <3>1, <3>2
  <2>2. CASE k # 1
    <3>1. k - 1 \in 1..Len(e) /\ Len(c) - 1 + k = Len(c) + (k - 1) /\ (k - 1) + 1 = k
      BY <1>9, <2>2
    <3> QED BY <1>7, <1>8, <3>1
  <2> QED BY <2>1, <2>2
<1>10. tv = t + tu
  <2>1. Len(c) - 1 + Len(d) = Len(w) /\ Len(d) \in 1..Len(d)
    BY <1>9
  <2> QED BY <1>90, <1>d, <1>w, <2>1
\* The parts between two cuts.
<1>11. ASSUME NEW k \in 1..Len(c) - 1 PROVE z[k] = x[k]
  <2>1. k \in 1..Len(c) /\ k + 1 \in 1..Len(c) /\ k \in 1..Len(w) - 1
    BY <1>9
  <2>2. w[k] = c[k] /\ w[k + 1] = c[k + 1]
    BY <1>8, <2>1
  <2> DEFINE a == c[k]
             b == c[k + 1]
  <2>3. a \in 0..Len(s) /\ b \in 0..Len(s) /\ a < b
    BY <1>c, <2>1
  <2>30. z[k] = PartOf(v, a, b) /\ x[k] = PartOf(s, a, b)
    BY <1>c, <1>w, <2>1, <2>2
  <2> HIDE DEF a, b
  <2>31. /\ a \in 0..b /\ b \in 0..Len(v) /\ b - a = b - a
         /\ \A i \in 1..b - a : a + i \in 1..Len(s)
    <3>2. Len(s) \in Nat /\ Len(v) \in Nat /\ Len(s) <= Len(v)
      BY <1>1
    <3> QED BY <2>3, <3>2
  <2>4. \A i \in 1..b - a : v[a + i] = s[a + i]
    BY <1>1, <2>31
  <2>40. v \in Seq(Nat) /\ s \in Seq(Nat)
    BY <1>1
  <2>41. Alike(v, a, b, s, a, b)
    BY <2>3, <2>31, <2>4 DEF Alike
  <2>5. PartOf(v, a, b) = PartOf(s, a, b)
    BY <2>40, <2>41, SameParts
  <2> QED BY <2>30, <2>5
<1>12. ASSUME NEW k \in 1..Len(d) - 1 PROVE z[Len(x) + k] = y[k]
  <2> DEFINE j == Len(c) - 1 + k
             a == t + d[k]
             b == t + d[k + 1]
  <2>1. /\ k \in 1..Len(d) /\ k + 1 \in 1..Len(d) /\ j \in 1..Len(w) - 1
        /\ Len(c) - 1 + (k + 1) = j + 1
    BY <1>9
  <2>2. w[j] = a /\ w[j + 1] = b
    BY <1>90, <2>1
  <2>20. j = Len(x) + k
    BY <1>c
  <2>3. /\ d[k] \in 0..d[k + 1] /\ d[k + 1] \in 0..Len(u)
        /\ a \in 0..b /\ b \in 0..Len(v) /\ b - a = d[k + 1] - d[k]
        /\ \A i \in 1..b - a : d[k] + i \in 1..Len(u) /\ t + (d[k] + i) = a + i
    <3>1. d[k] \in 0..Len(u) /\ d[k + 1] \in 0..Len(u) /\ d[k] < d[k + 1]
      BY <1>d, <2>1
    <3>2. Len(u) \in Nat /\ Len(v) = t + Len(u) /\ t \in Nat
      BY <1>1
    <3> DEFINE m == Len(u)
               e0 == d[k]
               e1 == d[k + 1]
    <3>3. /\ m \in Nat /\ e0 \in 0..m /\ e1 \in 0..m /\ e0 < e1 /\ t \in Nat
          /\ a = t + e0 /\ b = t + e1 /\ Len(v) = t + m
      BY <3>1, <3>2
    <3> HIDE DEF m, e0, e1, a, b, j
    <3>4. /\ e0 \in 0..e1 /\ (t + e0) \in 0..t + e1 /\ (t + e1) \in 0..t + m
          /\ (t + e1) - (t + e0) = e1 - e0
          /\ \A i \in 1..e1 - e0 : e0 + i \in 1..m /\ t + (e0 + i) = (t + e0) + i
      BY <3>3, Shifted
    <3> QED BY <3>3, <3>4, Zenon DEF m, e0, e1
  <2>6. z[j] = PartOf(v, a, b) /\ y[k] = PartOf(u, d[k], d[k + 1])
    BY <1>d, <1>w, <2>1, <2>2
  <2> DEFINE e0 == d[k]
             e1 == d[k + 1]
  <2> HIDE DEF j, a, b, e0, e1
  <2>4. \A i \in 1..b - a : v[a + i] = u[d[k] + i]
    BY <1>1, <2>3
  <2>40. v \in Seq(Nat) /\ u \in Seq(Nat)
    BY <1>1
  <2>41. /\ e0 \in 0..e1 /\ e1 \in 0..Len(u) /\ e1 - e0 = b - a
         /\ \A i \in 1..b - a : v[a + i] = u[e0 + i]
    BY <2>3, <2>4 DEF e0, e1
  <2>42. Alike(v, a, b, u, e0, e1)
    BY <2>3, <2>41 DEF Alike
  <2>5. PartOf(v, a, b) = PartOf(u, e0, e1)
    BY <2>40, <2>42, SameParts
  <2> QED BY <2>20, <2>5, <2>6 DEF e0, e1
<1>13. z = x \o y
  <2>1. /\ x \in Seq(Seq(Nat)) /\ y \in Seq(Seq(Nat)) /\ z \in Seq(Seq(Nat))
        /\ Len(x) = Len(c) - 1 /\ Len(y) = Len(d) - 1 /\ Len(z) = Len(x) + Len(y)
    BY <1>c, <1>d, <1>w, <1>9
  <2>2. /\ \A k \in 1..Len(x) : z[k] = x[k]
        /\ \A k \in 1..Len(y) : z[Len(x) + k] = y[k]
    BY <1>11, <1>12, <2>1
  <2> DEFINE S == Seq(Nat)
  <2>3. x \in Seq(S) /\ y \in Seq(S) /\ z \in Seq(S)
    BY <2>1
  <2> HIDE DEF S
  <2> QED BY <2>1, <2>2, <2>3, SameJoined
<1> QED BY <1>10, <1>13 DEF v, u, t, tu, tv, x, y, z

\* What a sequence is cut into begins with what its beginning is cut into.
LEMMA CleanBeginning ==
  ASSUME NEW s \in Seq(Nat), NEW m \in 0..Len(s), Clean(s)
  PROVE  Clean(PartOf(s, 0, m))
<1> DEFINE p == PartOf(s, 0, m)
           c == Cuts(p)
           d == Cuts(s)
<1>1. p \in Seq(Nat) /\ Len(p) = m /\ \A i \in 1..m : p[i] = s[i]
  <2>1. 0 \in 0..m /\ m - 0 = m /\ \A i \in 1..m : 0 + i = i
    OBVIOUS
  <2>2. p \in Seq(Nat) /\ Len(p) = m - 0 /\ \A i \in 1..m - 0 : p[i] = s[0 + i]
    BY <2>1, Part
  <2> HIDE DEF p
  <2> QED BY <2>1, <2>2
<1>2. /\ CutsFrom(p, 0, c) /\ Len(c) \in Nat \ {0}
      /\ \A k \in 1..Len(c) : c[k] \in 0..Len(p)
  BY <1>1, Frames DEF FramesAt
<1>3. /\ CutsFrom(s, 0, d) /\ Len(d) \in Nat \ {0}
      /\ \A k \in 1..Len(d) : d[k] \in 0..Len(s)
  BY Frames DEF FramesAt
<1>4. \A k \in 1..Len(d) : ~BadHeader(s, d[k], Len(s))
  BY DEF Clean
<1>5. Len(s) \in Nat /\ m \in Nat /\ m <= Len(s) /\ Len(p) = m
  BY <1>1
<1> HIDE DEF c, d, p
<1>6. HEADER \in Nat /\ LENGTH_AT \in 1..HEADER /\ MIN_LENGTH \in Nat /\ MAX_LENGTH \in Nat
  BY FramingAssumption
<1>7. ASSUME NEW a \in 0..m
      PROVE  /\ BadHeader(p, a, m) => BadHeader(s, a, Len(s))
             /\ WholeFrame(p, a, m) => WholeFrame(s, a, Len(s)) /\ Total(s, a) = Total(p, a)
  <2>1. SUFFICES ASSUME HasHeader(a, m)
                 PROVE  /\ BadHeader(p, a, m) => BadHeader(s, a, Len(s))
                        /\ WholeFrame(p, a, m) => WholeFrame(s, a, Len(s)) /\ Total(s, a) = Total(p, a)
    BY DEF BadHeader, WholeFrame
  <2>2. \A x, l, h \in Nat : \A i \in 1..h : l - x >= h => x + i \in 1..l
    OBVIOUS
  <2>3. a + LENGTH_AT \in 1..m
    <3>1. a \in Nat /\ m - a >= HEADER
      BY <1>5, <2>1 DEF HasHeader
    <3> QED BY <1>5, <1>6, <2>2, <3>1
  <2>4. p[a + LENGTH_AT] = s[a + LENGTH_AT] /\ p[a + LENGTH_AT] \in Nat
    <3>1. p[a + LENGTH_AT] = s[a + LENGTH_AT]
      BY <1>1, <2>3
    <3>2. p[a + LENGTH_AT] \in Nat
      BY <1>1, <2>3, ElementOfSeq
    <3> QED BY <3>1, <3>2
  <2>5. ValidLength(s, a) = ValidLength(p, a) /\ Total(s, a) = Total(p, a)
    BY <2>4 DEF ValidLength, LengthField, Total
  <2>6. HasHeader(a, Len(s))
    BY <1>5, <1>6, <2>1 DEF HasHeader
  <2>7. Total(p, a) \in Int
    BY <1>6, <2>4 DEF Total, LengthField
  <2>8. Total(p, a) <= m - a => Total(p, a) <= Len(s) - a
    BY <1>5, <2>7
  <2> QED BY <2>1, <2>5, <2>6, <2>8 DEF BadHeader, WholeFrame
<1> DEFINE Same(k) == k <= Len(d) /\ c[k] = d[k]
           bad == {k \in 1..Len(c) : ~Same(k)}
<1>8. bad = {}
  <2> SUFFICES ASSUME bad # {} PROVE FALSE
    OBVIOUS
  <2>1. PICK k \in bad : \A j \in bad : k <= j
    <3>1. bad \subseteq Nat
      OBVIOUS
    <3> QED BY <3>1, LeastOf
  <2>2. k # 1
    BY <1>2, <1>3, <2>1 DEF CutsFrom
  <2>30. k \in 1..Len(c) /\ Len(c) \in Nat
    BY <1>2
  <2>3. k - 1 \in 1..Len(c) - 1 /\ k - 1 \in 1..Len(c) /\ ~(k <= k - 1) /\ (k - 1) + 1 = k
    BY <2>2, <2>30
  <2>4. Same(k - 1)
    BY <2>1, <2>3
  <2>5. k - 1 <= Len(d) /\ c[k - 1] = d[k - 1] /\ c[k - 1] \in 0..m /\ k - 1 \in 1..Len(d)
    BY <1>2, <1>3, <1>5, <2>3, <2>4
  <2>6. Step(p, c[k - 1], c[k])
    BY <1>2, <2>3 DEF CutsFrom
  <2>7. ~BadHeader(s, c[k - 1], Len(s))
    BY <1>4, <2>5
  <2>8. WholeFrame(p, c[k - 1], m) /\ c[k] = c[k - 1] + Total(p, c[k - 1])
    BY <1>5, <1>7, <2>5, <2>6, <2>7 DEF Step
  <2>9. WholeFrame(s, d[k - 1], Len(s)) /\ c[k] = d[k - 1] + Total(s, d[k - 1])
    BY <1>7, <2>5, <2>8
  <2>10. k - 1 # Len(d)
    BY <1>3, <2>9 DEF CutsFrom, Unit
  <2>11. k - 1 \in 1..Len(d) - 1
    BY <1>3, <2>5, <2>10
  <2>12. Step(s, d[k - 1], d[k])
    BY <1>3, <2>3, <2>11 DEF CutsFrom
  <2>13. d[k] = c[k]
    BY <2>9, <2>12 DEF Step
  <2>14. k <= Len(d)
    BY <1>3, <2>1, <2>11
  <2> QED BY <2>1, <2>13, <2>14
<1>9. ASSUME NEW k \in 1..Len(c) PROVE ~BadHeader(p, c[k], Len(p))
  <2>1. Same(k)
    BY <1>8
  <2>2. k \in 1..Len(d) /\ c[k] = d[k] /\ c[k] \in 0..m
    BY <1>2, <1>3, <1>5, <2>1
  <2> QED BY <1>4, <1>5, <1>7, <2>2
<1> QED BY <1>9 DEF Clean, p, c

----------------------------------------------------------------------------
(* list.sort by time.                                                      *)

\* The order the sort leaves elements in: by time, and ties as they were.
Before(s, i, k) ==
  \/ s[i].wall_time < s[k].wall_time
  \/ s[i].wall_time = s[k].wall_time /\ i < k

\* The m-th element of the sorted sequence was at p[m].
Sorts(s, S, p) ==
  /\ p \in [1..Cardinality(S) -> S]
  /\ SortedByTime(s, S) = [m \in 1..Cardinality(S) |-> s[p[m]]]
  /\ \A k \in S : \E m \in 1..Cardinality(S) : p[m] = k
  /\ \A a, b \in 1..Cardinality(S) : a < b => Before(s, p[a], p[b])

LEMMA Sorted ==
  ASSUME NEW s, NEW n \in Nat, NEW S, S \subseteq 1..n, \A k \in S : s[k].wall_time \in Int
  PROVE  /\ IsFiniteSet(S) /\ Cardinality(S) \in Nat /\ Cardinality(S) <= n
         /\ \E p : Sorts(s, S, p)
<1> DEFINE UpTo(k) == {j \in S : \/ s[j].wall_time < s[k].wall_time
                                 \/ s[j].wall_time = s[k].wall_time /\ j <= k}
           rank == [k \in S |-> Cardinality(UpTo(k))]
           N == Cardinality(S)
           p == [m \in 1..N |-> CHOOSE k \in S : rank[k] = m]
<1>1. \A k \in S : k \in Nat
  OBVIOUS
<1>2. IsFiniteSet(1..n) /\ Cardinality(1..n) = n
  BY FS_Interval
<1>3. IsFiniteSet(S) /\ N \in Nat /\ N <= n
  BY <1>2, FS_Subset, FS_CardinalityType
<1>4. SortedByTime(s, S) = [m \in 1..N |-> s[CHOOSE k \in S : rank[k] = m]]
  BY DEF SortedByTime
<1>5. \A k \in S : IsFiniteSet(UpTo(k)) /\ UpTo(k) \subseteq S /\ k \in UpTo(k)
  <2> TAKE k \in S
  <2>1. UpTo(k) \subseteq S /\ k \in UpTo(k)
    BY <1>1
  <2> HIDE DEF UpTo
  <2> QED BY <1>3, <2>1, FS_Subset
<1>6. \A k \in S : Cardinality(UpTo(k)) \in 1..N
  <2> TAKE k \in S
  <2> DEFINE U == UpTo(k)
  <2>1. IsFiniteSet(U) /\ U \subseteq S /\ k \in U
    BY <1>5
  <2> HIDE DEF U
  <2>2. Cardinality(U) \in Nat /\ Cardinality(U) <= N
    BY <1>3, <2>1, FS_Subset, FS_CardinalityType
  <2>3. Cardinality(U) # 0
    BY <2>1, FS_EmptySet
  <2>4. Cardinality(U) \in 1..N
    BY <1>3, <2>2, <2>3
  <2> QED BY <2>4 DEF U
<1>7. \A i, k \in S : Before(s, i, k) => rank[i] < rank[k]
  <2> SUFFICES ASSUME NEW i \in S, NEW k \in S, Before(s, i, k) PROVE rank[i] < rank[k]
    OBVIOUS
  <2> DEFINE U == UpTo(i)
             V == UpTo(k)
  <2>0. s[i].wall_time \in Int /\ s[k].wall_time \in Int /\ i \in Nat /\ k \in Nat
    BY <1>1
  <2>1. U \subseteq V /\ k \notin U
    <3>1. ASSUME NEW j \in U PROVE j \in V
      <4>1. j \in Nat /\ s[j].wall_time \in Int
        BY <1>1
      <4> QED BY <2>0, <4>1 DEF Before
    <3>2. k \notin U
      BY <2>0 DEF Before
    <3> QED BY <3>1, <3>2
  <2>2. IsFiniteSet(U) /\ IsFiniteSet(V) /\ k \in V
    BY <1>5
  <2>3. rank[i] = Cardinality(U) /\ rank[k] = Cardinality(V)
    OBVIOUS
  <2> HIDE DEF U, V, rank
  <2>4. /\ Cardinality(U) \in Nat /\ Cardinality(V) \in Nat
        /\ Cardinality(U) <= Cardinality(V) /\ Cardinality(U) # Cardinality(V)
    BY <2>1, <2>2, FS_Subset, FS_CardinalityType
  <2> QED BY <2>3, <2>4
<1>8. \A i, k \in S : Before(s, i, k) \/ Before(s, k, i) \/ i = k
  BY <1>1 DEF Before
<1>9. rank \in [S -> 1..N]
  BY <1>6
<1>10. \A m \in 1..N : p[m] = CHOOSE k \in S : rank[k] = m
  OBVIOUS
<1>11. SortedByTime(s, S) = [m \in 1..N |-> s[p[m]]]
  BY <1>4
<1> HIDE DEF rank, UpTo
<1>12. \A i, k \in S : rank[i] = rank[k] => i = k
  <2> SUFFICES ASSUME NEW i \in S, NEW k \in S, rank[i] = rank[k], i # k PROVE FALSE
    OBVIOUS
  <2>1. rank[i] \in Nat /\ rank[k] \in Nat
    BY <1>3, <1>9
  <2> QED BY <1>7, <1>8, <2>1
<1>13. rank \in Injection(S, 1..N)
  BY <1>9, <1>12 DEF Injection, IsInjective
<1>14. IsFiniteSet(1..N) /\ Cardinality(1..N) = Cardinality(S)
  BY <1>3, FS_Interval
<1>15. \A m \in 1..N : \E k \in S : rank[k] = m
  <2> DEFINE T == 1..N
  <2>1. IsFiniteSet(S) /\ IsFiniteSet(T) /\ rank \in Injection(S, T) /\ Cardinality(S) = Cardinality(T)
    BY <1>3, <1>13, <1>14
  <2>2. T = 1..N
    OBVIOUS
  <2> HIDE DEF T, N
  <2>3. rank \in Surjection(S, T)
    BY <2>1, FS_Injection
  <2>4. \A m \in T : \E k \in S : rank[k] = m
    BY <2>3 DEF Surjection
  <2> QED BY <2>2, <2>4
<1>16. \A m \in 1..N : p[m] \in S /\ rank[p[m]] = m
  BY <1>10, <1>15
<1>17. p \in [1..N -> S]
  BY <1>16
<1> HIDE DEF p
<1>18. \A k \in S : \E m \in 1..N : p[m] = k
  BY <1>9, <1>12, <1>16
<1>19. ASSUME NEW a \in 1..N, NEW b \in 1..N, a < b PROVE Before(s, p[a], p[b])
  <2>1. p[a] # p[b]
    BY <1>16, <1>19
  <2>2. ~Before(s, p[b], p[a])
    <3>1. rank[p[a]] = a /\ rank[p[b]] = b /\ p[a] \in S /\ p[b] \in S /\ ~(b < a)
      BY <1>3, <1>16, <1>19
    <3> QED BY <1>7, <3>1
  <2> QED BY <1>8, <1>16, <2>1, <2>2
<1>20. Sorts(s, S, p)
  BY <1>11, <1>17, <1>18, <1>19 DEF Sorts
<1> QED BY <1>3, <1>20

\* A numbering of 1..n that rises is 1, 2, ... n.
LEMMA Identity ==
  ASSUME NEW n \in Nat, NEW p \in [1..n -> 1..n],
         \A a, b \in 1..n : a < b => p[a] < p[b],
         \A k \in 1..n : \E m \in 1..n : p[m] = k
  PROVE  \A m \in 1..n : p[m] = m
<1> DEFINE bad == {m \in 1..n : p[m] # m}
<1> SUFFICES ASSUME bad # {} PROVE FALSE
  OBVIOUS
<1>1. PICK m \in bad : \A k \in bad : m <= k
  <2>1. bad \subseteq Nat
    OBVIOUS
  <2> QED BY <2>1, LeastOf
<1>2. PICK j \in 1..n : p[j] = m
  BY <1>1
<1>3. \A k \in 1..n : k < m => p[k] = k
  BY <1>1
<1>4. ~(j < m) /\ j # m
  BY <1>1, <1>2, <1>3
<1>5. m \in 1..n /\ m < j
  BY <1>4
<1>6. p[m] < m
  BY <1>2, <1>5
<1>7. p[m] \in 1..n /\ p[p[m]] = p[m]
  BY <1>3, <1>5, <1>6
<1>8. p[p[m]] < p[m]
  BY <1>5, <1>6, <1>7
<1> QED BY <1>7, <1>8

\* Elements in the order of their times stay where they are.
LEMMA SortedAlready ==
  ASSUME NEW s, NEW n \in Nat, \A k \in 1..n : s[k].wall_time \in Int,
         \A j, k \in 1..n : j < k => s[j].wall_time <= s[k].wall_time
  PROVE  SortedByTime(s, 1..n) = [k \in 1..n |-> s[k]]
<1> DEFINE S == 1..n
<1>1. S \subseteq 1..n /\ \A k \in S : s[k].wall_time \in Int
  OBVIOUS
<1>2. Cardinality(S) = n
  BY FS_Interval
<1>20. S = 1..n
  OBVIOUS
<1> HIDE DEF S
<1>3. PICK p : Sorts(s, S, p)
  BY <1>1, Sorted
<1>4. /\ p \in [1..n -> 1..n]
      /\ SortedByTime(s, S) = [m \in 1..n |-> s[p[m]]]
      /\ \A k \in 1..n : \E m \in 1..n : p[m] = k
      /\ \A a, b \in 1..n : a < b => Before(s, p[a], p[b])
  BY <1>2, <1>20, <1>3 DEF Sorts
<1>5. ASSUME NEW a \in 1..n, NEW b \in 1..n, a < b PROVE p[a] < p[b]
  <2>1. p[a] \in 1..n /\ p[b] \in 1..n /\ Before(s, p[a], p[b])
    BY <1>4, <1>5
  <2>2. s[p[a]].wall_time \in Int /\ s[p[b]].wall_time \in Int
    BY <2>1
  <2>3. p[b] < p[a] => s[p[b]].wall_time <= s[p[a]].wall_time
    BY <2>1
  <2>4. p[a] = p[b] => ~Before(s, p[a], p[b])
    BY <2>1, <2>2 DEF Before
  <2> QED BY <2>1, <2>2, <2>3, <2>4 DEF Before
<1>6. \A m \in 1..n : p[m] = m
  BY <1>4, <1>5, Identity
<1>7. \A m \in 1..n : s[p[m]] = s[m]
  BY <1>6
<1> QED BY <1>4, <1>7, <1>20

----------------------------------------------------------------------------
(* Pieces of the sniffed content.                                          *)

\* A piece is Content[StartOf+1 .. EndOf].
StartOf(raw) == Place(raw[1]) - 1
EndOf(raw) == StartOf(raw) + Len(raw)
IsPiece(raw) ==
  /\ raw \in Seq(Nat) /\ StartOf(raw) \in Nat /\ Len(raw) >= 1 /\ EndOf(raw) <= Len(Content)
  /\ \A i \in 1..Len(raw) : Place(raw[i]) = StartOf(raw) + i

LEMMA PieceOf ==
  ASSUME NEW l \in 0..Len(Content), NEW f \in 0..l
  PROVE  LET raw == PartOf(Content, f, l) IN
         /\ raw \in Seq(Nat) /\ Len(raw) = l - f
         /\ Places(raw) = f+1..l
         /\ f < l => IsPiece(raw) /\ StartOf(raw) = f /\ EndOf(raw) = l
<1> DEFINE raw == PartOf(Content, f, l)
<1>0. Content \in Seq(Nat) /\ IsInjective(Content)
  BY ContentAssumption
<1>1. raw \in Seq(Nat) /\ Len(raw) = l - f /\ \A i \in 1..l - f : raw[i] = Content[f + i]
  BY <1>0, Part
<1>2. ASSUME NEW n \in 1..Len(Content) PROVE Place(Content[n]) = n
  <2>1. DOMAIN Content = 1..Len(Content)
    BY <1>0
  <2>2. \A m \in 1..Len(Content) : Content[m] = Content[n] => m = n
    BY <1>0, <2>1 DEF IsInjective
  <2> QED BY <2>2 DEF Place
<1>3. \A i \in 1..l - f : f + i \in 1..Len(Content)
  BY <1>0
<1> HIDE DEF raw
<1>4. \A i \in 1..l - f : Place(raw[i]) = f + i
  BY <1>1, <1>2, <1>3
<1>5. Places(raw) = f+1..l
  <2>1. Places(raw) = {f + i : i \in 1..l - f}
    BY <1>1, <1>4 DEF Places
  <2>2. \A n \in f+1..l : n - f \in 1..l - f /\ n = f + (n - f)
    OBVIOUS
  <2>3. \A i \in 1..l - f : f + i \in f+1..l
    OBVIOUS
  <2> QED BY <2>1, <2>2, <2>3
<1>6. ASSUME f < l PROVE IsPiece(raw) /\ StartOf(raw) = f /\ EndOf(raw) = l
  <2>1. 1 \in 1..l - f
    BY <1>6
  <2>2. StartOf(raw) = f
    BY <1>4, <2>1 DEF StartOf
  <2>3. EndOf(raw) = l /\ Len(raw) >= 1 /\ l <= Len(Content) /\ f \in Nat
    BY <1>0, <1>1, <1>6, <2>2 DEF EndOf
  <2> QED BY <1>1, <1>4, <2>2, <2>3 DEF IsPiece
<1> QED BY <1>1, <1>5, <1>6 DEF raw

\* A part of a part, and two parts that meet.
LEMMA PartOfPart ==
  ASSUME NEW s \in Seq(Nat), NEW l \in 0..Len(s), NEW f \in 0..l,
         NEW b \in 0..l - f, NEW a \in 0..b
  PROVE  PartOf(PartOf(s, f, l), a, b) = PartOf(s, f + a, f + b)
<1> DEFINE t == PartOf(s, f, l)
           c == f + a
           d == f + b
<1>1. t \in Seq(Nat) /\ Len(t) = l - f /\ \A i \in 1..l - f : t[i] = s[f + i]
  BY Part
<1>2. /\ c \in 0..d /\ d \in 0..Len(s) /\ d - c = b - a /\ b \in 0..Len(t) /\ a \in 0..b
      /\ \A i \in 1..b - a : a + i \in 1..l - f /\ f + (a + i) = c + i
  BY <1>1
<1>3. \A i \in 1..b - a : t[a + i] = s[c + i]
  BY <1>1, <1>2
<1> HIDE DEF t, c, d
<1>4. Alike(t, a, b, s, c, d)
  BY <1>2, <1>3 DEF Alike
<1>5. PartOf(t, a, b) = PartOf(s, c, d)
  BY <1>1, <1>4, SameParts
<1> QED BY <1>5 DEF t, c, d

LEMMA PartsMeet ==
  ASSUME NEW s \in Seq(Nat), NEW c \in 0..Len(s), NEW b \in 0..c, NEW a \in 0..b
  PROVE  PartOf(s, a, b) \o PartOf(s, b, c) = PartOf(s, a, c)
<1> DEFINE x == PartOf(s, a, b)
           y == PartOf(s, b, c)
           z == PartOf(s, a, c)
<1>1. b \in 0..Len(s) /\ a \in 0..c
  OBVIOUS
<1>2. x \in Seq(Nat) /\ Len(x) = b - a /\ \A i \in 1..b - a : x[i] = s[a + i]
  BY <1>1, Part
<1>3. y \in Seq(Nat) /\ Len(y) = c - b /\ \A i \in 1..c - b : y[i] = s[b + i]
  BY Part
<1>4. z \in Seq(Nat) /\ Len(z) = c - a /\ \A i \in 1..c - a : z[i] = s[a + i]
  BY <1>1, Part
<1> HIDE DEF x, y, z
<1>5. Len(z) = Len(x) + Len(y)
  BY <1>2, <1>3, <1>4
<1>6. \A k \in 1..Len(x) : z[k] = x[k]
  <2>1. \A k \in 1..b - a : k \in 1..c - a
    OBVIOUS
  <2> QED BY <1>2, <1>4, <2>1
<1>7. \A k \in 1..Len(y) : z[Len(x) + k] = y[k]
  <2>1. \A k \in 1..c - b : (b - a) + k \in 1..c - a /\ a + ((b - a) + k) = b + k
    OBVIOUS
  <2> QED BY <1>2, <1>3, <1>4, <2>1
<1>8. z = x \o y
  BY <1>2, <1>3, <1>4, <1>5, <1>6, <1>7, SameJoined
<1> QED BY <1>8 DEF x, y, z

RowType == [client_port : Clients, direction : {"req", "resp"}, wall_time : Int, raw_hex : Seq(Nat)]

\* The rows of recs are pieces of Content[a+1 .. b], one after the other.
Laid(recs, a, b) ==
  /\ recs \in Seq(RowType)
  /\ \A k \in 1..Len(recs) : /\ IsPiece(recs[k].raw_hex)
                             /\ a <= StartOf(recs[k].raw_hex) /\ EndOf(recs[k].raw_hex) <= b
  /\ \A j, k \in 1..Len(recs) : j < k => EndOf(recs[j].raw_hex) <= StartOf(recs[k].raw_hex)
\* ... in the order of their times, that lie between t and u.
Timed(recs, t, u) ==
  /\ \A k \in 1..Len(recs) : recs[k].wall_time \in t..u
  /\ \A j, k \in 1..Len(recs) : j < k => recs[j].wall_time <= recs[k].wall_time
WrittenIn(recs) == UNION {Places(recs[k].raw_hex) : k \in 1..Len(recs)}

LEMMA PieceNumbers ==
  ASSUME NEW raw, IsPiece(raw)
  PROVE  StartOf(raw) \in Nat /\ EndOf(raw) \in Nat /\ StartOf(raw) < EndOf(raw) /\ EndOf(raw) <= Len(Content)
<1>1. Len(raw) \in Nat /\ Len(raw) >= 1 /\ StartOf(raw) \in Nat /\ EndOf(raw) <= Len(Content)
  BY DEF IsPiece
<1>2. EndOf(raw) = StartOf(raw) + Len(raw)
  BY DEF EndOf
<1> HIDE DEF StartOf, EndOf
<1> QED BY <1>1, <1>2

LEMMA SniffedStream == Sniffed \in Streams
<1>1. PICK client : client \in Clients
  BY ClientsAssumption
<1>2. <<client, "req">> \in Streams
  BY <1>1 DEF Streams
<1> QED BY <1>2 DEF Sniffed

LEMMA LaidWider ==
  ASSUME NEW recs, NEW a \in Nat, NEW b \in Nat, NEW c \in Nat, c <= a, Laid(recs, a, b)
  PROVE  Laid(recs, c, b)
<1>1. ASSUME NEW k \in 1..Len(recs)
      PROVE  /\ IsPiece(recs[k].raw_hex)
             /\ c <= StartOf(recs[k].raw_hex) /\ EndOf(recs[k].raw_hex) <= b
  <2> DEFINE fst == StartOf(recs[k].raw_hex)
  <2>1. IsPiece(recs[k].raw_hex) /\ a <= fst /\ EndOf(recs[k].raw_hex) <= b
    BY DEF Laid
  <2>2. fst \in Nat
    BY <2>1, PieceNumbers
  <2> HIDE DEF fst
  <2>3. c <= fst
    BY <2>1, <2>2
  <2> QED BY <2>1, <2>3 DEF fst
<1> QED BY <1>1 DEF Laid

LEMMA Split ==
  ASSUME NEW n \in Nat, NEW m \in Nat
  PROVE  \A k \in 1..n + m : k \in 1..n \/ \E i \in 1..m : k = n + i
<1> SUFFICES ASSUME NEW k \in 1..n + m, k \notin 1..n PROVE \E i \in 1..m : k = n + i
  OBVIOUS
<1>1. k - n \in 1..m /\ k = n + (k - n)
  OBVIOUS
<1> DEFINE i == k - n
<1>2. i \in 1..m /\ k = n + i
  BY <1>1
<1> HIDE DEF i
<1> QED BY <1>2

LEMMA LaidJoined ==
  ASSUME NEW q, NEW r, NEW a \in Nat, NEW b \in Nat, NEW c \in Nat, NEW d \in Nat,
         Laid(q, a, b), Laid(r, c, d), a <= c, b <= c, b <= d
  PROVE  Laid(q \o r, a, d) /\ WrittenIn(q \o r) = WrittenIn(q) \cup WrittenIn(r)
<1> DEFINE x == q \o r
<1>1. q \in Seq(RowType) /\ r \in Seq(RowType)
  BY DEF Laid
<1>2. /\ x \in Seq(RowType) /\ Len(x) = Len(q) + Len(r) /\ Len(q) \in Nat /\ Len(r) \in Nat
      /\ \A i \in 1..Len(q) : x[i] = q[i]
      /\ \A i \in 1..Len(r) : x[Len(q) + i] = r[i]
  BY <1>1, Joined
<1> HIDE DEF x
<1>3. \A k \in 1..Len(x) : k \in 1..Len(q) \/ \E i \in 1..Len(r) : k = Len(q) + i
  <2>1. Len(q) \in Nat /\ Len(r) \in Nat /\ Len(x) = Len(q) + Len(r)
    BY <1>2
  <2>2. \A k \in 1..Len(q) + Len(r) : k \in 1..Len(q) \/ \E i \in 1..Len(r) : k = Len(q) + i
    BY <2>1, Split
  <2> QED BY <2>1, <2>2
<1>4. /\ \A k \in 1..Len(q) : LET w == q[k].raw_hex IN
           IsPiece(w) /\ StartOf(w) \in Nat /\ EndOf(w) \in Nat /\ a <= StartOf(w) /\ EndOf(w) <= b
      /\ \A k \in 1..Len(r) : LET w == r[k].raw_hex IN
           IsPiece(w) /\ StartOf(w) \in Nat /\ EndOf(w) \in Nat /\ c <= StartOf(w) /\ EndOf(w) <= d
  BY PieceNumbers DEF Laid
<1>5. ASSUME NEW k \in 1..Len(x)
      PROVE  IsPiece(x[k].raw_hex) /\ a <= StartOf(x[k].raw_hex) /\ EndOf(x[k].raw_hex) <= d
  <2>1. CASE k \in 1..Len(q)
    <3>1. x[k] = q[k]
      BY <1>2, <2>1
    <3>2. LET w == q[k].raw_hex IN
           IsPiece(w) /\ StartOf(w) \in Nat /\ EndOf(w) \in Nat /\ a <= StartOf(w) /\ EndOf(w) <= b
      BY <1>4, <2>1
    <3> HIDE DEF StartOf, EndOf, IsPiece
    <3> QED BY <3>1, <3>2
  <2>2. CASE \E i \in 1..Len(r) : k = Len(q) + i
    <3>1. PICK i \in 1..Len(r) : k = Len(q) + i
      BY <2>2
    <3>2. x[k] = r[i]
      BY <1>2, <3>1
    <3>3. LET w == r[i].raw_hex IN
           IsPiece(w) /\ StartOf(w) \in Nat /\ EndOf(w) \in Nat /\ c <= StartOf(w) /\ EndOf(w) <= d
      BY <1>4
    <3> HIDE DEF StartOf, EndOf, IsPiece
    <3> QED BY <3>2, <3>3
  <2> QED BY <1>3, <2>1, <2>2
<1>6. ASSUME NEW j \in 1..Len(x), NEW k \in 1..Len(x), j < k
      PROVE  EndOf(x[j].raw_hex) <= StartOf(x[k].raw_hex)
  <2>1. CASE k \in 1..Len(q)
    <3>1. j \in 1..Len(q) /\ x[j] = q[j] /\ x[k] = q[k]
      BY <1>2, <1>6, <2>1
    <3> QED BY <1>6, <2>1, <3>1 DEF Laid
  <2>2. CASE \E i \in 1..Len(r) : k = Len(q) + i
    <3>1. PICK i \in 1..Len(r) : k = Len(q) + i
      BY <2>2
    <3>2. x[k] = r[i] /\ StartOf(r[i].raw_hex) \in Nat /\ c <= StartOf(r[i].raw_hex)
      BY <1>2, <1>4, <3>1
    <3>3. CASE j \in 1..Len(q)
      <4>1. x[j] = q[j] /\ EndOf(q[j].raw_hex) \in Nat /\ EndOf(q[j].raw_hex) <= b
        BY <1>2, <1>4, <3>3
      <4> HIDE DEF StartOf, EndOf
      <4> QED BY <3>2, <4>1
    <3>4. CASE \E e \in 1..Len(r) : j = Len(q) + e
      <4>1. PICK e \in 1..Len(r) : j = Len(q) + e
        BY <3>4
      <4>2. x[j] = r[e] /\ e < i
        BY <1>2, <1>6, <3>1, <4>1
      <4> QED BY <3>2, <4>2 DEF Laid
    <3> QED BY <1>3, <3>3, <3>4
  <2> QED BY <1>3, <2>1, <2>2
<1>7. WrittenIn(x) = WrittenIn(q) \cup WrittenIn(r)
  <2>1. \A n : n \in WrittenIn(x) <=> \E k \in 1..Len(x) : n \in Places(x[k].raw_hex)
    BY DEF WrittenIn
  <2>2. \A n : n \in WrittenIn(q) <=> \E k \in 1..Len(q) : n \in Places(q[k].raw_hex)
    BY DEF WrittenIn
  <2>3. \A n : n \in WrittenIn(r) <=> \E k \in 1..Len(r) : n \in Places(r[k].raw_hex)
    BY DEF WrittenIn
  <2>4. ASSUME NEW n \in WrittenIn(x) PROVE n \in WrittenIn(q) \cup WrittenIn(r)
    <3>1. PICK k \in 1..Len(x) : n \in Places(x[k].raw_hex)
      BY <2>1
    <3>2. CASE k \in 1..Len(q)
      BY <1>2, <2>2, <3>1, <3>2
    <3>3. CASE \E i \in 1..Len(r) : k = Len(q) + i
      BY <1>2, <2>3, <3>1, <3>3
    <3> QED BY <1>3, <3>2, <3>3
  <2>5. ASSUME NEW n \in WrittenIn(q) PROVE n \in WrittenIn(x)
    <3>1. PICK k \in 1..Len(q) : n \in Places(q[k].raw_hex)
      BY <2>2
    <3>2. k \in 1..Len(x) /\ x[k] = q[k]
      BY <1>2
    <3> QED BY <2>1, <3>1, <3>2
  <2>6. ASSUME NEW n \in WrittenIn(r) PROVE n \in WrittenIn(x)
    <3>1. PICK k \in 1..Len(r) : n \in Places(r[k].raw_hex)
      BY <2>3
    <3>2. Len(q) + k \in 1..Len(x) /\ x[Len(q) + k] = r[k]
      BY <1>2
    <3> QED BY <2>1, <3>1, <3>2
  <2> QED BY <2>4, <2>5, <2>6
<1>8. Laid(x, a, d)
  BY <1>2, <1>5, <1>6 DEF Laid
<1> QED BY <1>7, <1>8 DEF x

LEMMA TimedJoined ==
  ASSUME NEW q \in Seq(RowType), NEW r \in Seq(RowType),
         NEW t \in Int, NEW u \in Int, NEW v \in Int, NEW w \in Int,
         Timed(q, t, u), Timed(r, v, w), t <= v, u <= v, u <= w
  PROVE  Timed(q \o r, t, w)
<1> DEFINE x == q \o r
<1>2. /\ x \in Seq(RowType) /\ Len(x) = Len(q) + Len(r) /\ Len(q) \in Nat /\ Len(r) \in Nat
      /\ \A i \in 1..Len(q) : x[i] = q[i]
      /\ \A i \in 1..Len(r) : x[Len(q) + i] = r[i]
  BY Joined
<1> HIDE DEF x
<1>3. \A k \in 1..Len(x) : k \in 1..Len(q) \/ \E i \in 1..Len(r) : k = Len(q) + i
  <2>1. Len(q) \in Nat /\ Len(r) \in Nat /\ Len(x) = Len(q) + Len(r)
    BY <1>2
  <2>2. \A k \in 1..Len(q) + Len(r) : k \in 1..Len(q) \/ \E i \in 1..Len(r) : k = Len(q) + i
    BY <2>1, Split
  <2> QED BY <2>1, <2>2
<1>4. /\ \A k \in 1..Len(q) : q[k].wall_time \in t..u
      /\ \A k \in 1..Len(r) : r[k].wall_time \in v..w
  BY DEF Timed
<1>5. \A k \in 1..Len(x) : x[k].wall_time \in t..w
  <2> TAKE k \in 1..Len(x)
  <2>1. CASE k \in 1..Len(q)
    BY <1>2, <1>4, <2>1
  <2>2. CASE \E i \in 1..Len(r) : k = Len(q) + i
    <3>1. PICK i \in 1..Len(r) : k = Len(q) + i
      BY <2>2
    <3>2. x[k] = r[i] /\ r[i].wall_time \in v..w
      BY <1>2, <1>4, <3>1
    <3> DEFINE n == x[k].wall_time
    <3>3. n \in v..w
      BY <3>2
    <3> HIDE DEF n
    <3>4. n \in t..w
      BY <3>3
    <3> QED BY <3>4 DEF n
  <2> QED BY <1>3, <2>1, <2>2
<1>6. ASSUME NEW j \in 1..Len(x), NEW k \in 1..Len(x), j < k
      PROVE  x[j].wall_time <= x[k].wall_time
  <2>1. CASE k \in 1..Len(q)
    <3>1. j \in 1..Len(q) /\ x[j] = q[j] /\ x[k] = q[k]
      BY <1>2, <1>6, <2>1
    <3> QED BY <1>6, <2>1, <3>1 DEF Timed
  <2>2. CASE \E i \in 1..Len(r) : k = Len(q) + i
    <3>1. PICK i \in 1..Len(r) : k = Len(q) + i
      BY <2>2
    <3>2. x[k] = r[i] /\ r[i].wall_time \in v..w
      BY <1>2, <1>4, <3>1
    <3>3. CASE j \in 1..Len(q)
      <4>1. x[j] = q[j] /\ q[j].wall_time \in t..u
        BY <1>2, <1>4, <3>3
      <4> DEFINE n == x[j].wall_time
                 o == x[k].wall_time
      <4>2. n \in t..u /\ o \in v..w
        BY <3>2, <4>1
      <4> HIDE DEF n, o
      <4>3. n <= o
        BY <4>2
      <4> QED BY <4>3 DEF n, o
    <3>4. CASE \E e \in 1..Len(r) : j = Len(q) + e
      <4>1. PICK e \in 1..Len(r) : j = Len(q) + e
        BY <3>4
      <4>2. x[j] = r[e] /\ e < i
        BY <1>2, <1>6, <3>1, <4>1, SMTT(30)
      <4> QED BY <3>2, <4>2 DEF Timed
    <3> QED BY <1>3, <3>3, <3>4
  <2> QED BY <1>3, <2>1, <2>2
<1> QED BY <1>5, <1>6 DEF Timed, x

\* What is cut of a part of the content.
FramesOf(key, t, all) ==
  [k \in 1..Len(iter_frames(all)) |-> Record(t, key, iter_frames(all)[k])]

LEMMA FramesOfPart ==
  ASSUME NEW b \in 0..Len(Content), NEW a \in 0..b, NEW t \in Int, NEW key \in Streams
  PROVE  LET all == PartOf(Content, a, b)
             c == a + Taken(all)
             frames == FramesOf(key, t, all)
         IN  /\ c \in a..b /\ Rest(all) = PartOf(Content, c, b)
             /\ Laid(frames, a, c) /\ Timed(frames, t, t) /\ WrittenIn(frames) = a+1..c
             /\ Len(frames) = Len(iter_frames(all))
             /\ \A k \in 1..Len(frames) : frames[k].raw_hex = iter_frames(all)[k]
<1> DEFINE all == PartOf(Content, a, b)
           n == Taken(all)
           d == Cuts(all)
           x == iter_frames(all)
           frames == FramesOf(key, t, all)
<1>0. Content \in Seq(Nat) /\ Len(Content) \in Nat /\ a \in Nat /\ b \in Nat /\ a <= b
  BY ContentAssumption
<1>1. all \in Seq(Nat) /\ Len(all) = b - a
  BY <1>0, Part
<1>2. FramesAt(all, d, n, x) /\ CutsFrom(all, 0, d)
  BY <1>1, Frames DEF FramesAt
<1>3. frames = [k \in 1..Len(x) |-> Record(t, key, x[k])]
  BY DEF FramesOf
<1>4. Rest(all) = PartOf(all, n, Len(all))
  BY DEF Rest
<1>40. /\ \A j, k \in 1..Len(d) : j < k => d[j] < d[k]
       /\ \A z \in 1..d[Len(d)] : \E k \in 1..Len(d) - 1 : d[k] < z /\ z <= d[k + 1]
  BY <1>1, <1>2, CutsRise
<1> DEFINE bytes == all
<1>41. bytes = PartOf(Content, a, b)
  OBVIOUS
<1> HIDE DEF n, d, x, frames, all
<1>5. /\ Len(d) \in Nat /\ Len(d) >= 1 /\ \A k \in 1..Len(d) : d[k] \in 0..b - a
      /\ n = d[Len(d)] /\ n \in 0..b - a /\ n \in Nat
      /\ x \in Seq(Seq(Nat)) /\ Len(x) = Len(d) - 1
      /\ \A k \in 1..Len(d) - 1 : d[k] < d[k + 1] /\ x[k] = PartOf(all, d[k], d[k + 1])
  <2>1. /\ Len(d) \in Nat \ {0} /\ \A k \in 1..Len(d) : d[k] \in 0..Len(all)
        /\ n = d[Len(d)] /\ n \in 0..Len(all)
        /\ x \in Seq(Seq(Nat)) /\ Len(x) = Len(d) - 1
        /\ \A k \in 1..Len(d) - 1 : d[k] < d[k + 1] /\ x[k] = PartOf(all, d[k], d[k + 1])
    BY <1>2, Zenon DEF FramesAt
  <2>2. Len(d) >= 1 /\ n \in Nat
    BY <1>0, <1>1, <2>1
  <2> QED BY <1>1, <2>1, <2>2
<1>6. ASSUME NEW k \in 1..Len(d) - 1
      PROVE  /\ k \in 1..Len(d) /\ k + 1 \in 1..Len(d)
             /\ d[k] \in Nat /\ d[k + 1] \in Nat /\ d[k] < d[k + 1] /\ d[k + 1] <= b - a
             /\ x[k] = PartOf(Content, a + d[k], a + d[k + 1])
             /\ IsPiece(x[k]) /\ StartOf(x[k]) = a + d[k] /\ EndOf(x[k]) = a + d[k + 1]
             /\ Places(x[k]) = (a + d[k]) + 1..a + d[k + 1]
  <2>1. k \in 1..Len(d) /\ k + 1 \in 1..Len(d)
    BY <1>5
  <2> DEFINE e == d[k]
             f == d[k + 1]
             g == a + e
             h == a + f
  <2>2. e \in 0..b - a /\ f \in 0..b - a /\ e < f /\ x[k] = PartOf(all, e, f)
    BY <1>5, <2>1
  <2> HIDE DEF e, f
  <2>3. /\ e \in Nat /\ f \in Nat /\ f <= b - a /\ e \in 0..f
        /\ h \in 0..Len(Content) /\ g \in 0..h /\ g < h
    BY <1>0, <2>2
  <2>4. PartOf(bytes, e, f) = PartOf(Content, g, h)
    BY <1>0, <1>41, <2>2, <2>3, PartOfPart
  <2> HIDE DEF g, h
  <2>5. LET raw == PartOf(Content, g, h) IN
         Places(raw) = g+1..h /\ IsPiece(raw) /\ StartOf(raw) = g /\ EndOf(raw) = h
    BY <2>3, PieceOf
  <2> QED BY <2>1, <2>2, <2>3, <2>4, <2>5 DEF e, f, g, h
<1>7. /\ frames \in Seq(RowType) /\ Len(frames) = Len(d) - 1
      /\ \A k \in 1..Len(d) - 1 : frames[k].raw_hex = x[k] /\ frames[k].wall_time = t
  <2>1. Len(x) \in Nat /\ \A k \in 1..Len(x) : x[k] \in Seq(Nat)
    BY <1>5
  <2>2. \A k \in 1..Len(x) : Record(t, key, x[k]) \in RowType
    <3> TAKE k \in 1..Len(x)
    <3>1. key[1] \in Clients /\ key[2] \in {"req", "resp"} /\ x[k] \in Seq(Nat)
      BY <2>1 DEF Streams
    <3> QED BY <3>1 DEF Record, Row, RowType
  <2>3. frames \in Seq(RowType) /\ Len(frames) = Len(x)
    BY <1>3, <2>1, <2>2
  <2>4. \A k \in 1..Len(x) : frames[k].raw_hex = x[k] /\ frames[k].wall_time = t
    BY <1>3 DEF Record, Row
  <2>5. Len(frames) = Len(d) - 1
    BY <1>5, <2>3
  <2>6. \A k \in 1..Len(d) - 1 : k \in 1..Len(x)
    BY <1>5
  <2> QED BY <2>3, <2>4, <2>5, <2>6
<1>8. Laid(frames, a, a + n)
  <2>1. ASSUME NEW k \in 1..Len(frames)
        PROVE  /\ IsPiece(frames[k].raw_hex)
               /\ a <= StartOf(frames[k].raw_hex) /\ EndOf(frames[k].raw_hex) <= a + n
    <3>1. k \in 1..Len(d) - 1 /\ frames[k].raw_hex = x[k]
      BY <1>7
    <3> DEFINE l == k + 1
               N == Len(d)
    <3>2. l \in 1..N /\ N \in 1..N /\ (l = N \/ l < N)
      BY <1>5, <3>1
    <3>3. IsPiece(x[k]) /\ StartOf(x[k]) = a + d[k] /\ EndOf(x[k]) = a + d[l] /\ d[k] \in Nat /\ d[l] \in Nat
      BY <1>6, <3>1
    <3>4. \A j, i \in 1..N : j < i => d[j] < d[i]
      BY <1>40
    <3>5. n = d[N]
      BY <1>5
    <3> HIDE DEF l, N
    <3> DEFINE e == d[l]
               g == d[k]
    <3>6. l < N => e < n
      BY <3>2, <3>4, <3>5
    <3>7. l = N => e = n
      BY <3>5
    <3>8. e \in Nat /\ g \in Nat /\ StartOf(x[k]) = a + g /\ EndOf(x[k]) = a + e
      BY <3>3
    <3> HIDE DEF e, g, StartOf, EndOf
    <3>10. a \in Nat /\ n \in Nat /\ (l < N \/ l = N)
      BY <1>0, <1>5, <3>2
    <3>11. a <= a + g /\ a + e <= a + n
      BY <3>6, <3>7, <3>8, <3>10
    <3>9. a <= StartOf(x[k]) /\ EndOf(x[k]) <= a + n
      BY <3>8, <3>11
    <3> QED BY <3>1, <3>3, <3>9
  <2>2. ASSUME NEW j \in 1..Len(frames), NEW k \in 1..Len(frames), j < k
        PROVE  EndOf(frames[j].raw_hex) <= StartOf(frames[k].raw_hex)
    <3>1. j \in 1..Len(d) - 1 /\ k \in 1..Len(d) - 1 /\ frames[j].raw_hex = x[j] /\ frames[k].raw_hex = x[k]
      BY <1>7
    <3> DEFINE l == j + 1
               N == Len(d)
    <3>10. Len(d) \in Nat /\ j \in 1..Len(d) - 1 /\ k \in 1..Len(d) - 1 /\ j < k
      BY <1>5, <2>2, <3>1
    <3>2. l \in 1..N /\ k \in 1..N /\ (l = k \/ l < k)
      BY <3>10
    <3>3. StartOf(x[k]) = a + d[k] /\ EndOf(x[j]) = a + d[l] /\ d[k] \in Nat /\ d[l] \in Nat
      BY <1>6, <3>1
    <3>4. \A h, i \in 1..N : h < i => d[h] < d[i]
      BY <1>40
    <3> HIDE DEF l, N
    <3> DEFINE e == d[l]
               g == d[k]
    <3>6. l < k => e < g
      BY <3>2, <3>4
    <3>7. l = k => e = g
      OBVIOUS
    <3>8. e \in Nat /\ g \in Nat /\ StartOf(x[k]) = a + g /\ EndOf(x[j]) = a + e
      BY <3>3
    <3> HIDE DEF e, g, StartOf, EndOf
    <3>9. EndOf(x[j]) <= StartOf(x[k])
      BY <1>0, <3>2, <3>6, <3>7, <3>8
    <3> QED BY <3>1, <3>9
  <2> QED BY <1>7, <2>1, <2>2 DEF Laid
<1>9. Timed(frames, t, t)
  BY <1>7 DEF Timed
<1>10. WrittenIn(frames) = a+1..a + n
  <2>1. \A z : z \in WrittenIn(frames) <=> \E k \in 1..Len(frames) : z \in Places(frames[k].raw_hex)
    BY DEF WrittenIn
  <2>2. ASSUME NEW z \in WrittenIn(frames) PROVE z \in a+1..a + n
    <3>1. PICK k \in 1..Len(frames) : z \in Places(frames[k].raw_hex)
      BY <2>1
    <3>2. k \in 1..Len(d) - 1 /\ z \in (a + d[k]) + 1..a + d[k + 1]
      BY <1>6, <1>7, <3>1
    <3>3. EndOf(x[k]) <= a + n /\ EndOf(x[k]) = a + d[k + 1]
      BY <1>6, <1>7, <1>8, <3>2 DEF Laid
    <3> DEFINE e == d[k]
               f == d[k + 1]
    <3>4. e \in Nat /\ f \in Nat /\ z \in (a + e) + 1..a + f /\ a + f <= a + n
      BY <1>6, <3>2, <3>3
    <3> HIDE DEF e, f
    <3> QED BY <1>0, <1>5, <3>4
  <2>3. ASSUME NEW z \in a+1..a + n PROVE z \in WrittenIn(frames)
    <3>1. z - a \in 1..n /\ z \in Int
      BY <1>0, <1>5
    <3>2. PICK k \in 1..Len(d) - 1 : d[k] < z - a /\ z - a <= d[k + 1]
      BY <1>5, <1>40, <3>1
    <3> DEFINE e == d[k]
               f == d[k + 1]
    <3>5. e \in Nat /\ f \in Nat /\ e < z - a /\ z - a <= f
      BY <1>6, <3>2
    <3> HIDE DEF e, f
    <3>6. z \in (a + e) + 1..a + f
      BY <1>0, <3>1, <3>5
    <3>3. z \in (a + d[k]) + 1..a + d[k + 1]
      BY <3>6 DEF e, f
    <3>4. z \in Places(frames[k].raw_hex) /\ k \in 1..Len(frames)
      BY <1>6, <1>7, <3>3
    <3> QED BY <2>1, <3>4
  <2> QED BY <2>2, <2>3
<1>11. a + n \in a..b /\ Rest(all) = PartOf(Content, a + n, b)
  <2> DEFINE e == b - a
  <2>1. n \in 0..e /\ e \in 0..b - a /\ a + e = b
    BY <1>0, <1>5
  <2>2. PartOf(bytes, n, e) = PartOf(Content, a + n, a + e)
    BY <1>0, <1>41, <2>1, PartOfPart
  <2>3. a + n \in a..b
    BY <1>0, <2>1
  <2> QED BY <1>1, <1>4, <2>1, <2>2, <2>3
<1>12. Len(frames) = Len(x) /\ \A k \in 1..Len(frames) : frames[k].raw_hex = x[k]
  BY <1>5, <1>7
<1> QED BY <1>8, <1>9, <1>10, <1>11, <1>12 DEF all, n, x, frames

----------------------------------------------------------------------------
(* The bytes that were written, and those missing in between.              *)

LEMMA WrittenRange ==
  ASSUME NEW recs, NEW a \in Nat, NEW b \in Nat, Laid(recs, a, b)
  PROVE  WrittenIn(recs) \subseteq a+1..b
<1> SUFFICES ASSUME NEW k \in 1..Len(recs), NEW n \in Places(recs[k].raw_hex)
             PROVE  n \in a+1..b
  BY DEF WrittenIn
<1> DEFINE raw == recs[k].raw_hex
<1>1. IsPiece(raw) /\ a <= StartOf(raw) /\ EndOf(raw) <= b
  BY DEF Laid
<1> HIDE DEF raw
<1>2. PICK i \in 1..Len(raw) : n = Place(raw[i])
  BY DEF Places, raw
<1>3. n = StartOf(raw) + i /\ EndOf(raw) = StartOf(raw) + Len(raw) /\ Len(raw) \in Nat
  BY <1>1, <1>2 DEF IsPiece, EndOf
<1>4. StartOf(raw) \in Nat /\ EndOf(raw) \in Nat
  BY <1>1, PieceNumbers
<1> DEFINE fst == StartOf(raw)
           lst == EndOf(raw)
<1>5. n = fst + i /\ lst = fst + Len(raw) /\ fst \in Nat /\ a <= fst /\ lst <= b
  BY <1>1, <1>3, <1>4
<1> HIDE DEF fst, lst
<1> QED BY <1>2, <1>3, <1>5

Missing(T, m) == Cardinality({n \in T \ {m} : n + 1 \notin T})

LEMMA MissingInNat ==
  ASSUME NEW m \in Nat, NEW T, T \subseteq 1..m
  PROVE  /\ IsFiniteSet({n \in T \ {m} : n + 1 \notin T})
         /\ Missing(T, m) \in Nat
<1> DEFINE X == {n \in T \ {m} : n + 1 \notin T}
<1>1. X \subseteq 1..m
  OBVIOUS
<1>2. IsFiniteSet(1..m)
  BY FS_Interval
<1> HIDE DEF X
<1>3. IsFiniteSet(X)
  BY <1>1, <1>2, FS_Subset
<1> QED BY <1>3, FS_CardinalityType DEF X, Missing

LEMMA MissingMore ==
  ASSUME NEW m \in Nat, NEW T, T \subseteq 1..m, m \in T, NEW l \in Nat, l > m
  PROVE  Missing(T \cup m+1..l, l) = Missing(T, m)
<1> DEFINE U == T \cup m+1..l
           X == {n \in T \ {m} : n + 1 \notin T}
           Y == {n \in U \ {l} : n + 1 \notin U}
<1>1. ASSUME NEW n \in X PROVE n \in Y
  <2>1. n \in 1..m /\ n # m /\ n \in T /\ n + 1 \notin T
    OBVIOUS
  <2>2. n + 1 \notin m+1..l /\ n # l
    BY <2>1
  <2> QED BY <2>1, <2>2
<1>2. ASSUME NEW n \in Y PROVE n \in X
  <2>1. n \in U /\ n # l /\ n + 1 \notin T /\ n + 1 \notin m+1..l
    OBVIOUS
  <2>2. n \notin m+1..l
    BY <2>1
  <2>3. n # m
    BY <2>1
  <2> QED BY <2>1, <2>2, <2>3
<1>3. X = Y
  BY <1>1, <1>2
<1> QED BY <1>3 DEF Missing

LEMMA MissingGap ==
  ASSUME NEW m \in Nat, NEW T, T \subseteq 1..m, m \in T,
         NEW f \in Nat, f > m, NEW l \in Nat, l > f
  PROVE  Missing(T \cup f+1..l, l) = Missing(T, m) + 1
<1> DEFINE U == T \cup f+1..l
           X == {n \in T \ {m} : n + 1 \notin T}
           Y == {n \in U \ {l} : n + 1 \notin U}
<1>1. ASSUME NEW n \in X PROVE n \in Y
  <2>1. n \in 1..m /\ n # m /\ n \in T /\ n + 1 \notin T
    OBVIOUS
  <2>2. n + 1 \notin f+1..l /\ n # l
    BY <2>1
  <2> QED BY <2>1, <2>2
<1>2. ASSUME NEW n \in Y, n # m PROVE n \in X
  <2>1. n \in U /\ n # l /\ n + 1 \notin T /\ n + 1 \notin f+1..l
    OBVIOUS
  <2>2. n \notin f+1..l
    BY <2>1
  <2> QED BY <1>2, <2>1, <2>2
<1>3. m \in Y
  <2>1. m + 1 \notin T /\ m + 1 \notin f+1..l /\ m # l
    OBVIOUS
  <2> QED BY <2>1
<1>4. m \notin X
  OBVIOUS
<1>5. IsFiniteSet(X)
  BY MissingInNat
<1> HIDE DEF X, Y
<1>6. Y = X \cup {m}
  BY <1>1, <1>2, <1>3
<1>7. Cardinality(X \cup {m}) = Cardinality(X) + 1
  BY <1>4, <1>5, FS_AddElement
<1> QED BY <1>6, <1>7 DEF Missing, X, Y

----------------------------------------------------------------------------
(* What convert has of the sniffed stream.                                 *)

Raws(recs) == [k \in 1..Len(recs) |-> recs[k].raw_hex]

\* All of Content[1 .. m] that it read is in rows, up to c, or in the buffer.
Have(recs, c, m) == WrittenIn(recs) \cup c+1..m
Kept(recs, ts, gap, m, c) ==
  /\ m \in 1..Len(Content) /\ c \in 0..m /\ ts \in Nat
  /\ Laid(recs, 0, c) /\ Timed(recs, 0, ts)
  /\ m \in Have(recs, c, m)
  /\ gap = Missing(Have(recs, c, m), m)
  /\ Clean(Content) /\ gap = 0 /\ 1 \in Have(recs, c, m) =>
       /\ Raws(recs) = iter_frames(PartOf(Content, 0, m))
       /\ c = Taken(PartOf(Content, 0, m))

LEMMA HaveRange ==
  ASSUME NEW recs, NEW ts, NEW gap, NEW m, NEW c, Kept(recs, ts, gap, m, c)
  PROVE  Have(recs, c, m) \subseteq 1..m /\ gap \in Nat
<1>1. m \in Nat /\ c \in Nat /\ c <= m /\ Laid(recs, 0, c)
  BY ContentAssumption DEF Kept
<1>2. WrittenIn(recs) \subseteq 0+1..c
  BY <1>1, WrittenRange
<1>3. Have(recs, c, m) \subseteq 1..m
  BY <1>1, <1>2 DEF Have
<1>4. Missing(Have(recs, c, m), m) \in Nat
  BY <1>1, <1>3, MissingInNat
<1> QED BY <1>3, <1>4 DEF Kept

\* The first bytes of the stream that are seen.
LEMMA Started ==
  ASSUME NEW l \in 0..Len(Content), NEW f \in 0..l, f < l, NEW t \in Nat
  PROVE  LET all == PartOf(Content, f, l)
         IN Kept(FramesOf(Sniffed, t, all), t, 0, l, f + Taken(all))
<1> DEFINE all == PartOf(Content, f, l)
           c == f + Taken(all)
           frames == FramesOf(Sniffed, t, all)
<1>0. Sniffed \in Streams
  BY SniffedStream
<1>1. /\ c \in f..l /\ Laid(frames, f, c) /\ Timed(frames, t, t) /\ WrittenIn(frames) = f+1..c
      /\ Len(frames) = Len(iter_frames(all))
      /\ \A k \in 1..Len(frames) : frames[k].raw_hex = iter_frames(all)[k]
  BY <1>0, FramesOfPart
<1> HIDE DEF c, frames
<1>2. l \in 1..Len(Content) /\ c \in 0..l /\ l \in Nat /\ f \in Nat /\ Len(Content) \in Nat
  BY <1>1, ContentAssumption
<1>3. Laid(frames, 0, c)
  BY <1>1, <1>2, LaidWider
<1>4. Timed(frames, 0, t)
  BY <1>1 DEF Timed
<1>5. Have(frames, c, l) = f+1..l
  BY <1>1, <1>2 DEF Have
<1>6. l \in f+1..l
  BY <1>2
<1>7. Missing(f+1..l, l) = 0
  <2>1. {n \in (f+1..l) \ {l} : n + 1 \notin f+1..l} = {}
    BY <1>2
  <2> QED BY <2>1, FS_EmptySet DEF Missing
<1>8. 1 \in f+1..l => /\ Raws(frames) = iter_frames(PartOf(Content, 0, l))
                     /\ c = Taken(PartOf(Content, 0, l))
  <2>1. SUFFICES ASSUME 1 \in f+1..l PROVE Raws(frames) = iter_frames(all) /\ c = Taken(all) /\ f = 0
    OBVIOUS
  <2>2. f = 0
    BY <1>2, <2>1
  <2>3. all \in Seq(Nat)
    BY Part, ContentAssumption
  <2>4. FramesAt(all, Cuts(all), Taken(all), iter_frames(all))
    BY <2>3, Frames
  <2>5. Taken(all) \in Nat /\ iter_frames(all) \in Seq(Seq(Nat))
    <3>1. Taken(all) \in 0..Len(all) /\ Len(all) \in Nat
      BY <2>3, <2>4 DEF FramesAt
    <3>2. iter_frames(all) \in Seq(Seq(Nat))
      BY <2>4 DEF FramesAt
    <3> HIDE DEF all
    <3> QED BY <3>1, <3>2
  <2>6. c = Taken(all)
    BY <2>2, <2>5 DEF c
  <2>7. iter_frames(all) = [k \in 1..Len(iter_frames(all)) |-> iter_frames(all)[k]]
    BY <2>5
  <2> HIDE DEF all
  <2>8. Raws(frames) = iter_frames(all)
    BY <1>1, <2>7 DEF Raws
  <2> QED BY <2>2, <2>6, <2>8
<1> HIDE DEF all
<1>9. Kept(frames, t, 0, l, c)
  BY <1>2, <1>3, <1>4, <1>5, <1>6, <1>7, <1>8 DEF Kept
<1> QED BY <1>9 DEF all, c, frames

LEMMA RawsJoined ==
  ASSUME NEW S, NEW q \in Seq(S), NEW r \in Seq(S)
  PROVE  Raws(q \o r) = Raws(q) \o Raws(r)
<1> DEFINE V == {s.raw_hex : s \in S}
           x == q \o r
<1>1. /\ Len(x) = Len(q) + Len(r) /\ Len(q) \in Nat /\ Len(r) \in Nat
      /\ \A i \in 1..Len(q) : x[i] = q[i]
      /\ \A i \in 1..Len(r) : x[Len(q) + i] = r[i]
  BY Joined
<1>2. x \in Seq(S)
  OBVIOUS
<1>3. /\ \A i \in 1..Len(q) : q[i] \in S
      /\ \A i \in 1..Len(r) : r[i] \in S
      /\ \A i \in 1..Len(x) : x[i] \in S
  BY <1>2
<1>8. \A z \in S : z.raw_hex \in V
  OBVIOUS
<1> HIDE DEF x, V
<1>9. \A i \in 1..Len(q) : i \in 1..Len(x)
  BY <1>1
<1>10. \A i \in 1..Len(r) : Len(q) + i \in 1..Len(x)
  BY <1>1
<1>4. Raws(q) \in Seq(V) /\ Len(Raws(q)) = Len(q) /\ \A i \in 1..Len(q) : Raws(q)[i] = q[i].raw_hex
  BY <1>1, <1>3, <1>8 DEF Raws
<1>5. Raws(r) \in Seq(V) /\ Len(Raws(r)) = Len(r) /\ \A i \in 1..Len(r) : Raws(r)[i] = r[i].raw_hex
  BY <1>1, <1>3, <1>8 DEF Raws
<1>6. Raws(x) \in Seq(V) /\ Len(Raws(x)) = Len(x) /\ \A i \in 1..Len(x) : Raws(x)[i] = x[i].raw_hex
  BY <1>1, <1>2, <1>3, <1>8 DEF Raws
<1>11. \A i \in 1..Len(Raws(q)) : Raws(x)[i] = Raws(q)[i]
  BY <1>1, <1>4, <1>6, <1>9
<1>12. \A i \in 1..Len(Raws(r)) : Raws(x)[Len(Raws(q)) + i] = Raws(r)[i]
  <2> TAKE i \in 1..Len(Raws(r))
  <2>1. i \in 1..Len(r) /\ Len(Raws(q)) = Len(q)
    BY <1>4, <1>5
  <2>2. Raws(x)[Len(q) + i] = x[Len(q) + i].raw_hex
    BY <1>6, <1>10, <2>1
  <2>3. x[Len(q) + i] = r[i] /\ Raws(r)[i] = r[i].raw_hex
    BY <1>1, <1>5, <2>1
  <2> QED BY <2>1, <2>2, <2>3
<1>13. Len(Raws(x)) = Len(Raws(q)) + Len(Raws(r))
  BY <1>1, <1>4, <1>5, <1>6
<1> DEFINE u == Raws(q)
           v == Raws(r)
           w == Raws(x)
<1>14. u \in Seq(V) /\ v \in Seq(V) /\ w \in Seq(V) /\ Len(w) = Len(u) + Len(v)
  BY <1>4, <1>5, <1>6, <1>13
<1>15. (\A i \in 1..Len(u) : w[i] = u[i]) /\ \A i \in 1..Len(v) : w[Len(u) + i] = v[i]
  BY <1>11, <1>12
<1> HIDE DEF u, v, w
<1>16. w = u \o v
  BY <1>14, <1>15, SameJoined
<1>7. Raws(x) = Raws(q) \o Raws(r)
  BY <1>16 DEF u, v, w
<1> QED BY <1>7 DEF x

\* The bytes after those it has.
LEMMA Extended ==
  ASSUME NEW recs, NEW ts, NEW gap, NEW m, NEW c, Kept(recs, ts, gap, m, c),
         NEW l \in 0..Len(Content), l > m, NEW t \in Nat, ts <= t
  PROVE  LET all == PartOf(Content, c, l)
         IN Kept(recs \o FramesOf(Sniffed, t, all), t, gap, l, c + Taken(all))
<1> DEFINE all == PartOf(Content, c, l)
           e == c + Taken(all)
           frames == FramesOf(Sniffed, t, all)
           x == recs \o frames
<1>0. /\ m \in Nat /\ m >= 1 /\ c \in Nat /\ c <= m /\ ts \in Nat /\ l \in Nat /\ m < l /\ l <= Len(Content)
      /\ Len(Content) \in Nat /\ Laid(recs, 0, c) /\ Timed(recs, 0, ts)
      /\ m \in Have(recs, c, m) /\ gap = Missing(Have(recs, c, m), m)
      /\ m \in 0..Len(Content) /\ c \in 0..m /\ c \in 0..l
  BY ContentAssumption DEF Kept
<1>1. /\ e \in c..l /\ Laid(frames, c, e) /\ Timed(frames, t, t) /\ WrittenIn(frames) = c+1..e
      /\ Rest(all) = PartOf(Content, e, l) /\ Len(frames) = Len(iter_frames(all))
      /\ \A k \in 1..Len(frames) : frames[k].raw_hex = iter_frames(all)[k]
  BY <1>0, SniffedStream, FramesOfPart
<1> HIDE DEF e, frames
<1>2. Laid(x, 0, e) /\ WrittenIn(x) = WrittenIn(recs) \cup WrittenIn(frames)
  <2>1. e \in Nat /\ c \in Nat /\ c <= e /\ c <= c /\ 0 <= c /\ 0 \in Nat
    BY <1>0, <1>1
  <2>2. Laid(recs, 0, c) /\ Laid(frames, c, e)
    BY <1>0, <1>1
  <2> QED BY <2>1, <2>2, LaidJoined
<1>3. Timed(x, 0, t)
  <2>1. recs \in Seq(RowType) /\ frames \in Seq(RowType)
    BY <1>0, <1>1 DEF Laid
  <2>2. 0 <= t /\ t <= t /\ t \in Int /\ ts \in Int
    BY <1>0
  <2> QED BY <1>0, <1>1, <2>1, <2>2, TimedJoined
<1>4. Have(x, e, l) = Have(recs, c, m) \cup m+1..l
  BY <1>0, <1>1, <1>2 DEF Have
<1>5. Have(recs, c, m) \subseteq 1..m /\ gap \in Nat
  BY HaveRange
<1>6. gap = Missing(Have(x, e, l), l)
  BY <1>0, <1>4, <1>5, MissingMore
<1>7. l \in Have(x, e, l)
  BY <1>0, <1>4
<1>8. ASSUME Clean(Content), gap = 0, 1 \in Have(x, e, l)
      PROVE  Raws(x) = iter_frames(PartOf(Content, 0, l)) /\ e = Taken(PartOf(Content, 0, l))
  <2> DEFINE s == PartOf(Content, 0, m)
             p == PartOf(Content, m, l)
             w == PartOf(Content, 0, l)
  <2>1. 1 \in Have(recs, c, m)
    BY <1>0, <1>4, <1>8
  <2>2. Raws(recs) = iter_frames(s) /\ c = Taken(s)
    BY <1>8, <2>1 DEF Kept
  <2>3. Content \in Seq(Nat)
    BY ContentAssumption
  <2>4. s \in Seq(Nat) /\ p \in Seq(Nat) /\ Len(s) = m
    <3>1. 0 \in 0..m /\ m - 0 = m /\ m \in 0..l
      BY <1>0
    <3> QED BY <1>0, <2>3, <3>1, Part
  <2>5. s \o p = w
    <3>1. m \in 0..l /\ 0 \in 0..m
      BY <1>0
    <3> QED BY <2>3, <3>1, PartsMeet
  <2>6. Clean(s)
    BY <1>0, <1>8, <2>3, CleanBeginning
  <2>7. Rest(s) = PartOf(Content, c, m)
    <3>1. 0 \in 0..m /\ m \in 0..m - 0 /\ c \in 0..m /\ 0 + c = c /\ 0 + m = m
      BY <1>0
    <3>2. PartOf(s, c, m) = PartOf(Content, 0 + c, 0 + m)
      BY <1>0, <2>3, <3>1, PartOfPart
    <3> HIDE DEF s
    <3> QED BY <2>2, <2>4, <3>1, <3>2 DEF Rest
  <2>8. Rest(s) \o p = all
    <3>1. m \in 0..l /\ c \in 0..m
      BY <1>0
    <3> QED BY <2>3, <2>7, <3>1, PartsMeet
  <2> HIDE DEF s, p, all
  <2>9. iter_frames(w) = iter_frames(s) \o iter_frames(all) /\ Taken(w) = Taken(s) + Taken(all)
    <3>1. /\ iter_frames(s \o p) = iter_frames(s) \o iter_frames(Rest(s) \o p)
          /\ Taken(s \o p) = Taken(s) + Taken(Rest(s) \o p)
      BY <2>4, <2>6, FramesOfMore
    <3> HIDE DEF w
    <3> QED BY <2>5, <2>8, <3>1
  <2>10. all \in Seq(Nat)
    BY <1>0, <2>3, Part DEF all
  <2>11. iter_frames(all) \in Seq(Seq(Nat))
    BY <2>10, Frames DEF FramesAt
  <2>12. Raws(frames) = iter_frames(all)
    BY <1>1, <2>11 DEF Raws
  <2>13. recs \in Seq(RowType) /\ frames \in Seq(RowType)
    BY <1>0, <1>1 DEF Laid
  <2>14. Raws(x) = Raws(recs) \o Raws(frames)
    BY <2>13, RawsJoined
  <2> HIDE DEF x, w
  <2> QED BY <2>2, <2>9, <2>12, <2>14 DEF e, w
<1> HIDE DEF x, all
<1>9. l \in 1..Len(Content) /\ e \in 0..l
  BY <1>0, <1>1
<1>10. Kept(x, t, gap, l, e)
  BY <1>2, <1>3, <1>6, <1>7, <1>8, <1>9 DEF Kept
<1> QED BY <1>10 DEF x, all, e, frames

\* What is in the buffer, as a row.
Flushed(ts, raw) == IF raw = <<>> THEN <<>> ELSE <<Record(ts, Sniffed, raw)>>

LEMMA FlushedPart ==
  ASSUME NEW b \in 0..Len(Content), NEW a \in 0..b, NEW t \in Int
  PROVE  LET raw == PartOf(Content, a, b)
             recs == Flushed(t, raw)
         IN  /\ Laid(recs, a, b) /\ Timed(recs, t, t) /\ WrittenIn(recs) = a+1..b
             /\ Raws(recs) = IF raw = <<>> THEN <<>> ELSE <<raw>>
             /\ raw = <<>> <=> a = b
<1> DEFINE raw == PartOf(Content, a, b)
           recs == Flushed(t, raw)
<1>0. a \in Nat /\ b \in Nat /\ a <= b /\ Content \in Seq(Nat)
  BY ContentAssumption
<1>1. /\ raw \in Seq(Nat) /\ Len(raw) = b - a /\ Places(raw) = a+1..b
      /\ a < b => IsPiece(raw) /\ StartOf(raw) = a /\ EndOf(raw) = b
  BY PieceOf
<1> HIDE DEF raw
<1>2. raw = <<>> <=> a = b
  BY <1>0, <1>1
<1>3. CASE a = b
  <2>1. recs = <<>>
    BY <1>2, <1>3 DEF Flushed
  <2>2. <<>> \in Seq(RowType) /\ Len(<<>>) = 0 /\ 1..0 = {}
    OBVIOUS
  <2>3. Laid(<<>>, a, b) /\ Timed(<<>>, t, t)
    BY <2>2 DEF Laid, Timed
  <2>4. WrittenIn(<<>>) = {} /\ a+1..b = {}
    BY <1>0, <1>3, <2>2 DEF WrittenIn
  <2>5. Raws(<<>>) = <<>>
    BY <2>2 DEF Raws
  <2> QED BY <1>2, <1>3, <2>1, <2>3, <2>4, <2>5 DEF raw
<1>4. CASE a < b
  <2> DEFINE r == Record(t, Sniffed, raw)
  <2>1. recs = <<r>>
    BY <1>0, <1>2, <1>4 DEF Flushed
  <2>2. r \in RowType /\ r.raw_hex = raw /\ r.wall_time = t
    <3>1. Sniffed[1] \in Clients /\ Sniffed[2] \in {"req", "resp"}
      BY SniffedStream DEF Streams
    <3> QED BY <1>1, <3>1 DEF Record, Row, RowType
  <2> HIDE DEF r
  <2>3. <<r>> \in Seq(RowType) /\ Len(<<r>>) = 1 /\ 1..1 = {1} /\ <<r>>[1] = r
    BY <2>2
  <2>4. Laid(<<r>>, a, b)
    <3>1. IsPiece(raw) /\ StartOf(raw) = a /\ EndOf(raw) = b /\ a <= a /\ b <= b
      BY <1>0, <1>1, <1>4
    <3> HIDE DEF IsPiece, StartOf, EndOf
    <3>2. \A j, k \in {1} : ~(j < k)
      OBVIOUS
    <3> QED BY <2>2, <2>3, <3>1, <3>2 DEF Laid
  <2>5. Timed(<<r>>, t, t)
    BY <2>2, <2>3 DEF Timed
  <2>6. WrittenIn(<<r>>) = Places(raw)
    BY <2>2, <2>3 DEF WrittenIn
  <2>7. Raws(<<r>>) = <<raw>>
    BY <2>2, <2>3 DEF Raws
  <2>8. raw # <<>>
    BY <1>0, <1>2, <1>4
  <2> QED BY <1>1, <1>2, <2>1, <2>4, <2>5, <2>6, <2>7, <2>8 DEF raw
<1> QED BY <1>0, <1>3, <1>4

\* Bytes after a gap.
LEMMA Restarted ==
  ASSUME NEW recs, NEW ts, NEW gap, NEW m, NEW c, Kept(recs, ts, gap, m, c),
         NEW l \in 0..Len(Content), NEW f \in 0..l, f > m, f < l, NEW t \in Nat, ts <= t
  PROVE  LET all == PartOf(Content, f, l)
             left == Flushed(ts, PartOf(Content, c, m))
         IN Kept((recs \o left) \o FramesOf(Sniffed, t, all), t, gap + 1, l, f + Taken(all))
<1> DEFINE all == PartOf(Content, f, l)
           e == f + Taken(all)
           left == Flushed(ts, PartOf(Content, c, m))
           frames == FramesOf(Sniffed, t, all)
           y == recs \o left
           x == y \o frames
<1>0. /\ m \in Nat /\ m >= 1 /\ c \in Nat /\ c <= m /\ ts \in Nat /\ l \in Nat /\ f \in Nat /\ l <= Len(Content)
      /\ Len(Content) \in Nat /\ Laid(recs, 0, c) /\ Timed(recs, 0, ts)
      /\ m \in Have(recs, c, m) /\ gap = Missing(Have(recs, c, m), m)
      /\ m \in 0..Len(Content) /\ c \in 0..m
  BY ContentAssumption DEF Kept
<1>1. /\ e \in f..l /\ Laid(frames, f, e) /\ Timed(frames, t, t) /\ WrittenIn(frames) = f+1..e
  BY <1>0, SniffedStream, FramesOfPart
<1>2. Laid(left, c, m) /\ Timed(left, ts, ts) /\ WrittenIn(left) = c+1..m
  BY <1>0, FlushedPart
<1> HIDE DEF e, frames, left
<1>3. Laid(y, 0, m) /\ WrittenIn(y) = WrittenIn(recs) \cup WrittenIn(left)
  BY <1>0, <1>2, LaidJoined
<1>4. Timed(y, 0, ts)
  <2>1. recs \in Seq(RowType) /\ left \in Seq(RowType)
    BY <1>0, <1>2 DEF Laid
  <2>2. 0 <= ts /\ ts <= ts /\ ts \in Int
    BY <1>0
  <2> QED BY <1>0, <1>2, <2>1, <2>2, TimedJoined
<1> HIDE DEF y
<1>5. Laid(x, 0, e) /\ WrittenIn(x) = WrittenIn(y) \cup WrittenIn(frames)
  <2>1. e \in Nat /\ m <= e /\ m <= f
    BY <1>0, <1>1
  <2> QED BY <1>0, <1>1, <1>3, <2>1, LaidJoined
<1>6. Timed(x, 0, t)
  <2>1. y \in Seq(RowType) /\ frames \in Seq(RowType)
    BY <1>1, <1>3 DEF Laid
  <2>2. 0 <= t /\ t <= t /\ ts <= t /\ t \in Int /\ ts \in Int
    BY <1>0
  <2> QED BY <1>1, <1>4, <2>1, <2>2, TimedJoined
<1>7. Have(x, e, l) = Have(recs, c, m) \cup f+1..l
  BY <1>0, <1>1, <1>2, <1>3, <1>5 DEF Have
<1>8. Have(recs, c, m) \subseteq 1..m /\ gap \in Nat
  BY HaveRange
<1>9. gap + 1 = Missing(Have(x, e, l), l) /\ gap + 1 # 0
  BY <1>0, <1>7, <1>8, MissingGap, SMTT(30)
<1>10. l \in Have(x, e, l)
  BY <1>0, <1>7
<1>11. l \in 1..Len(Content) /\ e \in 0..l
  BY <1>0, <1>1
<1> HIDE DEF x, all
<1>12. Kept(x, t, gap + 1, l, e)
  BY <1>5, <1>6, <1>9, <1>10, <1>11 DEF Kept
<1> QED BY <1>12 DEF x, y, all, e, frames, left

----------------------------------------------------------------------------
(* The inductive invariant of a sniffed capture.                           *)

PacketType ==
  [client_port : Clients \cup {Foreign}, direction : {"req", "resp"}, wall_time : Nat,
   seq : Nat, ack : {0}, flags : SUBSET {ACK}, payload : Seq(Nat)]

\* The packet of time t: a part of the content or nothing of it.
Captured(p, t) ==
  /\ p.wall_time = t
  /\ \/ p.payload = <<>>
     \/ \E l \in 1..Len(Content) : \E f \in 0..l - 1 :
          StreamOf(p) = Sniffed /\ p.seq = (isn + f) % SEQS /\ p.payload = PartOf(Content, f, l)
CarriedTo(n) == UNION {Places(pcap[k].payload) : k \in 1..n}

\* No byte of the stream was read, or the last one read was number m and all
\* from c + 1 on is in the buffer.
Idle ==
  /\ streams[Sniffed] = NewStream
  /\ keys = <<>> /\ records = <<>> /\ skipped["gap"] = 0
  /\ CarriedTo(at) = {}
Begun(m, c) ==
  LET s == streams[Sniffed]
  IN  /\ Kept(records, s.ts, skipped["gap"], m, c)
      /\ s = [buf |-> PartOf(Content, c, m), next |-> (isn + m) % SEQS, ts |-> s.ts]
      /\ s.ts < at
      /\ keys = <<Sniffed>>
      /\ m \in CarriedTo(at) /\ CarriedTo(at) \subseteq 1..m

SniffType ==
  /\ step \in {"sniff", "convert", "done"} /\ isn \in 0..SEQS-1
  /\ pcap \in Seq(PacketType) /\ \A k \in 1..Len(pcap) : Captured(pcap[k], k - 1)
  /\ at \in 0..Len(pcap) /\ (step = "sniff" => at = 0)
  /\ DOMAIN streams = Streams /\ DOMAIN skipped = Reasons
SniffInv == isn # NONE =>
  /\ SniffType
  /\ Idle \/ \E m, c : Begun(m, c)
  /\ step = "done" =>
       /\ at = Len(pcap)
       /\ csv = records \o Flushed(streams[Sniffed].ts, streams[Sniffed].buf)

LEMMA SniffInit == Init => SniffInv
<1> SUFFICES ASSUME Init, isn # NONE PROVE SniffInv
  BY DEF SniffInv
<1>1. /\ step = "sniff" /\ isn \in FirstSeqs /\ pcap = <<>> /\ at = 0
      /\ streams = [s \in Streams |-> NewStream] /\ keys = <<>> /\ records = <<>>
      /\ skipped = [r \in Reasons |-> 0]
  BY DEF Init
<1>2. isn \in 0..SEQS-1
  BY <1>1, ContentAssumption
<1>3. pcap \in Seq(PacketType) /\ Len(pcap) = 0
  BY <1>1
<1>4. SniffType
  BY <1>1, <1>2, <1>3 DEF SniffType
<1>5. CarriedTo(0) = {}
  BY DEF CarriedTo
<1>6. Idle
  BY <1>1, <1>5, SniffedStream DEF Idle, Reasons
<1> QED BY <1>1, <1>4, <1>6 DEF SniffInv

\* The packet that is read next, in terms of the content.
LEMMA NextPacket ==
  ASSUME SniffType, Reading
  PROVE  /\ at + 1 \in 1..Len(pcap) /\ at \in Nat /\ Captured(Pkt, at)
         /\ CarriedTo(at + 1) = CarriedTo(at) \cup Places(Pkt.payload)
<1>1. at \in Nat /\ Len(pcap) \in Nat /\ at < Len(pcap)
  BY DEF SniffType, Reading
<1>2. at + 1 \in 1..Len(pcap) /\ (at + 1) - 1 = at
  BY <1>1
<1>3. Captured(pcap[at + 1], (at + 1) - 1)
  BY <1>2 DEF SniffType
<1>4. 1..at + 1 = (1..at) \cup {at + 1}
  BY <1>1
<1>5. CarriedTo(at + 1) = CarriedTo(at) \cup Places(pcap[at + 1].payload)
  BY <1>4 DEF CarriedTo
<1> QED BY <1>1, <1>2, <1>3, <1>5 DEF Pkt

LEMMA Payload ==
  ASSUME SniffType, Reading, Key \in Streams, Pkt.payload # <<>>
  PROVE  \E l \in 1..Len(Content) : \E f \in 0..l - 1 :
           /\ Key = Sniffed /\ Pkt.seq = (isn + f) % SEQS /\ Pkt.seq \in Nat
           /\ Pkt.payload = PartOf(Content, f, l) /\ Pkt.payload \in Seq(Nat) /\ Len(Pkt.payload) = l - f
           /\ Pkt.wall_time = at
           /\ CarriedTo(at + 1) = CarriedTo(at) \cup f+1..l
           /\ Idle => Ahead = 0 /\ Next_(st, Pkt.seq) = Pkt.seq
           /\ \A m, c : Begun(m, c) => Ahead = f - m /\ Next_(st, Pkt.seq) = (isn + m) % SEQS
<1>1. /\ at + 1 \in 1..Len(pcap) /\ at \in Nat /\ Captured(Pkt, at)
      /\ CarriedTo(at + 1) = CarriedTo(at) \cup Places(Pkt.payload)
  BY NextPacket
<1>20. PICK l \in 1..Len(Content) : \E f \in 0..l - 1 :
         Key = Sniffed /\ Pkt.seq = (isn + f) % SEQS /\ Pkt.payload = PartOf(Content, f, l)
  BY <1>1 DEF Captured, Key
<1>2. PICK f \in 0..l - 1 :
        Key = Sniffed /\ Pkt.seq = (isn + f) % SEQS /\ Pkt.payload = PartOf(Content, f, l)
  BY <1>20
<1>3. Len(Content) \in Nat /\ Content \in Seq(Nat) /\ 2 * Len(Content) <= SEQS /\ isn \in Nat /\ SEQS \in Nat /\ SEQS > 1
  BY ContentAssumption, SEQSAssumption DEF SniffType
<1>4. l \in 0..Len(Content) /\ f \in 0..l /\ l \in Nat /\ f \in Nat /\ f < l /\ isn + f \in Int
  BY <1>2, <1>3
<1>5. PartOf(Content, f, l) \in Seq(Nat) /\ Len(PartOf(Content, f, l)) = l - f /\ Places(PartOf(Content, f, l)) = f+1..l
  BY <1>4, PieceOf
<1>6. (isn + f) % SEQS \in 0..SEQS-1
  BY <1>3, <1>4, ModRange
<1>7. st = streams[Sniffed]
  BY <1>2 DEF st
<1>8. ASSUME Idle PROVE Ahead = 0 /\ Next_(st, Pkt.seq) = Pkt.seq
  <2>1. Next_(st, Pkt.seq) = Pkt.seq
    BY <1>7, <1>8 DEF Idle, NewStream, Next_
  <2>3. SeqDiff(Pkt.seq, Pkt.seq) = 0
    <3> DEFINE q == Pkt.seq
    <3>1. q \in Int
      BY <1>2, <1>6
    <3> HIDE DEF q
    <3>2. q - q = 0 /\ 0 % SEQS = 0
      BY <1>3, <3>1, ModSmall
    <3>3. ~(0 >= SEQS \div 2)
      BY <1>3, Half
    <3> QED BY <3>2, <3>3 DEF SeqDiff, q
  <2> QED BY <2>1, <2>3 DEF Ahead
<1>9. ASSUME NEW m, NEW c, Begun(m, c) PROVE Ahead = f - m /\ Next_(st, Pkt.seq) = (isn + m) % SEQS
  <2>1. m \in 1..Len(Content) /\ st.next = (isn + m) % SEQS
    BY <1>7, <1>9 DEF Begun, Kept
  <2>2. isn + m \in Int
    BY <1>3, <2>1
  <2>3. st.next # NONE
    BY <1>3, <2>1, <2>2, ModRange DEF NONE
  <2>4. Next_(st, Pkt.seq) = (isn + m) % SEQS
    BY <2>1, <2>3 DEF Next_
  <2>5. /\ 2 * ((isn + f) - (isn + m)) < SEQS - 1 /\ 2 * ((isn + m) - (isn + f)) <= SEQS
        /\ (isn + f) - (isn + m) = f - m
    <3> DEFINE L == Len(Content)
    <3>1. L \in Nat /\ 2 * L <= SEQS /\ SEQS \in Nat /\ isn \in Nat /\ m \in 1..L /\ f \in Nat /\ f + 1 <= L
      BY <1>2, <1>3, <1>4, <2>1
    <3> HIDE DEF L
    <3> QED BY <3>1
  <2>6. SeqDiff((isn + f) % SEQS, (isn + m) % SEQS) = f - m
    BY <1>4, <2>2, <2>5, Distance
  <2> QED BY <1>2, <2>4, <2>6 DEF Ahead
<1>10. Pkt.wall_time = at
  BY <1>1 DEF Captured
<1>11. Pkt.seq \in Nat
  BY <1>2, <1>6
<1> QED BY <1>1, <1>2, <1>5, <1>8, <1>9, <1>10, <1>11

\* What is as it was, when no byte is taken.
LEMMA NothingTaken ==
  ASSUME SniffInv, isn # NONE, isn' = isn, pcap' = pcap, step' = "convert", Reading,
         streams' = streams, records' = records, keys' = keys,
         DOMAIN skipped' = Reasons, skipped'["gap"] = skipped["gap"], at' = at + 1,
         \A m, c : Begun(m, c) => CarriedTo(at + 1) \subseteq 1..m,
         Idle => CarriedTo(at + 1) = {}
  PROVE  SniffInv'
<1>1. SniffType /\ (Idle \/ \E m, c : Begun(m, c))
  BY DEF SniffInv
<1>2. /\ at + 1 \in 1..Len(pcap) /\ at \in Nat
      /\ CarriedTo(at + 1) = CarriedTo(at) \cup Places(Pkt.payload)
  BY <1>1, NextPacket
<1>3. SniffType'
  <2>1. \A k \in 1..Len(pcap) : Captured(pcap[k], k - 1)'
    BY <1>1 DEF SniffType, Captured
  <2> QED BY <1>1, <1>2, <2>1 DEF SniffType
<1>4. CarriedTo(at)' = CarriedTo(at + 1)
  BY DEF CarriedTo
<1>5. Idle => Idle'
  BY <1>4 DEF Idle
<1>6. ASSUME NEW m, NEW c, Begun(m, c) PROVE Begun(m, c)'
  <2> DEFINE s == streams[Sniffed]
  <2>1. /\ Kept(records, s.ts, skipped["gap"], m, c)
        /\ s = [buf |-> PartOf(Content, c, m), next |-> (isn + m) % SEQS, ts |-> s.ts]
        /\ s.ts < at /\ keys = <<Sniffed>> /\ m \in CarriedTo(at)
    BY <1>6 DEF Begun
  <2>2. s.ts \in Nat
    BY <2>1 DEF Kept
  <2> HIDE DEF s
  <2>3. s.ts < at + 1
    BY <1>2, <2>1, <2>2
  <2>4. m \in CarriedTo(at + 1) /\ CarriedTo(at + 1) \subseteq 1..m
    BY <1>2, <1>6, <2>1
  <2>5. s = streams'[Sniffed]
    BY DEF s
  <2> QED BY <1>4, <2>1, <2>3, <2>4, <2>5 DEF Begun
<1> QED BY <1>1, <1>3, <1>5, <1>6 DEF SniffInv

\* What is had, when payload Content[f+1 .. l] was taken after some of the rest of
\* the stream.
LEMMA SomeTaken ==
  ASSUME SniffInv, isn # NONE, isn' = isn, pcap' = pcap, step' = "convert", Reading,
         NEW m, NEW c, DOMAIN skipped' = Reasons, at' = at + 1, keys' = <<Sniffed>>,
         DOMAIN streams' = Streams,
         Kept(records', at, skipped'["gap"], m, c),
         streams'[Sniffed] = [buf |-> PartOf(Content, c, m), next |-> (isn + m) % SEQS, ts |-> at],
         m \in CarriedTo(at + 1), CarriedTo(at + 1) \subseteq 1..m
  PROVE  SniffInv'
<1>1. SniffType
  BY DEF SniffInv
<1>2. at + 1 \in 1..Len(pcap) /\ at \in Nat
  BY <1>1, NextPacket
<1>3. SniffType'
  <2>1. \A k \in 1..Len(pcap) : Captured(pcap[k], k - 1)'
    BY <1>1 DEF SniffType, Captured
  <2> QED BY <1>1, <1>2, <2>1 DEF SniffType
<1>4. CarriedTo(at)' = CarriedTo(at + 1)
  BY DEF CarriedTo
<1>5. Begun(m, c)'
  <2> DEFINE s == streams'[Sniffed]
  <2>1. s.ts = at /\ s = [buf |-> PartOf(Content, c, m), next |-> (isn' + m) % SEQS, ts |-> s.ts]
    OBVIOUS
  <2>2. s.ts < at'
    BY <1>2, <2>1
  <2> QED BY <1>4, <2>1, <2>2 DEF Begun
<1> QED BY <1>3, <1>5 DEF SniffInv

LEMMA TakeIs ==
  ASSUME SniffType, Key = Sniffed, Pkt.wall_time = at,
         NEW l \in 0..Len(Content), NEW b \in 0..l, NEW a \in 0..b, NEW next, NEW flushed,
         Take(flushed, PartOf(Content, a, b), next, PartOf(Content, b, l)),
         (next + (l - b)) % SEQS = (isn + l) % SEQS
  PROVE  LET all == PartOf(Content, a, l)
             c == a + Taken(all)
         IN  /\ DOMAIN streams' = Streams
             /\ streams'[Sniffed] = [buf |-> PartOf(Content, c, l), next |-> (isn + l) % SEQS, ts |-> at]
             /\ records' = (records \o flushed) \o FramesOf(Sniffed, at, all)
             /\ c \in 0..l
<1> DEFINE all == PartOf(Content, a, l)
           c == a + Taken(all)
           p == PartOf(Content, b, l)
<1>0. Content \in Seq(Nat) /\ Len(Content) \in Nat
  BY ContentAssumption
<1>1. PartOf(Content, a, b) \o p = all
  BY <1>0, PartsMeet
<1>2. Len(p) = l - b
  BY <1>0, Part
<1>3. a \in 0..l
  BY <1>0
<1>4. c \in a..l /\ Rest(all) = PartOf(Content, c, l)
  <2>1. at \in Int
    BY DEF SniffType
  <2>2. LET frames == FramesOf(Sniffed, at, all)
        IN c \in a..l /\ Rest(all) = PartOf(Content, c, l) /\ Laid(frames, a, c)
    BY <1>3, <2>1, SniffedStream, FramesOfPart
  <2> QED BY <2>2
<1>5. SubSeq(all, Taken(all) + 1, Len(all)) = PartOf(Content, c, l)
  BY <1>4 DEF Rest, PartOf
<1>6. /\ streams' = [streams EXCEPT ![Key] =
           [buf |-> SubSeq(all, Taken(all) + 1, Len(all)),
            next |-> (next + Len(p)) % SEQS, ts |-> Pkt.wall_time]]
      /\ records' = records \o flushed \o FramesOf(Key, Pkt.wall_time, all)
  <2> HIDE DEF all, p
  <2> QED BY <1>1 DEF Take, FramesOf, p
<1> HIDE DEF all, p, c
<1>7. streams' = [streams EXCEPT ![Sniffed] =
           [buf |-> PartOf(Content, c, l), next |-> (isn + l) % SEQS, ts |-> at]]
  BY <1>2, <1>5, <1>6
<1>8. DOMAIN streams = Streams
  BY DEF SniffType
<1>9. DOMAIN streams' = Streams
      /\ streams'[Sniffed] = [buf |-> PartOf(Content, c, l), next |-> (isn + l) % SEQS, ts |-> at]
  BY <1>7, <1>8, SniffedStream
<1>10. c \in 0..l
  BY <1>0, <1>3, <1>4
<1> QED BY <1>6, <1>9, <1>10 DEF all, c

LEMMA NoBytes ==
  ASSUME NEW f \in 0..Len(Content)
  PROVE  PartOf(Content, f, f) = <<>>
<1>1. f \in 0..f /\ f - f = 0 /\ Content \in Seq(Nat)
  BY ContentAssumption
<1>2. PartOf(Content, f, f) \in Seq(Nat) /\ Len(PartOf(Content, f, f)) = 0
  BY <1>1, Part
<1> QED BY <1>2

LEMMA EntryOfKey ==
  ASSUME HasPayload, Key = Sniffed, keys \in {<<>>, <<Sniffed>>}
  PROVE  keys' = <<Sniffed>>
<1>1. keys' = IF Contains(keys, Sniffed) THEN keys ELSE Append(keys, Sniffed)
  BY DEF HasPayload
<1>2. CASE keys = <<>>
  <2>1. ~Contains(<<>>, Sniffed)
    BY DEF Contains
  <2>2. Append(<<>>, Sniffed) = <<Sniffed>>
    OBVIOUS
  <2> QED BY <1>1, <1>2, <2>1, <2>2
<1>3. CASE keys = <<Sniffed>>
  <2>1. Len(<<Sniffed>>) = 1 /\ <<Sniffed>>[1] = Sniffed /\ 1 \in 1..1
    OBVIOUS
  <2>2. Contains(<<Sniffed>>, Sniffed)
    BY <2>1 DEF Contains
  <2> QED BY <1>1, <1>3, <2>2
<1> QED BY <1>2, <1>3

LEMMA NothingFlushed ==
  ASSUME NEW q \in Seq(RowType)
  PROVE  q \o <<>> = q /\ (<<>> \o <<>>) \o q = q
BY ConcatEmptySeq

\* The payload continues what it has.
LEMMA Continues ==
  ASSUME SniffInv, isn # NONE, isn' = isn, pcap' = pcap, step' = "convert", HasPayload, at' = at + 1,
         skipped' = skipped, Key = Sniffed, Pkt.wall_time = at,
         NEW m, NEW c, Begun(m, c), NEW l \in 0..Len(Content), l > m, NEW f \in 0..m,
         CarriedTo(at + 1) = CarriedTo(at) \cup f+1..l,
         Take(<<>>, PartOf(Content, c, m), (isn + m) % SEQS, PartOf(Content, m, l))
  PROVE  SniffInv'
<1> DEFINE all == PartOf(Content, c, l)
           e == c + Taken(all)
           s == streams[Sniffed]
<1>1. SniffType
  BY DEF SniffInv
<1>2. Kept(records, s.ts, skipped["gap"], m, c) /\ s.ts < at /\ keys = <<Sniffed>> /\ CarriedTo(at) \subseteq 1..m
  BY DEF Begun
<1>3. /\ m \in Nat /\ c \in 0..m /\ s.ts \in Nat /\ l \in Nat /\ m \in 0..l /\ isn \in Nat /\ SEQS \in Nat /\ SEQS > 1
      /\ m \in 1..Len(Content) /\ f \in Nat /\ f + 1 <= l
  BY <1>1, <1>2, ContentAssumption, SEQSAssumption DEF Kept, SniffType
<1>4. (((isn + m) % SEQS) + (l - m)) % SEQS = (isn + l) % SEQS
  <2>1. isn + m \in Int /\ l - m \in Int /\ (isn + m) + (l - m) = isn + l
    BY <1>3
  <2> QED BY <1>3, <2>1, ModPlus
<1>5. at \in Nat /\ s.ts <= at
  <2>1. at \in Nat
    BY <1>1 DEF SniffType
  <2> DEFINE ts == s.ts
  <2>2. ts \in Nat /\ ts < at
    BY <1>2, <1>3
  <2> HIDE DEF ts
  <2>3. ts <= at
    BY <2>1, <2>2
  <2> QED BY <2>1, <2>3 DEF ts
<1>6. /\ DOMAIN streams' = Streams
      /\ streams'[Sniffed] = [buf |-> PartOf(Content, e, l), next |-> (isn + l) % SEQS, ts |-> at]
      /\ records' = (records \o <<>>) \o FramesOf(Sniffed, at, all)
  BY <1>1, <1>3, <1>4, TakeIs
<1>7. records \o <<>> = records
  <2>1. records \in Seq(RowType)
    BY <1>2 DEF Kept, Laid
  <2> QED BY <2>1, NothingFlushed
<1>8. Kept(records \o FramesOf(Sniffed, at, all), at, skipped["gap"], l, e)
  <2> HIDE DEF s
  <2> QED BY <1>2, <1>3, <1>5, Extended
<1>9. keys' = <<Sniffed>>
  BY <1>2, EntryOfKey
<1>10. l \in CarriedTo(at + 1) /\ CarriedTo(at + 1) \subseteq 1..l
  BY <1>2, <1>3
<1>11. Reading
  BY DEF HasPayload
<1>12. DOMAIN skipped' = Reasons
  BY <1>1 DEF SniffType
<1> HIDE DEF all, e, s
<1> QED BY <1>6, <1>7, <1>8, <1>9, <1>10, <1>11, <1>12, SomeTaken

LEMMA InOrderKeeps ==
  ASSUME SniffInv, isn # NONE, InOrder
  PROVE  SniffInv'
<1>1. SniffType /\ Reading /\ Key \in Streams /\ Pkt.payload # <<>> /\ (Idle \/ \E m, c : Begun(m, c))
  BY DEF SniffInv, InOrder, HasPayload
<1>2. /\ isn' = isn /\ pcap' = pcap /\ step' = "convert" /\ HasPayload /\ at' = at + 1 /\ skipped' = skipped
      /\ Ahead = 0 /\ Take(<<>>, st.buf, Next_(st, Pkt.seq), Pkt.payload)
  BY DEF InOrder, HasPayload, Reading
<1>3. PICK l \in 1..Len(Content) : \E f \in 0..l - 1 :
           /\ Key = Sniffed /\ Pkt.seq = (isn + f) % SEQS /\ Pkt.seq \in Nat
           /\ Pkt.payload = PartOf(Content, f, l) /\ Pkt.payload \in Seq(Nat) /\ Len(Pkt.payload) = l - f
           /\ Pkt.wall_time = at
           /\ CarriedTo(at + 1) = CarriedTo(at) \cup f+1..l
           /\ Idle => Ahead = 0 /\ Next_(st, Pkt.seq) = Pkt.seq
           /\ \A m, c : Begun(m, c) => Ahead = f - m /\ Next_(st, Pkt.seq) = (isn + m) % SEQS
  BY <1>1, Payload
<1>4. PICK f \in 0..l - 1 :
           /\ Key = Sniffed /\ Pkt.seq = (isn + f) % SEQS /\ Pkt.seq \in Nat
           /\ Pkt.payload = PartOf(Content, f, l) /\ Pkt.payload \in Seq(Nat) /\ Len(Pkt.payload) = l - f
           /\ Pkt.wall_time = at
           /\ CarriedTo(at + 1) = CarriedTo(at) \cup f+1..l
           /\ Idle => Ahead = 0 /\ Next_(st, Pkt.seq) = Pkt.seq
           /\ \A m, c : Begun(m, c) => Ahead = f - m /\ Next_(st, Pkt.seq) = (isn + m) % SEQS
  BY <1>3
<1>5. /\ l \in 0..Len(Content) /\ l \in Nat /\ f \in Nat /\ f < l /\ f \in 0..l /\ f \in 0..f /\ f \in 0..Len(Content)
      /\ isn \in Nat /\ SEQS \in Nat /\ SEQS > 1 /\ at \in Nat /\ st = streams[Sniffed]
  <2>1. Len(Content) \in Nat /\ isn \in Nat /\ SEQS \in Nat /\ SEQS > 1 /\ at \in Nat
    BY <1>1, ContentAssumption, SEQSAssumption DEF SniffType
  <2>2. st = streams[Sniffed]
    BY <1>4 DEF st
  <2>3. l \in 1..Len(Content) /\ f \in 0..l - 1
    BY <1>3, <1>4
  <2> QED BY <2>1, <2>2, <2>3
<1>6. CASE Idle
  <2> DEFINE all == PartOf(Content, f, l)
             e == f + Taken(all)
             frames == FramesOf(Sniffed, at, all)
  <2>1. st.buf = PartOf(Content, f, f) /\ Next_(st, Pkt.seq) = (isn + f) % SEQS
    BY <1>4, <1>5, <1>6, NoBytes DEF Idle, NewStream
  <2>2. records = <<>> /\ keys = <<>> /\ skipped["gap"] = 0 /\ CarriedTo(at) = {}
    BY <1>6 DEF Idle
  <2>3. (((isn + f) % SEQS) + (l - f)) % SEQS = (isn + l) % SEQS
    <3>1. isn + f \in Int /\ l - f \in Int /\ (isn + f) + (l - f) = isn + l
      BY <1>5
    <3> QED BY <1>5, <3>1, ModPlus
  <2>4. Take(<<>>, PartOf(Content, f, f), (isn + f) % SEQS, PartOf(Content, f, l))
    BY <1>2, <1>4, <2>1
  <2>5. /\ DOMAIN streams' = Streams
        /\ streams'[Sniffed] = [buf |-> PartOf(Content, e, l), next |-> (isn + l) % SEQS, ts |-> at]
        /\ records' = (records \o <<>>) \o frames
    <3>1. SniffType /\ Key = Sniffed /\ Pkt.wall_time = at
      BY <1>1, <1>4
    <3>2. l \in 0..Len(Content) /\ f \in 0..l /\ f \in 0..f
      BY <1>5
    <3> QED BY <2>3, <2>4, <3>1, <3>2, TakeIs
  <2>6. Kept(frames, at, 0, l, e)
    BY <1>5, Started
  <2>7. records' = frames
    <3>1. frames \in Seq(RowType)
      BY <2>6 DEF Kept, Laid
    <3> HIDE DEF frames
    <3>2. records' = (<<>> \o <<>>) \o frames
      BY <2>2, <2>5
    <3> QED BY <3>1, <3>2, NothingFlushed
  <2>8. keys' = <<Sniffed>>
    BY <1>2, <1>4, <2>2, EntryOfKey
  <2>9. l \in CarriedTo(at + 1) /\ CarriedTo(at + 1) \subseteq 1..l
    BY <1>4, <1>5, <2>2, SMTT(30)
  <2>10. DOMAIN skipped' = Reasons /\ skipped'["gap"] = 0
    BY <1>1, <1>2, <2>2 DEF SniffType
  <2> HIDE DEF all, e, frames
  <2>11. Kept(records', at, skipped'["gap"], l, e)
    BY <2>6, <2>7, <2>10
  <2> QED BY <1>1, <1>2, <2>5, <2>8, <2>9, <2>10, <2>11, SomeTaken
<1>7. CASE \E m, c : Begun(m, c)
  <2>1. PICK m, c : Begun(m, c)
    BY <1>7
  <2>2. m \in Nat /\ st.buf = PartOf(Content, c, m)
    <3>1. /\ Kept(records, streams[Sniffed].ts, skipped["gap"], m, c)
          /\ streams[Sniffed].buf = PartOf(Content, c, m)
      BY <2>1 DEF Begun
    <3>2. m \in 1..Len(Content)
      BY <3>1, Zenon DEF Kept
    <3>3. m \in Nat
      <4>1. Len(Content) \in Nat
        BY ContentAssumption
      <4> QED BY <3>2, <4>1
    <3> QED BY <1>4, <3>1, <3>3 DEF st
  <2>3. Ahead = f - m /\ Next_(st, Pkt.seq) = (isn + m) % SEQS
    BY <1>4, <2>1
  <2>4. f = m
    BY <1>2, <1>5, <2>2, <2>3
  <2>5. Take(<<>>, PartOf(Content, c, m), (isn + m) % SEQS, PartOf(Content, m, l))
    BY <1>2, <1>4, <2>2, <2>3, <2>4
  <2>6. l > m /\ f \in 0..m
    BY <1>5, <2>4
  <2> QED BY <1>2, <1>4, <1>5, <2>1, <2>5, <2>6, Continues
<1> QED BY <1>1, <1>6, <1>7

LEMMA OverlapKeeps ==
  ASSUME SniffInv, isn # NONE, Overlap
  PROVE  SniffInv'
<1>1. SniffType /\ Reading /\ Key \in Streams /\ Pkt.payload # <<>> /\ (Idle \/ \E m, c : Begun(m, c))
  BY DEF SniffInv, Overlap, HasPayload
<1>2. /\ isn' = isn /\ pcap' = pcap /\ step' = "convert" /\ HasPayload /\ at' = at + 1 /\ skipped' = skipped
      /\ Ahead < 0 /\ -Ahead < Len(Pkt.payload)
      /\ Take(<<>>, st.buf, st.next, SubSeq(Pkt.payload, 1 - Ahead, Len(Pkt.payload)))
  BY DEF Overlap, HasPayload, Reading
<1>3. PICK l \in 1..Len(Content) : \E f \in 0..l - 1 :
           /\ Key = Sniffed
           /\ Pkt.payload = PartOf(Content, f, l) /\ Len(Pkt.payload) = l - f
           /\ Pkt.wall_time = at
           /\ CarriedTo(at + 1) = CarriedTo(at) \cup f+1..l
           /\ Idle => Ahead = 0
           /\ \A m, c : Begun(m, c) => Ahead = f - m
  BY <1>1, Payload
<1>4. PICK f \in 0..l - 1 :
           /\ Key = Sniffed
           /\ Pkt.payload = PartOf(Content, f, l) /\ Len(Pkt.payload) = l - f
           /\ Pkt.wall_time = at
           /\ CarriedTo(at + 1) = CarriedTo(at) \cup f+1..l
           /\ Idle => Ahead = 0
           /\ \A m, c : Begun(m, c) => Ahead = f - m
  BY <1>3
<1>5. ~Idle
  <2>1. Idle => Ahead = 0 /\ Ahead < 0
    BY <1>2, <1>4
  <2> QED BY <2>1
<1>6. PICK m, c : Begun(m, c)
  BY <1>1, <1>5
<1>7. /\ m \in Nat /\ l \in Nat /\ f \in Nat /\ f < l /\ l \in 0..Len(Content) /\ f \in 0..l
      /\ st.buf = PartOf(Content, c, m) /\ st.next = (isn + m) % SEQS /\ m <= Len(Content)
  <2>1. st = streams[Sniffed]
    BY <1>4 DEF st
  <2>2. Len(Content) \in Nat /\ m \in 1..Len(Content)
    BY <1>6, ContentAssumption DEF Begun, Kept
  <2>3. st.buf = PartOf(Content, c, m) /\ st.next = (isn + m) % SEQS
    BY <1>6, <2>1 DEF Begun
  <2> QED BY <1>3, <1>4, <2>2, <2>3
<1>8. Ahead = f - m
  BY <1>4, <1>6
<1>9. f < m /\ m < l
  BY <1>2, <1>4, <1>7, <1>8
<1>10. SubSeq(Pkt.payload, 1 - Ahead, Len(Pkt.payload)) = PartOf(Content, m, l)
  <2>1. 1 - Ahead = (m - f) + 1
    BY <1>7, <1>8
  <2>2. SubSeq(Pkt.payload, 1 - Ahead, Len(Pkt.payload)) = PartOf(PartOf(Content, f, l), m - f, l - f)
    BY <1>4, <2>1 DEF PartOf
  <2>3. l - f \in 0..l - f /\ m - f \in 0..l - f /\ f + (m - f) = m /\ f + (l - f) = l
    BY <1>7, <1>9
  <2>4. PartOf(PartOf(Content, f, l), m - f, l - f) = PartOf(Content, f + (m - f), f + (l - f))
    BY <1>7, <2>3, PartOfPart, ContentAssumption
  <2> QED BY <2>2, <2>3, <2>4
<1>11. Take(<<>>, PartOf(Content, c, m), (isn + m) % SEQS, PartOf(Content, m, l))
  BY <1>2, <1>7, <1>10
<1>12. f \in 0..m /\ l > m
  BY <1>7, <1>9
<1> QED BY <1>2, <1>4, <1>6, <1>7, <1>11, <1>12, Continues

LEMMA GapKeeps ==
  ASSUME SniffInv, isn # NONE, Gap
  PROVE  SniffInv'
<1>1. SniffType /\ Reading /\ Key \in Streams /\ Pkt.payload # <<>> /\ (Idle \/ \E m, c : Begun(m, c))
  BY DEF SniffInv, Gap, HasPayload
<1>2. /\ isn' = isn /\ pcap' = pcap /\ step' = "convert" /\ HasPayload /\ at' = at + 1
      /\ skipped' = [skipped EXCEPT !["gap"] = @ + 1]
      /\ Ahead > 0 /\ Take(Broken, <<>>, Pkt.seq, Pkt.payload)
  BY DEF Gap, HasPayload, Reading, Count
<1>3. PICK l \in 1..Len(Content) : \E f \in 0..l - 1 :
           /\ Key = Sniffed /\ Pkt.seq = (isn + f) % SEQS
           /\ Pkt.payload = PartOf(Content, f, l)
           /\ Pkt.wall_time = at
           /\ CarriedTo(at + 1) = CarriedTo(at) \cup f+1..l
           /\ Idle => Ahead = 0
           /\ \A m, c : Begun(m, c) => Ahead = f - m
  BY <1>1, Payload
<1>4. PICK f \in 0..l - 1 :
           /\ Key = Sniffed /\ Pkt.seq = (isn + f) % SEQS
           /\ Pkt.payload = PartOf(Content, f, l)
           /\ Pkt.wall_time = at
           /\ CarriedTo(at + 1) = CarriedTo(at) \cup f+1..l
           /\ Idle => Ahead = 0
           /\ \A m, c : Begun(m, c) => Ahead = f - m
  BY <1>3
<1>5. ~Idle
  <2>1. Idle => Ahead = 0 /\ Ahead > 0
    BY <1>2, <1>4
  <2> QED BY <2>1
<1>6. PICK m, c : Begun(m, c)
  BY <1>1, <1>5
<1> DEFINE all == PartOf(Content, f, l)
           e == f + Taken(all)
           s == streams[Sniffed]
           left == Flushed(s.ts, PartOf(Content, c, m))
           frames == FramesOf(Sniffed, at, all)
<1>7. /\ Kept(records, s.ts, skipped["gap"], m, c) /\ s.ts < at /\ keys = <<Sniffed>>
      /\ s.buf = PartOf(Content, c, m) /\ CarriedTo(at) \subseteq 1..m
  BY <1>6 DEF Begun
<1>8. /\ m \in Nat /\ l \in Nat /\ f \in Nat /\ f < l /\ l \in 0..Len(Content) /\ f \in 0..l /\ f \in 0..f /\ f \in 0..Len(Content)
      /\ isn \in Nat /\ SEQS \in Nat /\ SEQS > 1 /\ at \in Nat
  <2>1. Len(Content) \in Nat /\ m \in 1..Len(Content)
    BY <1>7, ContentAssumption DEF Kept
  <2>2. isn \in Nat /\ SEQS \in Nat /\ SEQS > 1 /\ at \in Nat
    BY <1>1, SEQSAssumption DEF SniffType
  <2> HIDE DEF s
  <2> QED BY <1>3, <1>4, <2>1, <2>2
<1>9. f > m
  <2>1. Ahead = f - m
    BY <1>4, <1>6
  <2> QED BY <1>2, <1>8, <2>1
<1>10. Broken = left
  <2>1. st = s
    BY <1>4 DEF st
  <2> QED BY <1>4, <1>7, <2>1 DEF Broken, Flushed
<1>11. (((isn + f) % SEQS) + (l - f)) % SEQS = (isn + l) % SEQS
  <2> DEFINE y == isn + f
             z == l - f
  <2>1. y \in Int /\ z \in Int /\ y + z = isn + l
    BY <1>8
  <2> HIDE DEF y, z
  <2>2. ((y % SEQS) + z) % SEQS = (y + z) % SEQS
    BY <1>8, <2>1, ModPlus
  <2> QED BY <2>1, <2>2, Zenon DEF y, z
<1>12. Take(left, PartOf(Content, f, f), (isn + f) % SEQS, PartOf(Content, f, l))
  BY <1>2, <1>4, <1>8, <1>10, NoBytes
<1> HIDE DEF left
<1>13. /\ DOMAIN streams' = Streams
       /\ streams'[Sniffed] = [buf |-> PartOf(Content, e, l), next |-> (isn + l) % SEQS, ts |-> at]
       /\ records' = (records \o left) \o frames
  <2>1. SniffType /\ Key = Sniffed /\ Pkt.wall_time = at
    BY <1>1, <1>4
  <2>2. l \in 0..Len(Content) /\ f \in 0..l /\ f \in 0..f
    BY <1>8
  <2> QED BY <1>11, <1>12, <2>1, <2>2, TakeIs
<1>14. DOMAIN skipped' = Reasons /\ skipped'["gap"] = skipped["gap"] + 1
  <2>1. DOMAIN skipped = Reasons /\ "gap" \in Reasons
    BY <1>1 DEF SniffType, Reasons
  <2> QED BY <1>2, <2>1
<1>15. s.ts \in Nat /\ s.ts <= at
  <2> DEFINE ts == s.ts
  <2>1. ts \in Nat /\ ts < at /\ at \in Nat
    BY <1>7, <1>8 DEF Kept
  <2> HIDE DEF ts
  <2>2. ts \in Nat /\ ts <= at
    BY <2>1
  <2> QED BY <2>2 DEF ts
<1>16. Kept((records \o left) \o frames, at, skipped["gap"] + 1, l, e)
  <2> HIDE DEF s
  <2> QED BY <1>7, <1>8, <1>9, <1>15, Restarted DEF left
<1>17. keys' = <<Sniffed>>
  BY <1>2, <1>4, <1>7, EntryOfKey
<1>18. l \in CarriedTo(at + 1) /\ CarriedTo(at + 1) \subseteq 1..l
  BY <1>4, <1>7, <1>8, <1>9
<1> HIDE DEF all, e, s, frames
<1>19. Kept(records', at, skipped'["gap"], l, e)
  BY <1>13, <1>14, <1>16
<1> QED BY <1>1, <1>2, <1>13, <1>14, <1>17, <1>18, <1>19, SomeTaken

LEMMA SeenBeforeKeeps ==
  ASSUME SniffInv, isn # NONE, SeenBefore
  PROVE  SniffInv'
<1>1. SniffType /\ Reading /\ Key \in Streams /\ Pkt.payload # <<>> /\ (Idle \/ \E m, c : Begun(m, c))
  BY DEF SniffInv, SeenBefore, HasPayload
<1>2. /\ isn' = isn /\ pcap' = pcap /\ step' = "convert" /\ HasPayload /\ at' = at + 1
      /\ streams' = streams /\ records' = records
      /\ skipped' = [skipped EXCEPT !["retransmission"] = @ + 1]
      /\ Ahead < 0 /\ -Ahead >= Len(Pkt.payload)
  BY DEF SeenBefore, HasPayload, Reading, Count
<1>3. PICK l \in 1..Len(Content) : \E f \in 0..l - 1 :
           /\ Key = Sniffed /\ Len(Pkt.payload) = l - f
           /\ CarriedTo(at + 1) = CarriedTo(at) \cup f+1..l
           /\ Idle => Ahead = 0
           /\ \A m, c : Begun(m, c) => Ahead = f - m
  BY <1>1, Payload
<1>4. PICK f \in 0..l - 1 :
           /\ Key = Sniffed /\ Len(Pkt.payload) = l - f
           /\ CarriedTo(at + 1) = CarriedTo(at) \cup f+1..l
           /\ Idle => Ahead = 0
           /\ \A m, c : Begun(m, c) => Ahead = f - m
  BY <1>3
<1>5. ~Idle
  <2>1. Idle => Ahead = 0 /\ Ahead < 0
    BY <1>2, <1>4
  <2> QED BY <2>1
<1>6. ASSUME NEW m, NEW c, Begun(m, c) PROVE CarriedTo(at + 1) \subseteq 1..m
  <2>1. m \in 1..Len(Content) /\ Len(Content) \in Nat /\ CarriedTo(at) \subseteq 1..m
    BY <1>6, ContentAssumption DEF Begun, Kept
  <2>2. Ahead = f - m
    BY <1>4, <1>6
  <2>3. l <= m
    BY <1>2, <1>3, <1>4, <2>1, <2>2
  <2> QED BY <1>3, <1>4, <2>1, <2>3
<1>7. keys' = keys
  <2>1. PICK m, c : Begun(m, c)
    BY <1>1, <1>5
  <2>2. keys = <<Sniffed>>
    BY <2>1 DEF Begun
  <2> QED BY <1>2, <1>4, <2>2, EntryOfKey
<1>8. DOMAIN skipped' = Reasons /\ skipped'["gap"] = skipped["gap"]
  <2>1. DOMAIN skipped = Reasons /\ "gap" \in Reasons
    BY <1>1 DEF SniffType, Reasons
  <2> QED BY <1>2, <2>1
<1> QED BY <1>1, <1>2, <1>5, <1>6, <1>7, <1>8, NothingTaken

LEMMA SkipKeeps ==
  ASSUME SniffInv, isn # NONE, SkipForeign \/ SkipEmpty
  PROVE  SniffInv'
<1>1. SniffType /\ Reading
  BY DEF SniffInv, SkipForeign, SkipEmpty
<1>2. /\ isn' = isn /\ pcap' = pcap /\ step' = "convert" /\ at' = at + 1
      /\ streams' = streams /\ records' = records /\ keys' = keys
      /\ DOMAIN skipped' = Reasons /\ skipped'["gap"] = skipped["gap"]
  <2>1. DOMAIN skipped = Reasons /\ "gap" \in Reasons
    BY <1>1 DEF SniffType, Reasons
  <2>2. skipped' = skipped \/ skipped' = [skipped EXCEPT !["foreign"] = @ + 1]
    BY DEF SkipForeign, SkipEmpty, Count
  <2>3. DOMAIN skipped' = Reasons /\ skipped'["gap"] = skipped["gap"]
    BY <2>1, <2>2
  <2> QED BY <2>3 DEF SkipForeign, SkipEmpty, Reading
<1>3. Pkt.payload = <<>>
  <2>1. CASE SkipEmpty
    BY <2>1 DEF SkipEmpty
  <2>2. CASE SkipForeign
    <3>1. StreamOf(Pkt) # Sniffed
      BY <2>2, SniffedStream DEF SkipForeign, Key
    <3> QED BY <1>1, <3>1, NextPacket DEF Captured
  <2> QED BY <2>1, <2>2
<1>4. CarriedTo(at + 1) = CarriedTo(at)
  <2>1. Places(<<>>) = {}
    BY DEF Places
  <2>2. CarriedTo(at + 1) = CarriedTo(at) \cup Places(<<>>)
    BY <1>1, <1>3, NextPacket
  <2> QED BY <2>1, <2>2
<1>5. /\ \A m, c : Begun(m, c) => CarriedTo(at + 1) \subseteq 1..m
      /\ Idle => CarriedTo(at + 1) = {}
  BY <1>4 DEF Begun, Idle
<1> QED BY <1>1, <1>2, <1>5, NothingTaken

LEMMA CaptureKeeps ==
  ASSUME SniffInv, isn # NONE, NEW p \in PacketType, Captured(p, Len(pcap)), Capture(p)
  PROVE  SniffInv'
<1>1. SniffType /\ at = 0 /\ step = "sniff" /\ pcap' = Append(pcap, p)
  BY DEF SniffInv, SniffType, Capture
<1>2. /\ step' = step /\ isn' = isn /\ at' = at /\ streams' = streams /\ keys' = keys
      /\ records' = records /\ skipped' = skipped /\ csv' = csv
  BY DEF Capture, convertVars
<1>3. SniffType'
  <2>1. pcap \in Seq(PacketType) /\ Len(pcap) \in Nat
    BY <1>1 DEF SniffType
  <2>2. /\ pcap' \in Seq(PacketType) /\ Len(pcap') = Len(pcap) + 1 /\ pcap'[Len(pcap) + 1] = p
        /\ \A k \in 1..Len(pcap) : pcap'[k] = pcap[k]
    BY <1>1, <2>1
  <2>3. ASSUME NEW k \in 1..Len(pcap') PROVE Captured(pcap'[k], k - 1)
    <3>1. CASE k = Len(pcap) + 1
      <4>1. k - 1 = Len(pcap) /\ pcap'[k] = p
        BY <2>1, <2>2, <3>1
      <4> QED BY <4>1
    <3>2. CASE k \in 1..Len(pcap)
      BY <1>1, <2>2, <3>2 DEF SniffType
    <3> QED BY <2>1, <2>2, <3>1, <3>2
  <2>4. (\A k \in 1..Len(pcap) : Captured(pcap[k], k - 1))'
    BY <1>2, <2>3 DEF Captured
  <2>5. at' \in 0..Len(pcap')
    BY <1>1, <1>2, <2>1, <2>2
  <2> QED BY <1>1, <1>2, <2>2, <2>4, <2>5 DEF SniffType
<1>4. CarriedTo(0) = {} /\ CarriedTo(0)' = {}
  BY DEF CarriedTo
<1>5. Idle
  <2>1. Idle \/ \E m, c : Begun(m, c)
    BY DEF SniffInv
  <2>2. ASSUME NEW m, NEW c, Begun(m, c) PROVE FALSE
    BY <1>1, <1>4, <2>2 DEF Begun
  <2> QED BY <2>1, <2>2
<1>6. Idle'
  BY <1>1, <1>2, <1>4, <1>5 DEF Idle
<1> QED BY <1>1, <1>2, <1>3, <1>6 DEF SniffInv

LEMMA SniffKeeps ==
  ASSUME SniffInv, isn # NONE, Sniff
  PROVE  SniffInv'
<1>1. SniffType
  BY DEF SniffInv
<1>2. Len(pcap) \in Nat
  BY <1>1 DEF SniffType
<1>3. ASSUME NEW first \in 1..Len(Content), NEW last \in first..Len(Content), CaptureSegment(first, last)
      PROVE  SniffInv'
  <2> DEFINE p == Packet(Sniffed[1], Sniffed[2], Len(pcap), Seqno(first), 0, {ACK}, SubSeq(Content, first, last))
             f == first - 1
  <2>1. /\ Len(Content) \in Nat /\ Content \in Seq(Nat) /\ isn \in Nat /\ SEQS \in Nat /\ SEQS > 1
    BY <1>1, ContentAssumption, SEQSAssumption DEF SniffType
  <2>2. last \in 1..Len(Content) /\ f \in 0..last - 1 /\ f \in 0..last /\ last \in 0..Len(Content) /\ f + 1 = first /\ isn + f \in Int
    BY <2>1
  <2>3. Seqno(first) = (isn + f) % SEQS
    <3>1. isn + first - 1 = isn + f
      BY <2>1
    <3> HIDE DEF f
    <3> QED BY <3>1 DEF Seqno
  <2>4. SubSeq(Content, first, last) = PartOf(Content, f, last)
    BY <2>2 DEF PartOf
  <2>5. PartOf(Content, f, last) \in Seq(Nat)
    BY <2>1, <2>2, Part
  <2>6. (isn + f) % SEQS \in Nat
    BY <2>1, <2>2, ModRange
  <2>7. <<Sniffed[1], Sniffed[2]>> = Sniffed /\ Sniffed[1] \in Clients /\ Sniffed[2] \in {"req", "resp"}
    BY SniffedStream DEF Streams
  <2> HIDE DEF f
  <2>8. p \in PacketType
    BY <1>2, <2>3, <2>4, <2>5, <2>6, <2>7 DEF Packet, PacketType
  <2>9. p.wall_time = Len(pcap) /\ StreamOf(p) = Sniffed /\ p.seq = (isn + f) % SEQS /\ p.payload = PartOf(Content, f, last)
    BY <2>3, <2>4, <2>7 DEF Packet, StreamOf
  <2>10. Capture(p)
    BY <1>3 DEF CaptureSegment
  <2> HIDE DEF p
  <2>11. Captured(p, Len(pcap))
    BY <2>2, <2>9 DEF Captured
  <2> QED BY <2>8, <2>10, <2>11, CaptureKeeps
<1>4. CASE CaptureForeign
  <2> DEFINE p == Packet(Foreign, "req", Len(pcap), 0, 0, {}, <<>>)
  <2>1. p \in PacketType /\ p.wall_time = Len(pcap) /\ p.payload = <<>>
    <3>1. <<>> \in Seq(Nat)
      OBVIOUS
    <3> QED BY <1>2, <3>1 DEF Packet, PacketType
  <2>2. Capture(p)
    BY <1>4 DEF CaptureForeign
  <2> HIDE DEF p
  <2>3. Captured(p, Len(pcap))
    BY <2>1 DEF Captured
  <2> QED BY <2>1, <2>2, <2>3, CaptureKeeps
<1>5. CASE EndOfCapture
  <2>1. /\ step = "sniff" /\ step' = "convert" /\ pcap' = pcap /\ isn' = isn /\ at' = at /\ streams' = streams /\ keys' = keys
        /\ records' = records /\ skipped' = skipped /\ csv' = csv
    BY <1>5 DEF EndOfCapture, convertVars
  <2>2. SniffType'
    <3>1. (\A k \in 1..Len(pcap) : Captured(pcap[k], k - 1))'
      BY <1>1, <2>1 DEF Captured, SniffType
    <3> QED BY <1>1, <2>1, <3>1 DEF SniffType
  <2>3. CarriedTo(at)' = CarriedTo(at)
    BY <2>1 DEF CarriedTo
  <2>4. Idle => Idle'
    BY <2>1, <2>3 DEF Idle
  <2>5. \A m, c : Begun(m, c) => Begun(m, c)'
    BY <2>1, <2>3 DEF Begun
  <2> QED BY <2>1, <2>2, <2>4, <2>5 DEF SniffInv
<1> QED BY <1>3, <1>4, <1>5 DEF Sniff

LEMMA FinalRows ==
  ASSUME SniffType, Idle \/ \E m, c : Begun(m, c)
  PROVE  WithBytes(records \o Left) = records \o Flushed(streams[Sniffed].ts, streams[Sniffed].buf)
<1> DEFINE s == streams[Sniffed]
           x == records \o Left
           r == Record(s.ts, Sniffed, s.buf)
           S == {k \in 1..Len(x) : HasBytes(x[k])}
<1>1. CASE Idle
  <2>1. records = <<>> /\ keys = <<>> /\ s.buf = <<>>
    BY <1>1 DEF Idle, NewStream
  <2>2. Len(keys) = 0 /\ 1..0 = {} /\ Left = <<>>
    BY <2>1 DEF Left
  <2>3. x = <<>> /\ Len(x) = 0
    BY <2>1, <2>2
  <2>4. S = 1..0
    BY <2>2, <2>3
  <2>5. SortedByTime(<<>>, 1..0) = [k \in 1..0 |-> <<>>[k]]
    <3>1. (\A k \in 1..0 : <<>>[k].wall_time \in Int) /\ 0 \in Nat
          /\ \A j, k \in 1..0 : j < k => <<>>[j].wall_time <= <<>>[k].wall_time
      BY <2>2
    <3> QED BY <3>1, SortedAlready
  <2>6. WithBytes(x) = <<>>
    BY <2>3, <2>4, <2>5 DEF WithBytes
  <2>7. records \o Flushed(s.ts, s.buf) = <<>>
    BY <2>1 DEF Flushed
  <2> QED BY <2>6, <2>7
<1>2. CASE \E m, c : Begun(m, c)
  <2>1. PICK m, c : Begun(m, c)
    BY <1>2
  <2>2. /\ keys = <<Sniffed>> /\ s.ts \in Nat /\ s.buf \in Seq(Nat)
        /\ Laid(records, 0, c) /\ Timed(records, 0, s.ts)
    <3>1. keys = <<Sniffed>> /\ s.buf = PartOf(Content, c, m) /\ Kept(records, s.ts, skipped["gap"], m, c)
      BY <2>1 DEF Begun
    <3>2. m \in 0..Len(Content) /\ c \in 0..m /\ Content \in Seq(Nat)
      BY <3>1, ContentAssumption DEF Kept
    <3>3. s.buf \in Seq(Nat)
      BY <3>1, <3>2, Part
    <3> QED BY <3>1, <3>3 DEF Kept
  <2> DEFINE N == Len(records)
             ts == s.ts
  <2>3. Left = <<r>>
    <3>1. Len(<<Sniffed>>) = 1 /\ <<Sniffed>>[1] = Sniffed /\ 1..1 = {1}
      OBVIOUS
    <3>2. Left = [k \in 1..1 |-> r]
      BY <2>2, <3>1 DEF Left
    <3> HIDE DEF r
    <3>3. [k \in 1..1 |-> r] = <<r>>
      OBVIOUS
    <3> QED BY <3>2, <3>3
  <2>4. r \in RowType /\ r.wall_time = ts /\ r.raw_hex = s.buf
    <3>1. Sniffed[1] \in Clients /\ Sniffed[2] \in {"req", "resp"}
      BY SniffedStream DEF Streams
    <3> QED BY <2>2, <3>1 DEF Record, Row, RowType
  <2>5. records \in Seq(RowType) /\ N \in Nat /\ ts \in Nat
    BY <2>2 DEF Laid
  <2> HIDE DEF r, ts
  <2>6. /\ x \in Seq(RowType) /\ Len(x) = N + 1 /\ x[N + 1] = r
        /\ \A k \in 1..N : x[k] = records[k]
    BY <2>3, <2>4, <2>5
  <2>7. \A k \in 1..N : HasBytes(x[k])
    <3> TAKE k \in 1..N
    <3>1. IsPiece(records[k].raw_hex)
      BY <2>2 DEF Laid
    <3>2. records[k].raw_hex # <<>>
      <4> DEFINE raw == records[k].raw_hex
      <4>1. Len(raw) >= 1 /\ Len(raw) \in Nat
        BY <3>1 DEF IsPiece
      <4>2. Len(<<>>) = 0
        OBVIOUS
      <4> HIDE DEF raw
      <4>3. raw # <<>>
        BY <4>1, <4>2
      <4> QED BY <4>3 DEF raw
    <3> QED BY <2>6, <3>2 DEF HasBytes
  <2>8. HasBytes(x[N + 1]) <=> s.buf # <<>>
    BY <2>4, <2>6 DEF HasBytes
  <2>9. \A k \in 1..N + 1 : x[k].wall_time \in 0..ts
    <3>1. \A k \in 1..N : records[k].wall_time \in 0..ts
      BY <2>2 DEF Timed, ts
    <3>2. r.wall_time \in 0..ts
      BY <2>4, <2>5
    <3> TAKE k \in 1..N + 1
    <3>3. k \in 1..N \/ k = N + 1
      BY <2>5
    <3> QED BY <2>6, <3>1, <3>2, <3>3
  <2>10. \A j, k \in 1..N + 1 : j < k => x[j].wall_time <= x[k].wall_time
    <3> SUFFICES ASSUME NEW j \in 1..N + 1, NEW k \in 1..N + 1, j < k
                 PROVE  x[j].wall_time <= x[k].wall_time
      OBVIOUS
    <3>1. CASE k \in 1..N
      <4>1. j \in 1..N
        BY <2>5, <3>1
      <4>2. records[j].wall_time <= records[k].wall_time
        BY <2>2, <3>1, <4>1 DEF Timed
      <4> QED BY <2>6, <3>1, <4>1, <4>2
    <3>2. CASE k = N + 1
      <4>1. x[k].wall_time = ts /\ x[j].wall_time \in 0..ts
        BY <2>4, <2>6, <2>9, <3>2
      <4> QED BY <2>5, <4>1
    <3>3. k \in 1..N \/ k = N + 1
      BY <2>5
    <3> QED BY <3>1, <3>2, <3>3
  <2> HIDE DEF x
  <2>11. CASE s.buf = <<>>
    <3>1. S = 1..N
      BY <2>5, <2>6, <2>7, <2>8, <2>11
    <3>2. \A k \in 1..N : k \in 1..N + 1
      BY <2>5
    <3>3. SortedByTime(x, 1..N) = [k \in 1..N |-> x[k]]
      <4>1. \A k \in 1..N : x[k].wall_time \in Int
        BY <2>5, <2>9, <3>2
      <4>2. \A j, k \in 1..N : j < k => x[j].wall_time <= x[k].wall_time
        BY <2>10, <3>2
      <4> HIDE DEF N
      <4> QED BY <2>5, <4>1, <4>2, SortedAlready
    <3>4. [k \in 1..N |-> x[k]] = records
      BY <2>5, <2>6
    <3>5. records \o Flushed(s.ts, s.buf) = records
      BY <2>5, <2>11, NothingFlushed, SMTT(30) DEF Flushed
    <3> QED BY <3>1, <3>3, <3>4, <3>5 DEF WithBytes, x
  <2>12. CASE s.buf # <<>>
    <3>1. S = 1..N + 1
      <4>1. \A k \in 1..N + 1 : HasBytes(x[k])
        BY <2>5, <2>7, <2>8, <2>12
      <4> QED BY <2>6, <4>1
    <3>3. SortedByTime(x, 1..N + 1) = [k \in 1..N + 1 |-> x[k]]
      <4>1. \A k \in 1..N + 1 : x[k].wall_time \in Int
        BY <2>5, <2>9
      <4> DEFINE M == N + 1
      <4>2. M \in Nat
        BY <2>5
      <4>3. \A k \in 1..M : x[k].wall_time \in Int
        BY <4>1
      <4>4. \A j, k \in 1..M : j < k => x[j].wall_time <= x[k].wall_time
        BY <2>10
      <4> HIDE DEF M
      <4>5. SortedByTime(x, 1..M) = [k \in 1..M |-> x[k]]
        BY <4>2, <4>3, <4>4, SortedAlready
      <4> QED BY <4>5 DEF M
    <3>4. [k \in 1..N + 1 |-> x[k]] = x
      BY <2>5, <2>6
    <3>5. x = records \o Flushed(s.ts, s.buf)
      BY <2>3, <2>12 DEF Flushed, x, r
    <3> QED BY <3>1, <3>3, <3>4, <3>5 DEF WithBytes, x
  <2> QED BY <2>11, <2>12
<1> QED BY <1>1, <1>2

LEMMA WriteCsvKeeps ==
  ASSUME SniffInv, isn # NONE, WriteCsv
  PROVE  SniffInv'
<1>1. SniffType /\ (Idle \/ \E m, c : Begun(m, c)) /\ at = Len(pcap)
  BY DEF SniffInv, WriteCsv
<1>2. /\ step' = "done" /\ pcap' = pcap /\ isn' = isn /\ at' = at /\ streams' = streams /\ keys' = keys
      /\ records' = records /\ csv' = WithBytes(records \o Left)
      /\ skipped' = [skipped EXCEPT !["incomplete"] = Cardinality(Incomplete)]
  BY DEF WriteCsv
<1>3. DOMAIN skipped' = Reasons /\ skipped'["gap"] = skipped["gap"]
  <2>1. DOMAIN skipped = Reasons /\ "gap" \in Reasons
    BY <1>1 DEF SniffType, Reasons
  <2> QED BY <1>2, <2>1
<1>4. SniffType'
  <2>1. (\A k \in 1..Len(pcap) : Captured(pcap[k], k - 1))'
    BY <1>1, <1>2 DEF Captured, SniffType
  <2> QED BY <1>1, <1>2, <1>3, <2>1 DEF SniffType
<1>5. CarriedTo(at)' = CarriedTo(at)
  BY <1>2 DEF CarriedTo
<1>6. Idle => Idle'
  BY <1>2, <1>3, <1>5 DEF Idle
<1>7. \A m, c : Begun(m, c) => Begun(m, c)'
  BY <1>2, <1>3, <1>5 DEF Begun
<1>8. csv' = records' \o Flushed(streams'[Sniffed].ts, streams'[Sniffed].buf)
  BY <1>1, <1>2, FinalRows
<1> QED BY <1>1, <1>2, <1>4, <1>6, <1>7, <1>8 DEF SniffInv

LEMMA SniffStep == SniffInv /\ [Next]_vars => SniffInv'
<1> SUFFICES ASSUME SniffInv, [Next]_vars, isn' # NONE PROVE SniffInv'
  BY DEF SniffInv
<1>1. isn' = isn
  BY DEF Next, vars, convertVars, Export, Sniff, CaptureSegment, CaptureForeign, Capture, EndOfCapture,
         Convert, SkipForeign, SkipEmpty, InOrder, Gap, SeenBefore, Overlap, WriteCsv
<1>2. isn # NONE
  BY <1>1
<1>3. CASE Next
  <2>1. step \in {"sniff", "convert", "done"}
    BY <1>2 DEF SniffInv, SniffType
  <2>2. ~Export
    BY <2>1 DEF Export, Load, ExportRow, WritePcap
  <2> QED BY <1>2, <1>3, <2>2, SniffKeeps, SkipKeeps, InOrderKeeps, GapKeeps, SeenBeforeKeeps, OverlapKeeps,
             WriteCsvKeeps DEF Next, Convert
<1>4. CASE UNCHANGED vars
  <2>1. /\ step' = step /\ pcap' = pcap /\ isn' = isn /\ at' = at /\ streams' = streams /\ keys' = keys
        /\ records' = records /\ csv' = csv /\ skipped' = skipped
    BY <1>4 DEF vars, convertVars
  <2>2. SniffType /\ (Idle \/ \E m, c : Begun(m, c))
    BY <1>2 DEF SniffInv
  <2>3. SniffType'
    <3>1. (\A k \in 1..Len(pcap) : Captured(pcap[k], k - 1))'
      BY <2>1, <2>2 DEF Captured, SniffType
    <3> QED BY <2>1, <2>2, <3>1 DEF SniffType
  <2>4. CarriedTo(at)' = CarriedTo(at)
    BY <2>1 DEF CarriedTo
  <2>5. Idle => Idle'
    BY <2>1, <2>4 DEF Idle
  <2>6. \A m, c : Begun(m, c) => Begun(m, c)'
    BY <2>1, <2>4 DEF Begun
  <2> QED BY <1>2, <2>1, <2>2, <2>3, <2>5, <2>6 DEF SniffInv
<1> QED BY <1>3, <1>4

\* What convert keeps of a sniffed stream, at any time.
THEOREM Sniffing == Spec => []SniffInv
BY SniffInit, SniffStep, PTL DEF Spec

----------------------------------------------------------------------------
(* What the file written has of a sniffed stream.                          *)

LEMMA Outcome ==
  ASSUME SniffInv, SniffedDone
  PROVE  \/ csv = <<>> /\ Carried = {} /\ Written = {}
         \/ \E m \in 1..Len(Content) :
              /\ Laid(csv, 0, m)
              /\ Max(Carried) = m /\ m \in Written /\ skipped["gap"] = Missing(Written, m)
              /\ Clean(Content) /\ skipped["gap"] = 0 /\ 1 \in Written =>
                   LET all == PartOf(Content, 0, m)
                   IN Raws(csv) = iter_frames(all) \o (IF Rest(all) = <<>> THEN <<>> ELSE <<Rest(all)>>)
<1> DEFINE s == streams[Sniffed]
           left == Flushed(s.ts, s.buf)
<1>1. SniffType /\ (Idle \/ \E m, c : Begun(m, c)) /\ at = Len(pcap) /\ csv = records \o left
  BY DEF SniffInv, SniffedDone
<1>2. Carried = CarriedTo(at) /\ Written = WrittenIn(csv)
  BY <1>1 DEF Carried, CarriedTo, Written, WrittenIn
<1>3. CASE Idle
  <2>1. records = <<>> /\ s.buf = <<>> /\ CarriedTo(at) = {}
    BY <1>3 DEF Idle, NewStream
  <2>2. left = <<>> /\ csv = <<>>
    BY <1>1, <2>1 DEF Flushed
  <2>3. WrittenIn(<<>>) = {}
    BY DEF WrittenIn
  <2> QED BY <1>2, <2>1, <2>2, <2>3
<1>4. CASE \E m, c : Begun(m, c)
  <2>1. PICK m, c : Begun(m, c)
    BY <1>4
  <2>2. /\ Kept(records, s.ts, skipped["gap"], m, c) /\ s.buf = PartOf(Content, c, m)
        /\ m \in CarriedTo(at) /\ CarriedTo(at) \subseteq 1..m
    BY <2>1 DEF Begun
  <2>3. /\ m \in 1..Len(Content) /\ c \in 0..m /\ s.ts \in Nat /\ Laid(records, 0, c)
        /\ m \in Have(records, c, m) /\ skipped["gap"] = Missing(Have(records, c, m), m)
    BY <2>2 DEF Kept
  <2>4. /\ Len(Content) \in Nat /\ Content \in Seq(Nat) /\ m \in Nat /\ c \in Nat /\ m \in 0..Len(Content) /\ c <= m
        /\ 0 <= c /\ 0 \in Nat /\ c <= c /\ 0 \in 0..m
    BY <2>3, ContentAssumption
  <2>5. /\ Laid(left, c, m) /\ WrittenIn(left) = c+1..m
        /\ Raws(left) = IF s.buf = <<>> THEN <<>> ELSE <<s.buf>>
    <3> DEFINE ts == s.ts
    <3>1. ts \in Int
      BY <2>3
    <3> HIDE DEF ts
    <3>2. LET raw == PartOf(Content, c, m)
              recs == Flushed(ts, raw)
          IN  /\ Laid(recs, c, m) /\ WrittenIn(recs) = c+1..m
              /\ Raws(recs) = IF raw = <<>> THEN <<>> ELSE <<raw>>
      BY <2>3, <2>4, <3>1, FlushedPart
    <3> QED BY <2>2, <3>2 DEF ts
  <2> HIDE DEF left
  <2>6. Laid(csv, 0, m) /\ WrittenIn(csv) = WrittenIn(records) \cup WrittenIn(left)
    BY <1>1, <2>3, <2>4, <2>5, LaidJoined
  <2>7. Written = Have(records, c, m)
    BY <1>2, <2>5, <2>6 DEF Have
  <2>8. Max(Carried) = m
    <3>1. Carried \subseteq Nat /\ m \in Carried /\ \A n \in Carried : m >= n
      BY <1>2, <2>2, <2>4
    <3> QED BY <3>1, MaxIs
  <2>9. ASSUME Clean(Content), skipped["gap"] = 0, 1 \in Written
        PROVE  LET all == PartOf(Content, 0, m)
               IN Raws(csv) = iter_frames(all) \o (IF Rest(all) = <<>> THEN <<>> ELSE <<Rest(all)>>)
    <3> DEFINE all == PartOf(Content, 0, m)
    <3>1. Raws(records) = iter_frames(all) /\ c = Taken(all)
      BY <2>2, <2>7, <2>9 DEF Kept
    <3>2. Rest(all) = s.buf
      <4>1. Len(all) = m
        <5>1. Len(all) = m - 0
          BY <2>4, Part
        <5> QED BY <2>4, <5>1
      <4>2. m \in 0..m - 0 /\ c \in 0..m /\ 0 + c = c /\ 0 + m = m
        BY <2>3, <2>4
      <4>3. PartOf(all, c, m) = PartOf(Content, 0 + c, 0 + m)
        BY <2>4, <4>2, PartOfPart
      <4> HIDE DEF all
      <4> QED BY <2>2, <3>1, <4>1, <4>2, <4>3 DEF Rest
    <3>3. Raws(csv) = Raws(records) \o Raws(left)
      <4>1. records \in Seq(RowType) /\ left \in Seq(RowType)
        BY <2>3, <2>5 DEF Laid
      <4> QED BY <1>1, <4>1, RawsJoined
    <3> HIDE DEF all
    <3>4. Raws(csv) = iter_frames(all) \o (IF Rest(all) = <<>> THEN <<>> ELSE <<Rest(all)>>)
      BY <2>5, <3>1, <3>2, <3>3
    <3> QED BY <3>4 DEF all
  <2> QED BY <2>3, <2>6, <2>7, <2>8, <2>9
<1> QED BY <1>1, <1>3, <1>4

\* No byte of a sniffed stream is written twice, and the rows follow each other as
\* the bytes do, whatever was lost, repeated, late or split anew.
THEOREM BytesOnce == Spec => []NoByteTwice
<1>1. ASSUME SniffInv, SniffedDone,
             NEW n \in 1..Len(csv), NEW m \in 1..n,
             NEW j \in 1..Len(csv[n].raw_hex), NEW i \in 1..Len(csv[m].raw_hex), m < n \/ i < j
      PROVE  Place(csv[m].raw_hex[i]) < Place(csv[n].raw_hex[j])
  <2>1. PICK l \in 1..Len(Content) : Laid(csv, 0, l)
    <3>1. csv # <<>>
      <4>1. CASE csv = <<>>
        <5>1. 1..Len(csv) = {}
          BY <4>1
        <5> QED BY <5>1
      <4> QED BY <4>1
    <3> QED BY <1>1, <3>1, Outcome
  <2>2. csv \in Seq(RowType)
    BY <2>1 DEF Laid
  <2>3. Len(csv) \in Nat
    BY <2>2
  <2>4. m \in 1..Len(csv) /\ m \in Nat /\ n \in Nat /\ (m < n \/ m = n)
    BY <2>3
  <2> DEFINE q == csv[m].raw_hex
             r == csv[n].raw_hex
  <2>5. IsPiece(q) /\ IsPiece(r)
    BY <2>1, <2>4 DEF Laid
  <2>6. m < n => EndOf(q) <= StartOf(r)
    BY <2>1, <2>4 DEF Laid
  <2>7. m = n => StartOf(q) = StartOf(r)
    OBVIOUS
  <2>8. i \in 1..Len(q) /\ j \in 1..Len(r)
    OBVIOUS
  <2> HIDE DEF q, r
  <2>9. /\ Place(q[i]) = StartOf(q) + i /\ Place(r[j]) = StartOf(r) + j
        /\ EndOf(q) = StartOf(q) + Len(q) /\ Len(q) \in Nat /\ Len(r) \in Nat
    <3>1. Place(q[i]) = StartOf(q) + i
      BY <2>5, <2>8, Zenon DEF IsPiece
    <3>2. Place(r[j]) = StartOf(r) + j
      BY <2>5, <2>8, Zenon DEF IsPiece
    <3>3. q \in Seq(Nat) /\ r \in Seq(Nat)
      BY <2>5, Zenon DEF IsPiece
    <3>4. Len(q) \in Nat /\ Len(r) \in Nat
      BY <3>3
    <3> QED BY <3>1, <3>2, <3>4, Zenon DEF EndOf
  <2>10. StartOf(q) \in Nat /\ StartOf(r) \in Nat
    BY <2>5, PieceNumbers
  <2> DEFINE fq == StartOf(q)
             fr == StartOf(r)
             lq == EndOf(q)
  <2>11. /\ Place(q[i]) = fq + i /\ Place(r[j]) = fr + j /\ lq = fq + Len(q)
         /\ fq \in Nat /\ fr \in Nat
         /\ (m < n => lq <= fr) /\ (m = n => fq = fr)
    BY <2>6, <2>7, <2>9, <2>10
  <2> HIDE DEF fq, fr, lq
  <2>12. i \in Nat /\ j \in Nat /\ i <= Len(q) /\ j >= 1 /\ Len(q) \in Nat
    BY <2>8, <2>9
  <2>13. CASE m < n
    <3>1. fq + i < fr + j
      BY <2>11, <2>12, <2>13
    <3> QED BY <2>11, <3>1 DEF q, r
  <2>14. CASE m = n
    <3>1. i < j
      BY <1>1, <2>4, <2>14
    <3>2. fq + i < fr + j
      BY <2>11, <2>12, <2>14, <3>1
    <3> QED BY <2>11, <3>2 DEF q, r
  <2> QED BY <2>4, <2>13, <2>14
<1>2. SniffInv => NoByteTwice
  BY <1>1 DEF NoByteTwice
<1> QED BY <1>2, Sniffing, PTL

\* The last byte captured is written, and every stretch of bytes missing before it
\* was counted as a gap, and nothing else was.
THEOREM LossCounted == Spec => []LossIsCounted
<1>1. SniffInv => LossIsCounted
  <2> SUFFICES ASSUME SniffInv, SniffedDone, Carried # {}
               PROVE  /\ Max(Carried) \in Written
                      /\ skipped["gap"] = Cardinality({n \in Written \ {Max(Carried)} : n + 1 \notin Written})
    BY DEF LossIsCounted
  <2>1. PICK m \in 1..Len(Content) : Max(Carried) = m /\ m \in Written /\ skipped["gap"] = Missing(Written, m)
    BY Outcome
  <2> QED BY <2>1 DEF Missing
<1> QED BY <1>1, Sniffing, PTL

\* With no gap from the first byte on, the rows are the frames of the stream and the
\* rest of it, however it was split into segments.
THEOREM FramesWhole == Spec => []FramesDespiteSegmentation
<1>1. SniffInv => FramesDespiteSegmentation
  <2> DEFINE all == SubSeq(Content, 1, Max(Carried))
             rest == SubSeq(all, Taken(all) + 1, Len(all))
  <2> SUFFICES ASSUME SniffInv, SniffedDone, WellFramed, skipped["gap"] = 0, 1 \in Written
               PROVE  [k \in 1..Len(csv) |-> csv[k].raw_hex] =
                        iter_frames(all) \o (IF rest = <<>> THEN <<>> ELSE <<rest>>)
    BY DEF FramesDespiteSegmentation
  <2>1. Clean(Content)
    BY DEF WellFramed, Clean
  <2>2. PICK m \in 1..Len(Content) :
          /\ Max(Carried) = m
          /\ LET w == PartOf(Content, 0, m)
             IN Raws(csv) = iter_frames(w) \o (IF Rest(w) = <<>> THEN <<>> ELSE <<Rest(w)>>)
    BY <2>1, Outcome
  <2>3. 0 + 1 = 1
    OBVIOUS
  <2>4. PartOf(Content, 0, m) = all
    BY <2>2, <2>3 DEF PartOf
  <2> HIDE DEF all
  <2>5. Rest(all) = rest
    BY DEF Rest, PartOf
  <2>6. Raws(csv) = [k \in 1..Len(csv) |-> csv[k].raw_hex]
    BY DEF Raws
  <2> QED BY <2>2, <2>4, <2>5, <2>6
<1> QED BY <1>1, Sniffing, PTL

----------------------------------------------------------------------------
(* The rows that are exported.                                             *)

\* They are in the order of their times, each is a yield of iter_frames or a part
\* of a frame, and a part of a frame is the last of its stream.
RowsFit(rs) ==
  /\ rs \in Seq(RowType)
  /\ \A m \in 1..Len(rs) : /\ HasBytes(rs[m])
                           /\ IsYield(rs[m].raw_hex) \/ IsPart(rs[m].raw_hex)
  /\ \A m \in 1..Len(rs) : \A n \in 1..m - 1 :
       /\ rs[n].wall_time <= rs[m].wall_time
       /\ StreamOf(rs[n]) = StreamOf(rs[m]) => ~IsPart(rs[n].raw_hex)

LEMMA RowsLoaded ==
  ASSUME NEW file \in RowFiles
  PROVE  RowsFit(WithBytes(file))
<1>1. /\ file \in Seq(RowType)
      /\ \A m \in 1..Len(file) :
           /\ file[m].raw_hex = <<>> \/ IsYield(file[m].raw_hex) \/ IsPart(file[m].raw_hex)
           /\ \A n \in 1..m-1 : StreamOf(file[n]) = StreamOf(file[m]) =>
                file[n].wall_time <= file[m].wall_time /\ ~IsPart(file[n].raw_hex)
  BY RowFilesAssumption, Zenon DEF RowType
<1> DEFINE N == Len(file)
           S == {k \in 1..N : HasBytes(file[k])}
           M == Cardinality(S)
           rs == WithBytes(file)
<1>2. N \in Nat /\ S \subseteq 1..N /\ \A k \in 1..N : file[k] \in RowType /\ file[k].wall_time \in Int
  <2>1. N \in Nat /\ \A k \in 1..N : file[k] \in RowType
    BY <1>1
  <2> QED BY <2>1 DEF RowType
<1>3. M \in Nat /\ \E p : Sorts(file, S, p)
  <2> HIDE DEF S
  <2> QED BY <1>2, Sorted
<1>4. PICK p : Sorts(file, S, p)
  BY <1>3
<1>5. /\ p \in [1..M -> S] /\ rs = [m \in 1..M |-> file[p[m]]]
      /\ \A a, b \in 1..M : a < b => Before(file, p[a], p[b])
  BY <1>4 DEF Sorts, WithBytes
<1>6. \A m \in 1..M : p[m] \in 1..N /\ HasBytes(file[p[m]])
  BY <1>5
<1> HIDE DEF M, S, rs
<1>7. rs \in Seq(RowType) /\ Len(rs) = M /\ \A m \in 1..M : rs[m] = file[p[m]]
  <2>1. \A m \in 1..M : file[p[m]] \in RowType
    BY <1>2, <1>6
  <2> QED BY <1>3, <1>5, <2>1
<1>8. ASSUME NEW m \in 1..M
      PROVE  HasBytes(rs[m]) /\ (IsYield(rs[m].raw_hex) \/ IsPart(rs[m].raw_hex))
  <2>1. rs[m] = file[p[m]] /\ p[m] \in 1..N /\ HasBytes(file[p[m]])
    BY <1>6, <1>7
  <2> DEFINE r == file[p[m]]
  <2>2. r.raw_hex = <<>> \/ IsYield(r.raw_hex) \/ IsPart(r.raw_hex)
    BY <1>1, <2>1
  <2> HIDE DEF r
  <2>3. rs[m] = r /\ HasBytes(r)
    BY <2>1 DEF r
  <2> QED BY <2>2, <2>3 DEF HasBytes
<1>9. ASSUME NEW m \in 1..M, NEW n \in 1..m - 1
      PROVE  /\ rs[n].wall_time <= rs[m].wall_time
             /\ StreamOf(rs[n]) = StreamOf(rs[m]) => ~IsPart(rs[n].raw_hex)
  <2>1. n \in 1..M /\ n < m
    BY <1>3
  <2> DEFINE i == p[n]
             j == p[m]
  <2>2. rs[n] = file[i] /\ rs[m] = file[j] /\ i \in 1..N /\ j \in 1..N /\ Before(file, i, j)
    BY <1>5, <1>6, <1>7, <2>1
  <2> HIDE DEF i, j
  <2>3. file[i].wall_time \in Int /\ file[j].wall_time \in Int /\ i \in Nat /\ j \in Nat
    BY <1>2, <2>2
  <2>4. file[i].wall_time <= file[j].wall_time
    BY <2>2, <2>3 DEF Before
  <2>5. ASSUME StreamOf(file[i]) = StreamOf(file[j]) PROVE ~IsPart(file[i].raw_hex)
    <3>1. i # j
      BY <2>2, <2>3 DEF Before
    <3>2. CASE i < j
      <4>1. i \in 1..j - 1
        BY <2>2, <2>3, <3>2
      <4> QED BY <1>1, <2>2, <2>5, <4>1
    <3>3. CASE j < i
      <4>1. j \in 1..i - 1
        BY <2>2, <2>3, <3>3
      <4>2. file[j].wall_time <= file[i].wall_time
        BY <1>1, <2>2, <2>5, <4>1
      <4> QED BY <2>2, <2>3, <3>3, <4>2 DEF Before
    <3> QED BY <2>3, <3>1, <3>2, <3>3
  <2> QED BY <2>2, <2>4, <2>5
<1>10. RowsFit(rs)
  BY <1>7, <1>8, <1>9 DEF RowsFit
<1> QED BY <1>10 DEF rs

----------------------------------------------------------------------------
(* What one more packet does to the properties of a file.                  *)

Kinds == {{SYN}, {SYN, ACK}, {ACK}, {PSH, ACK}, {FIN, ACK}}
ExportPacket ==
  [client_port : Clients, direction : {"req", "resp"}, wall_time : Int,
   seq : Nat, ack : Nat, flags : Kinds, payload : Seq(Nat)]

LEMMA FlagsDiffer ==
  /\ SYN # ACK /\ SYN # PSH /\ SYN # FIN /\ ACK # PSH /\ ACK # FIN /\ PSH # FIN
BY DEF SYN, ACK, PSH, FIN

LEMMA AmongFinite ==
  ASSUME NEW s, NEW n \in Nat, NEW port
  PROVE  /\ Among(s, n, port) \subseteq 1..n /\ IsFiniteSet(Among(s, n, port))
         /\ Cardinality(Among(s, n, port)) \in Nat
         /\ \A k \in 0..n : /\ Among(s, k, port) \subseteq Among(s, n, port)
                            /\ Cardinality(Among(s, k, port)) <= Cardinality(Among(s, n, port))
         /\ \A k \in 0..n : Among(s, k, port) = {j \in Among(s, n, port) : j <= k}
<1>1. Among(s, n, port) \subseteq 1..n
  BY DEF Among
<1>2. IsFiniteSet(1..n)
  BY FS_Interval
<1>3. IsFiniteSet(Among(s, n, port)) /\ Cardinality(Among(s, n, port)) \in Nat
  BY <1>1, <1>2, FS_Subset, FS_CardinalityType
<1>4. ASSUME NEW k \in 0..n
      PROVE  /\ Among(s, k, port) \subseteq Among(s, n, port)
             /\ Cardinality(Among(s, k, port)) <= Cardinality(Among(s, n, port))
  <2>1. Among(s, k, port) \subseteq Among(s, n, port)
    BY DEF Among
  <2> QED BY <1>3, <2>1, FS_Subset
<1>5. ASSUME NEW k \in 0..n
      PROVE  Among(s, k, port) = {j \in Among(s, n, port) : j <= k}
  BY DEF Among
<1> QED BY <1>1, <1>3, <1>4, <1>5

LEMMA FollowingIs ==
  ASSUME NEW s, NEW n \in Nat, NEW port, NEW d
  PROVE  LET sent == {k \in Among(s, n, port) : s[k].direction = d}
         IN  /\ sent = {} => Following(s, n, port, d) = FirstSeq(d)
             /\ \A m \in sent : (\A k \in sent : k <= m) => Following(s, n, port, d) = s[m].seq + Takes(s[m])
<1> DEFINE sent == {k \in Among(s, n, port) : s[k].direction = d}
<1>1. sent = {} => Following(s, n, port, d) = FirstSeq(d)
  BY DEF Following
<1>2. ASSUME NEW m \in sent, \A k \in sent : k <= m
      PROVE  Following(s, n, port, d) = s[m].seq + Takes(s[m])
  <2>1. sent \subseteq Nat
    BY AmongFinite
  <2>2. \A k \in sent : m >= k
    BY <1>2, <2>1
  <2> HIDE DEF sent
  <2>3. Max(sent) = m
    BY <2>1, <2>2, MaxIs
  <2> QED BY <2>3 DEF Following, sent
<1> QED BY <1>1, <1>2

LEMMA SameBeginning ==
  ASSUME NEW s, NEW t, NEW n \in Nat, \A k \in 1..n : t[k] = s[k]
  PROVE  /\ \A k \in 0..n : \A q, d : /\ Among(t, k, q) = Among(s, k, q)
                                     /\ Following(t, k, q, d) = Following(s, k, q, d)
         /\ \A k \in 1..n : Fits(s, k) => Fits(t, k)
<1>1. ASSUME NEW k \in 0..n, NEW q PROVE Among(t, k, q) = Among(s, k, q) /\ Among(s, k, q) \subseteq 1..k
  <2>1. 1..k \subseteq 1..n
    OBVIOUS
  <2> QED BY <2>1 DEF Among
<1>2. ASSUME NEW k \in 0..n, NEW q, NEW d PROVE Following(t, k, q, d) = Following(s, k, q, d)
  <2> DEFINE sent == {j \in Among(s, k, q) : s[j].direction = d}
  <2>1. Among(t, k, q) = Among(s, k, q) /\ Among(s, k, q) \subseteq 1..k
    BY <1>1
  <2>2. \A j \in Among(s, k, q) : j \in 1..n /\ t[j] = s[j]
    BY <2>1
  <2>3. {j \in Among(t, k, q) : t[j].direction = d} = sent
    BY <2>1, <2>2
  <2>4. CASE sent = {}
    BY <2>3, <2>4 DEF Following
  <2>5. CASE sent # {}
    <3>1. sent \subseteq 0..k /\ k \in Nat
      BY <2>1
    <3> HIDE DEF sent
    <3>2. Max(sent) \in sent
      BY <2>5, <3>1, MaxOf
    <3>3. t[Max(sent)] = s[Max(sent)]
      BY <2>2, <3>2 DEF sent
    <3>4. Following(s, k, q, d) = s[Max(sent)].seq + Takes(s[Max(sent)])
      BY <2>5 DEF Following, sent
    <3>5. Following(t, k, q, d) = t[Max(sent)].seq + Takes(t[Max(sent)])
      <4>1. Following(t, k, q, d) =
              LET x == {j \in Among(t, k, q) : t[j].direction = d}
                  p == t[Max(x)]
              IN IF x = {} THEN FirstSeq(d) ELSE p.seq + Takes(p)
        BY DEF Following
      <4> QED BY <2>3, <2>5, <4>1
    <3> QED BY <3>3, <3>4, <3>5
  <2> QED BY <2>4, <2>5
<1>3. ASSUME NEW k \in 1..n, Fits(s, k) PROVE Fits(t, k)
  <2> DEFINE port == s[k].client_port
  <2>1. k - 1 \in 0..n /\ t[k] = s[k] /\ k \in Nat
    OBVIOUS
  <2>2. /\ Among(t, k - 1, port) = Among(s, k - 1, port)
        /\ \A d : Following(t, k - 1, port, d) = Following(s, k - 1, port, d)
    BY <1>1, <1>2, <2>1
  <2>3. ASSUME NEW j \in Among(s, k - 1, port)
        PROVE  t[j] = s[j] /\ Among(t, j, port) = Among(s, j, port)
    <3>1. j \in 1..k - 1
      BY <1>1, <2>1
    <3>2. j \in 1..n /\ j \in 0..n
      BY <2>1, <3>1
    <3> QED BY <1>1, <3>2
  <2> HIDE DEF port
  <2>4. port = s[k].client_port /\ port = t[k].client_port
    BY <2>1 DEF port
  <2> QED BY <1>3, <2>1, <2>2, <2>3, <2>4 DEF Fits
<1> QED BY <1>1, <1>2, <1>3

\* p continues s, or opens it for its connection.
Continuing(s, p) ==
  LET n == Len(s)
      port == p.client_port
      earlier == Among(s, n, port)
      Expected(d) == Following(s, n, port, d)
  IN /\ p.seq = Expected(p.direction)
     /\ ACK \in p.flags => p.ack = Expected(Other(p.direction))
     /\ p.flags = {SYN} <=> earlier = {}
     /\ p.flags = {SYN, ACK} <=> Cardinality(earlier) = 1
     /\ p.payload # <<>> =>
          /\ Cardinality(earlier) > 2
          /\ p.flags = {PSH, ACK}
          /\ \A k \in earlier : /\ FIN \notin s[k].flags
                                /\ s[k].payload = <<>> => Cardinality(Among(s, k, port)) <= 3

LEMMA OneMore ==
  ASSUME NEW s \in Seq(ExportPacket), NEW p \in ExportPacket
  PROVE  LET t == Append(s, p)
             n == Len(s)
             port == p.client_port
         IN  /\ t \in Seq(ExportPacket) /\ n \in Nat /\ Len(t) = n + 1 /\ t[n + 1] = p
             /\ \A k \in 1..n : t[k] = s[k]
             /\ \A k \in 0..n : \A q, d : /\ Among(t, k, q) = Among(s, k, q)
                                         /\ Following(t, k, q, d) = Following(s, k, q, d)
             /\ \A q : q # port => Among(t, n + 1, q) = Among(s, n, q)
             /\ \A q, d : q # port \/ d # p.direction => Following(t, n + 1, q, d) = Following(s, n, q, d)
             /\ Among(t, n + 1, port) = Among(s, n, port) \cup {n + 1}
             /\ n + 1 \notin Among(s, n, port)
             /\ Cardinality(Among(t, n + 1, port)) = Cardinality(Among(s, n, port)) + 1
             /\ Following(t, n + 1, port, p.direction) = p.seq + Takes(p)
             /\ \A k \in 1..n : Fits(s, k) => Fits(t, k)
             /\ Continuing(s, p) => Fits(t, n + 1)
<1> DEFINE t == Append(s, p)
           n == Len(s)
           port == p.client_port
<1>1. t \in Seq(ExportPacket) /\ n \in Nat /\ Len(t) = n + 1 /\ t[n + 1] = p /\ \A k \in 1..n : t[k] = s[k]
  OBVIOUS
<1> HIDE DEF t, n
<1>2. /\ \A k \in 0..n : \A q, d : /\ Among(t, k, q) = Among(s, k, q)
                                  /\ Following(t, k, q, d) = Following(s, k, q, d)
      /\ \A k \in 1..n : Fits(s, k) => Fits(t, k)
  BY <1>1, SameBeginning
<1>3. 1..n + 1 = (1..n) \cup {n + 1} /\ n + 1 \notin 1..n /\ n \in 0..n
  BY <1>1
<1>4. \A q : Among(t, n + 1, q) = IF q = port THEN Among(t, n, q) \cup {n + 1} ELSE Among(t, n, q)
  BY <1>1, <1>3 DEF Among
<1>5. ASSUME NEW q, q # port PROVE Among(t, n + 1, q) = Among(s, n, q)
  BY <1>2, <1>3, <1>4, <1>5
<1>6. Among(t, n + 1, port) = Among(s, n, port) \cup {n + 1}
  BY <1>2, <1>3, <1>4
<1>7. IsFiniteSet(Among(s, n, port)) /\ n + 1 \notin Among(s, n, port) /\ Among(s, n, port) \subseteq 1..n
  BY <1>1, <1>3, AmongFinite
<1>8. Cardinality(Among(t, n + 1, port)) = Cardinality(Among(s, n, port)) + 1
  BY <1>6, <1>7, FS_AddElement
<1>9. ASSUME NEW q, NEW d, q # port \/ d # p.direction
      PROVE  Following(t, n + 1, q, d) = Following(s, n, q, d)
  <2>1. {k \in Among(t, n + 1, q) : t[k].direction = d} = {k \in Among(t, n, q) : t[k].direction = d}
    <3>1. CASE q # port
      BY <1>4, <3>1
    <3>2. CASE q = port
      <4>1. d # p.direction
        BY <1>9, <3>2
      <4>2. Among(t, n + 1, q) = Among(t, n, q) \cup {n + 1}
        BY <1>4, <3>2
      <4> QED BY <1>1, <4>1, <4>2
    <3> QED BY <3>1, <3>2
  <2>2. Following(t, n + 1, q, d) = Following(t, n, q, d)
    BY <2>1 DEF Following
  <2> QED BY <1>2, <1>3, <2>2
<1>10. Following(t, n + 1, port, p.direction) = p.seq + Takes(p)
  <2> DEFINE sent == {k \in Among(t, n + 1, port) : t[k].direction = p.direction}
  <2>1. n + 1 \in sent
    BY <1>1, <1>6
  <2>2. \A k \in sent : k <= n + 1
    BY <1>1, <1>6, <1>7
  <2> HIDE DEF sent
  <2>3. \A m \in sent : (\A k \in sent : k <= m) => Following(t, n + 1, port, p.direction) = t[m].seq + Takes(t[m])
    <3>1. n + 1 \in Nat
      BY <1>1
    <3> QED BY <3>1, FollowingIs DEF sent
  <2> QED BY <1>1, <2>1, <2>2, <2>3
<1>11. ASSUME Continuing(s, p) PROVE Fits(t, n + 1)
  <2> DEFINE earlier == Among(s, n, port)
             r == t[n + 1]
             m == (n + 1) - 1
  <2>1. r = p /\ m = n
    BY <1>1
  <2>2. Among(t, n, port) = earlier /\ \A d : Following(t, n, port, d) = Following(s, n, port, d)
    BY <1>2, <1>3
  <2>3. ASSUME NEW k \in earlier PROVE t[k] = s[k] /\ Among(t, k, port) = Among(s, k, port)
    <3>1. k \in 1..n /\ k \in 0..n
      BY <1>7
    <3> QED BY <1>1, <1>2, <3>1
  <2>4. Cardinality(earlier) \in Nat /\ (earlier = {} <=> Cardinality(earlier) = 0)
    BY <1>7, FS_EmptySet, FS_CardinalityType
  <2>5. SYN \in p.flags => Cardinality(earlier) < 2
    <3>1. p.flags \in Kinds
      BY DEF ExportPacket
    <3>2. SYN \in p.flags => p.flags = {SYN} \/ p.flags = {SYN, ACK}
      BY <3>1, FlagsDiffer DEF Kinds
    <3>3. SYN \in p.flags => Cardinality(earlier) = 0 \/ Cardinality(earlier) = 1
      BY <1>11, <2>4, <3>2 DEF Continuing, n
    <3> QED BY <3>3
  <2>6. /\ p.seq = Following(t, n, port, p.direction)
        /\ ACK \in p.flags => p.ack = Following(t, n, port, Other(p.direction))
        /\ p.flags = {SYN} <=> Among(t, n, port) = {}
        /\ p.flags = {SYN, ACK} <=> Cardinality(Among(t, n, port)) = 1
        /\ SYN \in p.flags => Cardinality(Among(t, n, port)) < 2
        /\ p.payload # <<>> =>
             /\ Cardinality(Among(t, n, port)) > 2
             /\ p.flags = {PSH, ACK}
             /\ \A k \in Among(t, n, port) : /\ FIN \notin t[k].flags
                                             /\ t[k].payload = <<>> => Cardinality(Among(t, k, port)) <= 3
    BY <1>11, <2>2, <2>3, <2>5 DEF Continuing, n
  <2> HIDE DEF earlier
  <2> QED BY <1>1, <2>1, <2>6 DEF Fits
<1> HIDE DEF port
<1>12. /\ t \in Seq(ExportPacket) /\ n \in Nat /\ Len(t) = n + 1 /\ t[n + 1] = p
       /\ \A k \in 1..n : t[k] = s[k]
       /\ \A k \in 0..n : \A q, d : /\ Among(t, k, q) = Among(s, k, q)
                                   /\ Following(t, k, q, d) = Following(s, k, q, d)
       /\ \A q : q # port => Among(t, n + 1, q) = Among(s, n, q)
       /\ \A q, d : q # port \/ d # p.direction => Following(t, n + 1, q, d) = Following(s, n, q, d)
       /\ Among(t, n + 1, port) = Among(s, n, port) \cup {n + 1}
       /\ n + 1 \notin Among(s, n, port)
       /\ Cardinality(Among(t, n + 1, port)) = Cardinality(Among(s, n, port)) + 1
       /\ Following(t, n + 1, port, p.direction) = p.seq + Takes(p)
       /\ \A k \in 1..n : Fits(s, k) => Fits(t, k)
       /\ Continuing(s, p) => Fits(t, n + 1)
  BY <1>1, <1>2, <1>5, <1>6, <1>7, <1>8, <1>9, <1>10, <1>11
<1> QED BY <1>12 DEF t, n, port

----------------------------------------------------------------------------
(* A connection while it is written.                                       *)

\* A connection's packets lie in the order of their times.
InTime(s) ==
  \A k \in 1..Len(s) : \A j \in 1..k - 1 :
    s[j].client_port = s[k].client_port => s[j].wall_time <= s[k].wall_time
Fitting(s) == s \in Seq(ExportPacket) /\ (\A n \in 1..Len(s) : Fits(s, n)) /\ InTime(s)

\* port has had c packets, the last at t or before, and next is what follows them.
Connected(state, port, c, t) ==
  LET s == state.packets
      n == Len(state.packets)
  IN  /\ Fitting(s)
      /\ state.next \in [{"req", "resp"} -> Nat]
      /\ \A d \in {"req", "resp"} : state.next[d] = Following(s, n, port, d)
      /\ c \in Nat /\ Cardinality(Among(s, n, port)) = c
      /\ \A k \in Among(s, n, port) : s[k].wall_time <= t

\* It may have more payload.
StillOpen(s, port) ==
  \A k \in Among(s, Len(s), port) :
    FIN \notin s[k].flags /\ (s[k].payload = <<>> => Cardinality(Among(s, k, port)) <= 3)

\* t is s and more packets of port.
Extends(s, t, port) ==
  /\ Len(s) \in Nat /\ Len(t) \in Nat /\ Len(s) <= Len(t)
  /\ \A k \in 1..Len(s) : t[k] = s[k]
  /\ \A k \in 1..Len(t) : k > Len(s) => t[k].client_port = port

\* The payloads of s are those of the first r rows, in their order.
RowOf(p) == Row(p.client_port, p.direction, p.wall_time, p.payload)
RowPlaces(g, s, rs, r) ==
  /\ g \in [1..r -> 1..Len(s)]
  /\ \A i \in 1..r : (\A j \in 1..i - 1 : g[j] < g[i]) /\ RowOf(s[g[i]]) = rs[i]
  /\ \A k \in 1..Len(s) : s[k].payload # <<>> => \E i \in 1..r : g[i] = k
Carries(s, rs, r) == \E g : RowPlaces(g, s, rs, r)

LEMMA AppendFits ==
  ASSUME NEW s, NEW p \in ExportPacket, Fitting(s), Continuing(s, p),
         \A k \in Among(s, Len(s), p.client_port) : s[k].wall_time <= p.wall_time
  PROVE  Fitting(Append(s, p)) /\ Extends(s, Append(s, p), p.client_port)
<1> DEFINE t == Append(s, p)
           n == Len(s)
<1>1. s \in Seq(ExportPacket) /\ (\A k \in 1..Len(s) : Fits(s, k)) /\ InTime(s)
  BY DEF Fitting
<1>2. /\ t \in Seq(ExportPacket) /\ n \in Nat /\ Len(t) = n + 1 /\ t[n + 1] = p
      /\ \A k \in 1..n : t[k] = s[k]
      /\ \A k \in 1..n : Fits(s, k) => Fits(t, k)
      /\ Fits(t, n + 1)
  BY <1>1, OneMore
<1> HIDE DEF t, n
<1>3. \A k \in 1..n + 1 : k \in 1..n \/ k = n + 1
  BY <1>2
<1>4. \A k \in 1..Len(t) : Fits(t, k)
  BY <1>1, <1>2, <1>3 DEF n
<1>5. ASSUME NEW k \in 1..Len(t), NEW j \in 1..k - 1, t[j].client_port = t[k].client_port
      PROVE  t[j].wall_time <= t[k].wall_time
  <2>1. CASE k \in 1..n
    <3>1. j \in 1..n
      BY <1>2, <2>1
    <3>2. s[j].client_port = s[k].client_port
      BY <1>2, <1>5, <2>1, <3>1
    <3> QED BY <1>1, <1>2, <2>1, <3>1, <3>2 DEF InTime, n
  <2>2. CASE k = n + 1
    <3>1. j \in 1..n
      BY <1>2, <2>2
    <3>2. s[j].client_port = p.client_port
      BY <1>2, <1>5, <2>2, <3>1
    <3>3. j \in Among(s, Len(s), p.client_port)
      BY <3>1, <3>2 DEF Among, n
    <3> QED BY <1>2, <2>2, <3>1, <3>3
  <2> QED BY <1>2, <1>3, <2>1, <2>2
<1>6. Fitting(t)
  BY <1>2, <1>4, <1>5 DEF Fitting, InTime
<1>7. Extends(s, t, p.client_port)
  <2>1. Len(t) \in Nat /\ n <= Len(t)
    BY <1>2
  <2>2. ASSUME NEW k \in 1..Len(t), k > n PROVE t[k].client_port = p.client_port
    <3>1. k = n + 1
      BY <1>2, <2>2
    <3> QED BY <1>2, <3>1
  <2> QED BY <1>2, <2>1, <2>2 DEF Extends, n
<1> QED BY <1>6, <1>7 DEF t

\* After c packets of port, what a packet of it may be.
MayFollow(s, port, c, flags, payload) ==
  /\ flags \in Kinds /\ flags # {SYN} /\ (flags = {SYN, ACK} <=> c = 1)
  /\ payload \in Seq(Nat)
  /\ payload # <<>> => c > 2 /\ flags = {PSH, ACK} /\ StillOpen(s, port)

\* One more packet of port, after which c of it are there.
Puts(state, port, c, t, d, time, flags, payload) ==
  /\ Connected(state, port, c, t) /\ c >= 1 /\ t \in Int /\ time \in Int /\ t <= time
  /\ d \in {"req", "resp"} /\ MayFollow(state.packets, port, c, flags, payload)
HasPut(state, port, c, d, time, flags, payload) ==
  LET new == Put(state, port, d, time, flags, payload)
      s == state.packets
      p == Packet(port, d, time, state.next[d], state.next[Other(d)], flags, payload)
  IN  /\ Connected(new, port, c, time)
      /\ Extends(s, new.packets, port)
      /\ p \in ExportPacket /\ new.packets = Append(s, p)
      /\ StillOpen(s, port) /\ FIN \notin flags /\ (payload # <<>> \/ c < 4) => StillOpen(new.packets, port)

LEMMA PutFits ==
  ASSUME NEW state, NEW port \in Clients, NEW c, NEW t, NEW d, NEW time, NEW flags, NEW payload,
         Puts(state, port, c, t, d, time, flags, payload)
  PROVE  HasPut(state, port, c + 1, d, time, flags, payload)
<1> SUFFICES ASSUME Connected(state, port, c, t), c >= 1, t \in Int, time \in Int, t <= time,
                    d \in {"req", "resp"}, MayFollow(state.packets, port, c, flags, payload)
             PROVE  HasPut(state, port, c + 1, d, time, flags, payload)
  BY Zenon DEF Puts
<1> DEFINE s == state.packets
           n == Len(s)
           next == state.next
           p == Packet(port, d, time, next[d], next[Other(d)], flags, payload)
           u == Append(s, p)
           new == Put(state, port, d, time, flags, payload)
<1>0. /\ flags \in Kinds /\ flags # {SYN} /\ (flags = {SYN, ACK} <=> c = 1)
      /\ payload \in Seq(Nat)
      /\ payload # <<>> => c > 2 /\ flags = {PSH, ACK} /\ StillOpen(s, port)
  BY DEF MayFollow
<1>1. /\ Fitting(s) /\ next \in [{"req", "resp"} -> Nat]
      /\ \A e \in {"req", "resp"} : next[e] = Following(s, n, port, e)
      /\ c \in Nat /\ Cardinality(Among(s, n, port)) = c
      /\ \A k \in Among(s, n, port) : s[k].wall_time <= t
  BY Zenon DEF Connected
<1>2. new.packets = u /\ new.next = [next EXCEPT ![d] = @ + Takes(p)]
  BY DEF Put
<1>3. s \in Seq(ExportPacket)
  BY <1>1 DEF Fitting
<1> HIDE DEF s, n, next, new
<1>4. /\ Other(d) \in {"req", "resp"} /\ Other(d) # d
      /\ next[d] \in Nat /\ next[Other(d)] \in Nat
  BY <1>1 DEF Other
<1>5. /\ p \in ExportPacket /\ p.client_port = port /\ p.direction = d /\ p.wall_time = time
      /\ p.seq = next[d] /\ p.ack = next[Other(d)] /\ p.flags = flags /\ p.payload = payload
  BY <1>0, <1>4 DEF Packet, ExportPacket
<1>6. Takes(p) \in Nat
  BY <1>5 DEF Takes
<1> HIDE DEF p
<1>7. IsFiniteSet(Among(s, n, port)) /\ (Among(s, n, port) = {} <=> c = 0) /\ Among(s, n, port) \subseteq 1..n
  <2>1. n \in Nat
    BY <1>3 DEF n
  <2> QED BY <1>1, <2>1, AmongFinite, FS_EmptySet
<1>8. Continuing(s, p)
  <2>1. p.seq = Following(s, n, port, p.direction) /\ p.ack = Following(s, n, port, Other(p.direction))
    BY <1>1, <1>4, <1>5
  <2>2. p.flags # {SYN} /\ Among(s, n, port) # {}
    BY <1>0, <1>1, <1>5, <1>7
  <2>3. p.flags = {SYN, ACK} <=> Cardinality(Among(s, n, port)) = 1
    BY <1>0, <1>1, <1>5
  <2>4. p.payload # <<>> =>
          /\ Cardinality(Among(s, n, port)) > 2
          /\ p.flags = {PSH, ACK}
          /\ \A k \in Among(s, n, port) : /\ FIN \notin s[k].flags
                                          /\ s[k].payload = <<>> => Cardinality(Among(s, k, port)) <= 3
    BY <1>0, <1>1, <1>5 DEF StillOpen, n
  <2> QED BY <1>5, <2>1, <2>2, <2>3, <2>4 DEF Continuing, n
<1>9. \A k \in Among(s, n, port) : s[k].wall_time \in Int /\ s[k].wall_time <= p.wall_time
  <2> TAKE k \in Among(s, n, port)
  <2>1. k \in 1..Len(s)
    BY <1>7 DEF n
  <2>2. s[k] \in ExportPacket
    BY <1>3, <2>1
  <2> DEFINE w == s[k].wall_time
  <2>3. w \in Int /\ w <= t
    BY <1>1, <2>2 DEF ExportPacket
  <2> HIDE DEF w
  <2>4. w \in Int /\ w <= time
    BY <2>3
  <2> QED BY <1>5, <2>4 DEF w
<1>10. Fitting(u) /\ Extends(s, u, port)
  BY <1>1, <1>5, <1>8, <1>9, AppendFits DEF n
<1>11. /\ u \in Seq(ExportPacket) /\ n \in Nat /\ Len(u) = n + 1 /\ u[n + 1] = p
       /\ \A k \in 1..n : u[k] = s[k]
       /\ \A k \in 0..n : \A q : Among(u, k, q) = Among(s, k, q)
       /\ \A e : e # d => Following(u, n + 1, port, e) = Following(s, n, port, e)
       /\ Among(u, n + 1, port) = Among(s, n, port) \cup {n + 1}
       /\ Cardinality(Among(u, n + 1, port)) = c + 1
       /\ Following(u, n + 1, port, d) = next[d] + Takes(p)
  <2>1. p \in ExportPacket
    BY <1>5
  <2>2. /\ u \in Seq(ExportPacket) /\ n \in Nat /\ Len(u) = n + 1 /\ u[n + 1] = p
        /\ \A k \in 1..n : u[k] = s[k]
        /\ \A k \in 0..n : \A q, e : /\ Among(u, k, q) = Among(s, k, q)
                                     /\ Following(u, k, q, e) = Following(s, k, q, e)
    BY <1>3, <2>1, OneMore DEF n
  <2>3. /\ \A q, e : q # p.client_port \/ e # p.direction => Following(u, n + 1, q, e) = Following(s, n, q, e)
        /\ Among(u, n + 1, p.client_port) = Among(s, n, p.client_port) \cup {n + 1}
        /\ Cardinality(Among(u, n + 1, p.client_port)) = Cardinality(Among(s, n, p.client_port)) + 1
        /\ Following(u, n + 1, p.client_port, p.direction) = p.seq + Takes(p)
    BY <1>3, <2>1, OneMore DEF n
  <2> HIDE DEF u
  <2>4. /\ \A e : e # d => Following(u, n + 1, port, e) = Following(s, n, port, e)
        /\ Among(u, n + 1, port) = Among(s, n, port) \cup {n + 1}
        /\ Cardinality(Among(u, n + 1, port)) = Cardinality(Among(s, n, port)) + 1
        /\ Following(u, n + 1, port, d) = p.seq + Takes(p)
    BY <1>5, <2>3, Zenon
  <2> QED BY <1>1, <1>5, <2>2, <2>4
<1> HIDE DEF u
<1>12. Connected(new, port, c + 1, time)
  <2>1. new.next \in [{"req", "resp"} -> Nat]
    BY <1>1, <1>2, <1>4, <1>6
  <2>2. ASSUME NEW e \in {"req", "resp"} PROVE new.next[e] = Following(u, n + 1, port, e)
    <3>1. CASE e = d
      BY <1>1, <1>2, <1>11, <3>1
    <3>2. CASE e # d
      BY <1>1, <1>2, <1>11, <3>2
    <3> QED BY <3>1, <3>2
  <2>3. \A k \in Among(u, n + 1, port) : u[k].wall_time <= time
    <3> TAKE k \in Among(u, n + 1, port)
    <3>1. CASE k = n + 1
      BY <1>5, <1>11, <3>1
    <3>2. CASE k \in Among(s, n, port)
      BY <1>5, <1>7, <1>9, <1>11, <3>2
    <3> QED BY <1>11, <3>1, <3>2
  <2>4. c + 1 \in Nat
    BY <1>1
  <2> QED BY <1>2, <1>10, <1>11, <2>1, <2>2, <2>3, <2>4, Zenon DEF Connected
<1>13. ASSUME StillOpen(s, port), FIN \notin flags, payload # <<>> \/ c < 3
       PROVE  StillOpen(u, port)
  <2>1. ASSUME NEW k \in Among(u, n + 1, port)
        PROVE  FIN \notin u[k].flags /\ (u[k].payload = <<>> => Cardinality(Among(u, k, port)) <= 3)
    <3>1. CASE k = n + 1
      <4>1. c < 3 => c + 1 <= 3
        BY <1>1
      <4> QED BY <1>5, <1>11, <1>13, <3>1, <4>1
    <3>2. CASE k \in Among(s, n, port)
      <4>1. k \in 1..n /\ k \in 0..n
        BY <1>7, <1>11, <3>2
      <4>2. u[k] = s[k] /\ Among(u, k, port) = Among(s, k, port)
        BY <1>11, <4>1
      <4> QED BY <1>13, <3>2, <4>2 DEF StillOpen, n
    <3> QED BY <1>11, <2>1, <3>1, <3>2
  <2> QED BY <1>11, <2>1 DEF StillOpen
<1>14. c + 1 < 4 => c < 3
  BY <1>1
<1>15. /\ Connected(new, port, c + 1, time) /\ Extends(s, u, port) /\ p \in ExportPacket
       /\ StillOpen(s, port) /\ FIN \notin flags /\ (payload # <<>> \/ c + 1 < 4) => StillOpen(u, port)
       /\ new.packets = u
  BY <1>2, <1>5, <1>10, <1>12, <1>13, <1>14
<1> QED BY <1>15, Zenon DEF HasPut, s, next, new, u, p

LEMMA ExtendsFurther ==
  ASSUME NEW s, NEW t, NEW u, NEW port, Extends(s, t, port), Extends(t, u, port)
  PROVE  Extends(s, u, port)
<1> DEFINE a == Len(s)
           b == Len(t)
           c == Len(u)
<1>1. /\ a \in Nat /\ b \in Nat /\ c \in Nat /\ a <= b /\ b <= c
      /\ (\A k \in 1..a : t[k] = s[k]) /\ (\A k \in 1..b : u[k] = t[k])
      /\ \A k \in 1..b : k > a => t[k].client_port = port
      /\ \A k \in 1..c : k > b => u[k].client_port = port
  BY DEF Extends
<1> HIDE DEF a, b, c
<1>2. \A k \in 1..a : k \in 1..b
  BY <1>1
<1>3. \A k \in 1..a : u[k] = s[k]
  BY <1>1, <1>2
<1>4. ASSUME NEW k \in 1..c, k > a PROVE u[k].client_port = port
  <2>1. CASE k > b
    BY <1>1, <2>1
  <2>2. CASE ~(k > b)
    <3>1. k \in 1..b
      BY <1>1, <2>2
    <3>2. t[k].client_port = port
      BY <1>1, <1>4, <3>1
    <3>3. u[k] = t[k]
      BY <1>1, <3>1
    <3> QED BY <3>2, <3>3
  <2> QED BY <2>1, <2>2
<1> QED BY <1>1, <1>3, <1>4 DEF Extends, a, b, c

\* Nothing changes for the other connections.
LEMMA Elsewhere ==
  ASSUME NEW s, NEW u, NEW port, NEW q, Extends(s, u, port), q # port
  PROVE  /\ Among(u, Len(u), q) = Among(s, Len(s), q)
         /\ \A d : Following(u, Len(u), q, d) = Following(s, Len(s), q, d)
         /\ \A k \in Among(s, Len(s), q) : u[k] = s[k] /\ Among(u, k, q) = Among(s, k, q)
<1> DEFINE a == Len(s)
           c == Len(u)
<1>1. /\ a \in Nat /\ c \in Nat /\ a <= c
      /\ \A k \in 1..a : u[k] = s[k]
      /\ \A k \in 1..c : k > a => u[k].client_port = port
  BY DEF Extends
<1> HIDE DEF a, c
<1>2. \A k \in 0..a : \A p, d : /\ Among(u, k, p) = Among(s, k, p)
                               /\ Following(u, k, p, d) = Following(s, k, p, d)
  BY <1>1, SameBeginning
<1>3. Among(u, c, q) = Among(u, a, q)
  <2>1. \A k \in 1..c : u[k].client_port = q => k \in 1..a
    BY <1>1
  <2>2. 1..a \subseteq 1..c
    BY <1>1
  <2> QED BY <2>1, <2>2 DEF Among
<1>4. \A d : Following(u, c, q, d) = Following(u, a, q, d)
  BY <1>3 DEF Following
<1>5. a \in 0..a
  BY <1>1
<1>6. \A k \in Among(s, a, q) : k \in 1..a /\ k \in 0..a
  BY <1>1, AmongFinite
<1> QED BY <1>1, <1>2, <1>3, <1>4, <1>5, <1>6 DEF a, c

LEMMA ConnectedElsewhere ==
  ASSUME NEW state, NEW u, NEW port, NEW q, NEW c, NEW t, Connected(state, q, c, t),
         Extends(state.packets, u, port), q # port, Fitting(u)
  PROVE  /\ Connected([packets |-> u, next |-> state.next], q, c, t)
         /\ StillOpen(state.packets, q) => StillOpen(u, q)
<1> DEFINE s == state.packets
           new == [packets |-> u, next |-> state.next]
<1>1. /\ Among(u, Len(u), q) = Among(s, Len(s), q)
      /\ \A d : Following(u, Len(u), q, d) = Following(s, Len(s), q, d)
      /\ \A k \in Among(s, Len(s), q) : u[k] = s[k] /\ Among(u, k, q) = Among(s, k, q)
  <2>1. Extends(s, u, port) /\ q # port
    OBVIOUS
  <2> HIDE DEF s
  <2> QED BY <2>1, Elsewhere
<1>2. /\ state.next \in [{"req", "resp"} -> Nat]
      /\ \A d \in {"req", "resp"} : state.next[d] = Following(s, Len(s), q, d)
      /\ c \in Nat /\ Cardinality(Among(s, Len(s), q)) = c
      /\ \A k \in Among(s, Len(s), q) : s[k].wall_time <= t
  BY Zenon DEF Connected
<1>3. new.packets = u /\ new.next = state.next
  OBVIOUS
<1> HIDE DEF s, new
<1>4. Connected(new, q, c, t)
  BY <1>1, <1>2, <1>3 DEF Connected
<1>5. StillOpen(s, q) => StillOpen(u, q)
  BY <1>1 DEF StillOpen
<1> QED BY <1>4, <1>5 DEF s, new

\* Later is also after.
LEMMA ConnectedLater ==
  ASSUME NEW state, NEW port, NEW c, NEW t \in Int, NEW w \in Int, t <= w, Connected(state, port, c, t)
  PROVE  Connected(state, port, c, w)
<1> DEFINE s == state.packets
           n == Len(s)
<1>1. /\ Fitting(s)
      /\ state.next \in [{"req", "resp"} -> Nat]
      /\ \A d \in {"req", "resp"} : state.next[d] = Following(s, n, port, d)
      /\ c \in Nat /\ Cardinality(Among(s, n, port)) = c
      /\ \A k \in Among(s, n, port) : s[k].wall_time <= t
  BY Zenon DEF Connected
<1> HIDE DEF s, n
<1>2. ASSUME NEW k \in Among(s, n, port) PROVE s[k].wall_time <= w
  <2>1. s \in Seq(ExportPacket) /\ n \in Nat
    BY <1>1 DEF Fitting, n
  <2>2. k \in 1..Len(s)
    BY <2>1, AmongFinite DEF n
  <2>3. s[k] \in ExportPacket
    BY <2>1, <2>2
  <2> DEFINE x == s[k].wall_time
  <2>4. x \in Int /\ x <= t
    BY <1>1, <2>3 DEF ExportPacket
  <2> HIDE DEF x
  <2>5. x <= w
    BY <2>4
  <2> QED BY <2>5 DEF x
<1> QED BY <1>1, <1>2, Zenon DEF Connected, s, n

LEMMA CarriesEmpty ==
  ASSUME NEW s \in Seq(ExportPacket), NEW p \in ExportPacket, p.payload = <<>>,
         NEW rs, NEW r \in Nat, Carries(s, rs, r)
  PROVE  Carries(Append(s, p), rs, r)
<1> DEFINE t == Append(s, p)
           n == Len(s)
<1>1. n \in Nat /\ Len(t) = n + 1 /\ t[n + 1] = p /\ \A k \in 1..n : t[k] = s[k]
  OBVIOUS
<1>2. PICK g : RowPlaces(g, s, rs, r)
  BY DEF Carries
<1> HIDE DEF t, n
<1>3. g \in [1..r -> 1..n]
  BY <1>2 DEF RowPlaces, n
<1>4. g \in [1..r -> 1..n + 1]
  BY <1>1, <1>3
<1>5. \A i \in 1..r : (\A j \in 1..i - 1 : g[j] < g[i]) /\ RowOf(t[g[i]]) = rs[i]
  BY <1>1, <1>2, <1>3 DEF RowPlaces
<1>6. ASSUME NEW k \in 1..n + 1, t[k].payload # <<>> PROVE \E i \in 1..r : g[i] = k
  <2>1. k # n + 1
    BY <1>1, <1>6
  <2>2. k \in 1..n
    BY <1>1, <2>1
  <2> QED BY <1>1, <1>2, <1>6, <2>2 DEF RowPlaces, n
<1>7. RowPlaces(g, t, rs, r)
  BY <1>1, <1>4, <1>5, <1>6 DEF RowPlaces
<1> QED BY <1>7 DEF Carries, t

LEMMA CarriesOne ==
  ASSUME NEW s \in Seq(ExportPacket), NEW p \in ExportPacket,
         NEW rs, NEW r \in Nat, Carries(s, rs, r), RowOf(p) = rs[r + 1]
  PROVE  Carries(Append(s, p), rs, r + 1)
<1> DEFINE t == Append(s, p)
           n == Len(s)
<1>1. n \in Nat /\ Len(t) = n + 1 /\ t[n + 1] = p /\ \A k \in 1..n : t[k] = s[k]
  OBVIOUS
<1>2. PICK g : RowPlaces(g, s, rs, r)
  BY DEF Carries
<1> HIDE DEF t, n
<1> DEFINE h == [i \in 1..r + 1 |-> IF i = r + 1 THEN n + 1 ELSE g[i]]
<1>3. g \in [1..r -> 1..n]
  BY <1>2 DEF RowPlaces, n
<1>4. /\ h \in [1..r + 1 -> 1..n + 1] /\ h[r + 1] = n + 1
      /\ \A i \in 1..r : h[i] = g[i] /\ g[i] \in 1..n
  <2>1. \A i \in 1..r + 1 : i = r + 1 \/ i \in 1..r
    OBVIOUS
  <2>2. \A i \in 1..r : i \in 1..r + 1 /\ i # r + 1
    OBVIOUS
  <2>3. r + 1 \in 1..r + 1 /\ \A k \in 1..n : k \in 1..n + 1
    BY <1>1
  <2>4. n + 1 \in 1..n + 1
    BY <1>1
  <2> QED BY <1>3, <2>1, <2>2, <2>3, <2>4
<1> HIDE DEF h
<1>5. ASSUME NEW i \in 1..r + 1 PROVE (\A j \in 1..i - 1 : h[j] < h[i]) /\ RowOf(t[h[i]]) = rs[i]
  <2>1. CASE i = r + 1
    <3>1. RowOf(t[h[i]]) = rs[i]
      BY <1>1, <1>4, <2>1
    <3>2. ASSUME NEW j \in 1..i - 1 PROVE h[j] < h[i]
      <4>1. j \in 1..r
        BY <2>1
      <4> QED BY <1>1, <1>4, <2>1, <4>1
    <3> QED BY <3>1, <3>2
  <2>2. CASE i \in 1..r
    <3>1. RowOf(t[h[i]]) = rs[i]
      BY <1>1, <1>2, <1>4, <2>2 DEF RowPlaces
    <3>2. ASSUME NEW j \in 1..i - 1 PROVE h[j] < h[i]
      <4>1. j \in 1..r
        BY <2>2
      <4>2. g[j] < g[i]
        BY <1>2, <2>2 DEF RowPlaces
      <4> QED BY <1>4, <2>2, <4>1, <4>2
    <3> QED BY <3>1, <3>2
  <2>3. i = r + 1 \/ i \in 1..r
    OBVIOUS
  <2> QED BY <2>1, <2>2, <2>3
<1>6. ASSUME NEW k \in 1..n + 1, t[k].payload # <<>> PROVE \E i \in 1..r + 1 : h[i] = k
  <2>1. CASE k = n + 1
    <3>1. r + 1 \in 1..r + 1
      OBVIOUS
    <3> QED BY <1>4, <2>1, <3>1
  <2>2. CASE k \in 1..n
    <3>1. PICK i \in 1..r : g[i] = k
      BY <1>1, <1>2, <1>6, <2>2 DEF RowPlaces, n
    <3>2. i \in 1..r + 1 /\ h[i] = k
      BY <1>4, <3>1
    <3> QED BY <3>2
  <2>3. k = n + 1 \/ k \in 1..n
    BY <1>1
  <2> QED BY <2>1, <2>2, <2>3
<1>7. RowPlaces(h, t, rs, r + 1)
  BY <1>1, <1>4, <1>5, <1>6 DEF RowPlaces
<1> QED BY <1>7 DEF Carries, t

\* ... without payload.
PutsEmpty(state, new, port, c, t, d, time, flags, rs, r) ==
  /\ Puts(state, port, c, t, d, time, flags, <<>>)
  /\ r \in Nat /\ Carries(state.packets, rs, r)
  /\ new = Put(state, port, d, time, flags, <<>>)
HasPutEmpty(state, new, port, c, time, flags, rs, r) ==
  /\ Connected(new, port, c, time)
  /\ Extends(state.packets, new.packets, port)
  /\ Carries(new.packets, rs, r)
  /\ StillOpen(state.packets, port) /\ FIN \notin flags /\ c < 4 => StillOpen(new.packets, port)

LEMMA PutEmpty ==
  ASSUME NEW state, NEW new, NEW port \in Clients, NEW c, NEW t, NEW d, NEW time, NEW flags,
         NEW rs, NEW r, PutsEmpty(state, new, port, c, t, d, time, flags, rs, r)
  PROVE  HasPutEmpty(state, new, port, c + 1, time, flags, rs, r)
<1> DEFINE p == Packet(port, d, time, state.next[d], state.next[Other(d)], flags, <<>>)
<1>1. /\ Puts(state, port, c, t, d, time, flags, <<>>)
      /\ r \in Nat /\ Carries(state.packets, rs, r)
      /\ new = Put(state, port, d, time, flags, <<>>)
  BY Zenon DEF PutsEmpty
<1>2. p.payload = <<>>
  BY DEF Packet
<1> HIDE DEF p
<1>3. HasPut(state, port, c + 1, d, time, flags, <<>>)
  BY <1>1, PutFits
<1>4. /\ Connected(new, port, c + 1, time)
      /\ Extends(state.packets, new.packets, port)
      /\ p \in ExportPacket /\ new.packets = Append(state.packets, p)
      /\ StillOpen(state.packets, port) /\ FIN \notin flags /\ c + 1 < 4 => StillOpen(new.packets, port)
  BY <1>1, <1>3, Zenon DEF HasPut, p
<1>5. state.packets \in Seq(ExportPacket)
  BY <1>1 DEF Puts, Connected, Fitting
<1>6. Carries(new.packets, rs, r)
  BY <1>1, <1>2, <1>4, <1>5, CarriesEmpty
<1> QED BY <1>4, <1>6, Zenon DEF HasPutEmpty

\* A connection opens with a handshake.
LEMMA HandshakeFits ==
  ASSUME NEW state, NEW port \in Clients, NEW time \in Int, Fitting(state.packets),
         Among(state.packets, Len(state.packets), port) = {},
         NEW rs, NEW r \in Nat, Carries(state.packets, rs, r)
  PROVE  LET new == Handshake(state, port, time)
         IN  /\ Connected(new, port, 3, time) /\ StillOpen(new.packets, port)
             /\ Extends(state.packets, new.packets, port)
             /\ Carries(new.packets, rs, r)
<1> DEFINE s == state.packets
           n == Len(s)
           syn == Packet(port, "req", time - 10, CLIENT_SEQ, 0, {SYN}, <<>>)
           opened == [packets |-> Append(s, syn), next |-> [req |-> CLIENT_SEQ + 1, resp |-> PLC_SEQ]]
           u == opened.packets
           two == Put(opened, port, "resp", time - 9, {SYN, ACK}, <<>>)
           three == Put(two, port, "req", time - 8, {ACK}, <<>>)
<1>1. CLIENT_SEQ \in Nat /\ PLC_SEQ \in Nat /\ <<>> \in Seq(Nat) /\ Len(<<>>) = 0
  BY FirstSeqAssumption
<1>2. s \in Seq(ExportPacket) /\ Among(s, n, port) = {} /\ Fitting(s) /\ Carries(s, rs, r)
  BY DEF Fitting
<1>3. Handshake(state, port, time) = three
  BY DEF Handshake
<1>4. u = Append(s, syn) /\ opened.next = [req |-> CLIENT_SEQ + 1, resp |-> PLC_SEQ]
  OBVIOUS
<1> HIDE DEF s, n, three, two, opened
<1>5. /\ syn \in ExportPacket /\ syn.client_port = port /\ syn.direction = "req" /\ syn.wall_time = time - 10
      /\ syn.seq = CLIENT_SEQ /\ syn.flags = {SYN} /\ syn.payload = <<>> /\ Takes(syn) = 1
  <2>1. syn \in ExportPacket
    BY <1>1 DEF Packet, ExportPacket, Kinds
  <2>2. {SYN} \cap {SYN, FIN} # {}
    OBVIOUS
  <2> QED BY <1>1, <2>1, <2>2 DEF Packet, Takes
<1> HIDE DEF syn
<1>6. \A d \in {"req", "resp"} : Following(s, n, port, d) = FirstSeq(d)
  <2>1. n \in Nat
    BY <1>2 DEF n
  <2> TAKE d \in {"req", "resp"}
  <2>2. {k \in Among(s, n, port) : s[k].direction = d} = {}
    BY <1>2
  <2> QED BY <2>1, <2>2, FollowingIs
<1>7. Continuing(s, syn)
  <2>1. syn.seq = Following(s, n, port, "req")
    BY <1>5, <1>6 DEF FirstSeq
  <2>2. ACK \notin {SYN} /\ {SYN} # {SYN, ACK} /\ Cardinality({}) = 0
    BY FlagsDiffer, FS_EmptySet
  <2>3. Among(s, Len(s), syn.client_port) = {}
    BY <1>2, <1>5 DEF n
  <2>4. syn.seq = Following(s, Len(s), syn.client_port, syn.direction)
    BY <1>5, <2>1 DEF n
  <2>5. ACK \notin syn.flags /\ syn.flags = {SYN} /\ syn.flags # {SYN, ACK} /\ syn.payload = <<>>
    BY <1>5, <2>2
  <2>6. 0 # 1
    OBVIOUS
  <2> QED BY <2>2, <2>3, <2>4, <2>5, <2>6, Zenon DEF Continuing
<1>8. Fitting(u) /\ Extends(s, u, port)
  <2>1. \A k \in Among(s, Len(s), syn.client_port) : s[k].wall_time <= syn.wall_time
    BY <1>2, <1>5 DEF n
  <2> QED BY <1>2, <1>4, <1>5, <1>7, <2>1, AppendFits
<1>9. /\ n \in Nat /\ Len(u) = n + 1 /\ u[n + 1] = syn /\ Among(u, n + 1, port) = {n + 1}
      /\ Cardinality(Among(u, n + 1, port)) = 1
      /\ Following(u, n + 1, port, "req") = CLIENT_SEQ + 1
      /\ Following(u, n + 1, port, "resp") = PLC_SEQ
  <2>1. /\ n \in Nat /\ Len(u) = n + 1 /\ u[n + 1] = syn
        /\ \A e : e # "req" => Following(u, n + 1, port, e) = Following(s, n, port, e)
        /\ Among(u, n + 1, port) = Among(s, n, port) \cup {n + 1}
        /\ Cardinality(Among(u, n + 1, port)) = Cardinality(Among(s, n, port)) + 1
        /\ Following(u, n + 1, port, "req") = syn.seq + Takes(syn)
    <3>1. LET t == Append(s, syn) IN
           /\ Len(t) = Len(s) + 1 /\ t[Len(s) + 1] = syn
           /\ \A q, d : q # syn.client_port \/ d # syn.direction => Following(t, Len(s) + 1, q, d) = Following(s, Len(s), q, d)
           /\ Among(t, Len(s) + 1, syn.client_port) = Among(s, Len(s), syn.client_port) \cup {Len(s) + 1}
           /\ Cardinality(Among(t, Len(s) + 1, syn.client_port)) = Cardinality(Among(s, Len(s), syn.client_port)) + 1
           /\ Following(t, Len(s) + 1, syn.client_port, syn.direction) = syn.seq + Takes(syn)
      BY <1>2, <1>5, OneMore
    <3>2. n \in Nat
      BY <1>2 DEF n
    <3> QED BY <1>4, <1>5, <3>1, <3>2 DEF n
  <2>2. Following(u, n + 1, port, "resp") = PLC_SEQ
    BY <1>6, <2>1 DEF FirstSeq
  <2> QED BY <1>2, <1>5, <2>1, <2>2, FS_EmptySet
<1>10. Connected(opened, port, 1, time - 10)
  <2>1. opened.next \in [{"req", "resp"} -> Nat]
    <3>1. opened.next = [d \in {"req", "resp"} |-> IF d = "req" THEN CLIENT_SEQ + 1 ELSE PLC_SEQ]
      BY <1>4
    <3> QED BY <1>1, <3>1
  <2>2. \A d \in {"req", "resp"} : opened.next[d] = Following(u, Len(u), port, d)
    BY <1>4, <1>9
  <2>3. \A k \in Among(u, Len(u), port) : u[k].wall_time <= time - 10
    BY <1>5, <1>9
  <2> QED BY <1>8, <1>9, <2>1, <2>2, <2>3 DEF Connected
<1>11. StillOpen(u, port)
  <2>1. FIN \notin {SYN}
    BY FlagsDiffer
  <2> QED BY <1>5, <1>9, <2>1 DEF StillOpen
<1>12. Carries(u, rs, r)
  BY <1>2, <1>4, <1>5, CarriesEmpty
<1>13. /\ {SYN, ACK} \in Kinds /\ {SYN, ACK} # {SYN} /\ FIN \notin {SYN, ACK}
       /\ {ACK} \in Kinds /\ {ACK} # {SYN} /\ {ACK} # {SYN, ACK} /\ FIN \notin {ACK}
       /\ "req" \in {"req", "resp"} /\ "resp" \in {"req", "resp"}
       /\ time - 10 \in Int /\ time - 9 \in Int /\ time - 8 \in Int
       /\ time - 10 <= time - 9 /\ time - 9 <= time - 8 /\ time - 8 <= time
       /\ 1 >= 1 /\ 2 >= 1 /\ 1 + 1 = 2 /\ 2 + 1 = 3 /\ 1 < 3 /\ 2 < 3 /\ 2 # 1
  BY FlagsDiffer DEF Kinds
<1>14. /\ Connected(two, port, 2, time - 9) /\ Extends(u, two.packets, port)
       /\ StillOpen(two.packets, port) /\ Carries(two.packets, rs, r)
  <2>1. MayFollow(u, port, 1, {SYN, ACK}, <<>>)
    BY <1>1, <1>13 DEF MayFollow
  <2>2. PutsEmpty(opened, two, port, 1, time - 10, "resp", time - 9, {SYN, ACK}, rs, r)
    BY <1>10, <1>12, <1>13, <2>1 DEF PutsEmpty, Puts, two
  <2>3. HasPutEmpty(opened, two, port, 1 + 1, time - 9, {SYN, ACK}, rs, r)
    BY <2>2, PutEmpty
  <2>4. HasPutEmpty(opened, two, port, 2, time - 9, {SYN, ACK}, rs, r) /\ 2 < 4
    BY <2>3
  <2> QED BY <1>11, <1>13, <2>4, Zenon DEF HasPutEmpty
<1>15. /\ Connected(three, port, 3, time - 8) /\ Extends(two.packets, three.packets, port)
       /\ StillOpen(three.packets, port) /\ Carries(three.packets, rs, r)
  <2>1. MayFollow(two.packets, port, 2, {ACK}, <<>>)
    BY <1>1, <1>13 DEF MayFollow
  <2>2. PutsEmpty(two, three, port, 2, time - 9, "req", time - 8, {ACK}, rs, r)
    BY <1>13, <1>14, <2>1 DEF PutsEmpty, Puts, three
  <2>3. HasPutEmpty(two, three, port, 2 + 1, time - 8, {ACK}, rs, r)
    BY <2>2, PutEmpty
  <2>4. HasPutEmpty(two, three, port, 3, time - 8, {ACK}, rs, r) /\ 3 < 4
    BY <2>3
  <2> QED BY <1>13, <1>14, <2>4, Zenon DEF HasPutEmpty
<1>16. Extends(s, three.packets, port)
  BY <1>8, <1>14, <1>15, ExtendsFurther
<1>17. Connected(three, port, 3, time)
  BY <1>13, <1>15, ConnectedLater
<1> QED BY <1>3, <1>15, <1>16, <1>17 DEF s

\* ... and ends with a close.
LEMMA CloseFits ==
  ASSUME NEW state, NEW port \in Clients, NEW c, NEW time \in Int, Connected(state, port, c, time), c >= 3,
         NEW rs, NEW r \in Nat, Carries(state.packets, rs, r)
  PROVE  LET new == Close(state, port, time)
         IN  /\ Fitting(new.packets) /\ Extends(state.packets, new.packets, port)
             /\ Carries(new.packets, rs, r)
<1> DEFINE one == Put(state, port, "req", time + 10, {FIN, ACK}, <<>>)
           two == Put(one, port, "resp", time + 11, {FIN, ACK}, <<>>)
           three == Put(two, port, "req", time + 12, {ACK}, <<>>)
<1>1. <<>> \in Seq(Nat)
  OBVIOUS
<1>2. Close(state, port, time) = three
  BY DEF Close
<1> HIDE DEF one, two, three
<1>3. /\ {FIN, ACK} \in Kinds /\ {FIN, ACK} # {SYN} /\ {FIN, ACK} # {SYN, ACK}
      /\ {ACK} \in Kinds /\ {ACK} # {SYN} /\ {ACK} # {SYN, ACK}
      /\ "req" \in {"req", "resp"} /\ "resp" \in {"req", "resp"}
      /\ time + 10 \in Int /\ time + 11 \in Int /\ time + 12 \in Int
      /\ time <= time + 10 /\ time + 10 <= time + 11 /\ time + 11 <= time + 12
  BY FlagsDiffer DEF Kinds
<1>4. c \in Nat /\ c >= 1 /\ c # 1 /\ c + 1 >= 1 /\ c + 1 # 1 /\ (c + 1) + 1 >= 1 /\ (c + 1) + 1 # 1
  <2>1. c \in Nat
    BY DEF Connected
  <2> QED BY <2>1
<1>50. \A s : /\ MayFollow(s, port, c, {FIN, ACK}, <<>>)
              /\ MayFollow(s, port, c + 1, {FIN, ACK}, <<>>)
              /\ MayFollow(s, port, (c + 1) + 1, {ACK}, <<>>)
  BY <1>1, <1>3, <1>4 DEF MayFollow
<1>5. /\ Connected(one, port, c + 1, time + 10) /\ Extends(state.packets, one.packets, port)
      /\ Carries(one.packets, rs, r)
  <2>1. PutsEmpty(state, one, port, c, time, "req", time + 10, {FIN, ACK}, rs, r)
    BY <1>3, <1>4, <1>50 DEF PutsEmpty, Puts, one
  <2>2. HasPutEmpty(state, one, port, c + 1, time + 10, {FIN, ACK}, rs, r)
    BY <2>1, PutEmpty
  <2> QED BY <2>2, Zenon DEF HasPutEmpty
<1>6. /\ Connected(two, port, (c + 1) + 1, time + 11) /\ Extends(one.packets, two.packets, port)
      /\ Carries(two.packets, rs, r)
  <2>1. PutsEmpty(one, two, port, c + 1, time + 10, "resp", time + 11, {FIN, ACK}, rs, r)
    BY <1>3, <1>4, <1>5, <1>50 DEF PutsEmpty, Puts, two
  <2>2. HasPutEmpty(one, two, port, (c + 1) + 1, time + 11, {FIN, ACK}, rs, r)
    BY <2>1, PutEmpty
  <2> QED BY <2>2, Zenon DEF HasPutEmpty
<1>7. /\ Connected(three, port, ((c + 1) + 1) + 1, time + 12) /\ Extends(two.packets, three.packets, port)
      /\ Carries(three.packets, rs, r)
  <2>1. PutsEmpty(two, three, port, (c + 1) + 1, time + 11, "req", time + 12, {ACK}, rs, r)
    BY <1>3, <1>4, <1>6, <1>50 DEF PutsEmpty, Puts, three
  <2>2. HasPutEmpty(two, three, port, ((c + 1) + 1) + 1, time + 12, {ACK}, rs, r)
    BY <2>1, PutEmpty
  <2> QED BY <2>2, Zenon DEF HasPutEmpty
<1>8. Extends(state.packets, three.packets, port)
  BY <1>5, <1>6, <1>7, ExtendsFurther
<1>9. Fitting(three.packets)
  BY <1>7 DEF Connected
<1> QED BY <1>2, <1>7, <1>8, <1>9

----------------------------------------------------------------------------
(* A row at a time.                                                        *)

LEMMA LastIndex ==
  ASSUME rows \in Seq(RowType), NEW i \in 1..Len(rows)
  PROVE  last_index(rows[i].client_port) >= i
<1> DEFINE port == rows[i].client_port
           I == {j \in 1..Len(rows) : rows[j].client_port = port}
<1>1. Len(rows) \in Nat /\ I \subseteq 0..Len(rows) /\ i \in I
  OBVIOUS
<1>2. last_index(port) = IF I # {} THEN Max(I) ELSE 0
  BY DEF last_index, SelectLastInSeq
<1> HIDE DEF I, port
<1>3. Max(I) >= i
  BY <1>1, MaxOf
<1> QED BY <1>1, <1>2, <1>3 DEF port

LEMMA ConnectedSame ==
  ASSUME NEW state, NEW new, new.packets = state.packets, new.next = state.next,
         NEW port, NEW c, NEW t, Connected(state, port, c, t)
  PROVE  Connected(new, port, c, t)
BY Zenon DEF Connected

LEMMA ExtendsItself ==
  ASSUME NEW s \in Seq(ExportPacket), NEW port
  PROVE  Extends(s, s, port)
<1> DEFINE n == Len(s)
<1>1. n \in Nat
  OBVIOUS
<1> HIDE DEF n
<1>2. n <= n /\ \A k \in 1..n : ~(k > n)
  BY <1>1
<1> QED BY <1>1, <1>2 DEF Extends, n

StateOf(port) == [packets |-> packets, next |-> conns[port]]
Building ==
  /\ RowsFit(rows) /\ row \in 1..Len(rows) + 1
  /\ Fitting(packets)
  /\ \A k \in 1..Len(packets) : packets[k].client_port \in DOMAIN conns
  /\ \A i \in row..Len(rows) : rows[i].client_port \in DOMAIN conns =>
       /\ StillOpen(packets, rows[i].client_port)
       /\ \E c : c >= 3 /\ Connected(StateOf(rows[i].client_port), rows[i].client_port, c, rows[i].wall_time)
  /\ Carries(packets, rows, row - 1)

\* new is state and p, one more packet of port, with payload.
PutsPayload(state, new, port, c, d, time, p) ==
  /\ Connected(state, port, c, time) /\ c >= 3 /\ StillOpen(state.packets, port)
  /\ d \in {"req", "resp"} /\ time \in Int /\ p.payload \in Seq(Nat) /\ p.payload # <<>>
  /\ p = Packet(port, d, time, state.next[d], state.next[Other(d)], {PSH, ACK}, p.payload)
  /\ new = Put(state, port, d, time, {PSH, ACK}, p.payload)
HasPutPayload(state, new, port, c, time, p) ==
  /\ Connected(new, port, c, time) /\ Extends(state.packets, new.packets, port)
  /\ p \in ExportPacket /\ new.packets = Append(state.packets, p)
  /\ StillOpen(new.packets, port) /\ c >= 3

LEMMA PutPayload ==
  ASSUME NEW state, NEW new, NEW port \in Clients, NEW c, NEW d, NEW time, NEW p,
         PutsPayload(state, new, port, c, d, time, p)
  PROVE  HasPutPayload(state, new, port, c + 1, time, p)
<1> DEFINE flags == {PSH, ACK}
           payload == p.payload
<1>1. /\ Connected(state, port, c, time) /\ c >= 3 /\ StillOpen(state.packets, port)
      /\ d \in {"req", "resp"} /\ time \in Int /\ payload \in Seq(Nat) /\ payload # <<>>
      /\ p = Packet(port, d, time, state.next[d], state.next[Other(d)], flags, payload)
      /\ new = Put(state, port, d, time, flags, payload)
  BY Zenon DEF PutsPayload
<1>2. c \in Nat /\ c >= 1 /\ c # 1 /\ c > 2 /\ c + 1 >= 3 /\ time <= time
  <2>1. c \in Nat
    BY <1>1 DEF Connected
  <2> QED BY <1>1, <2>1
<1>3. MayFollow(state.packets, port, c, flags, payload) /\ FIN \notin flags
  <2>1. /\ flags \in Kinds /\ flags # {SYN} /\ flags # {SYN, ACK}
        /\ FIN \notin flags
    BY FlagsDiffer DEF Kinds
  <2> HIDE DEF flags, payload
  <2>2. payload # <<>> => flags = {PSH, ACK}
    BY DEF flags
  <2> QED BY <1>1, <1>2, <2>1, <2>2 DEF MayFollow
<1>4. Puts(state, port, c, time, d, time, flags, payload)
  BY <1>1, <1>2, <1>3, Zenon DEF Puts
<1> HIDE DEF flags, payload
<1>5. HasPut(state, port, c + 1, d, time, flags, payload)
  BY <1>4, PutFits
<1>6. /\ Connected(new, port, c + 1, time)
      /\ Extends(state.packets, new.packets, port)
      /\ p \in ExportPacket /\ new.packets = Append(state.packets, p)
      /\ StillOpen(state.packets, port) /\ FIN \notin flags /\ (payload # <<>> \/ c + 1 < 4) => StillOpen(new.packets, port)
  BY <1>1, <1>5, Zenon DEF HasPut
<1> QED BY <1>1, <1>2, <1>3, <1>6, Zenon DEF HasPutPayload

\* A connection of this row, before its frame is written.
LEMMA OpenedFits ==
  ASSUME Building, row <= Len(rows),
         NEW port, port = rows[row].client_port, NEW time, time = rows[row].wall_time,
         NEW before, before.packets = packets, port \in DOMAIN conns => before.next = conns[port],
         NEW opened, opened = IF port \in DOMAIN conns THEN before ELSE Handshake(before, port, time)
  PROVE  /\ \E c : c >= 3 /\ Connected(opened, port, c, time)
         /\ StillOpen(opened.packets, port) /\ Extends(packets, opened.packets, port)
         /\ Carries(opened.packets, rows, row - 1)
<1>1. /\ row \in Nat /\ row - 1 \in Nat /\ row \in 1..Len(rows) /\ row \in row..Len(rows)
      /\ packets \in Seq(ExportPacket) /\ Fitting(packets) /\ Carries(packets, rows, row - 1)
  <2>1. Len(rows) \in Nat /\ row \in 1..Len(rows) + 1
    BY DEF Building, RowsFit
  <2> QED BY <2>1 DEF Building, Fitting
<1>2. port \in Clients /\ time \in Int
  <2>1. rows \in Seq(RowType)
    BY Zenon DEF Building, RowsFit
  <2>2. rows[row] \in RowType
    BY <1>1, <2>1
  <2> QED BY <2>2 DEF RowType
<1>3. CASE port \in DOMAIN conns
  <2>1. opened = before /\ before.next = conns[port]
    BY <1>3
  <2>2. /\ StillOpen(packets, port)
        /\ \E c : c >= 3 /\ Connected(StateOf(port), port, c, time)
    BY <1>1, <1>3 DEF Building
  <2>3. PICK c : c >= 3 /\ Connected(StateOf(port), port, c, time)
    BY <2>2
  <2>4. StateOf(port).packets = before.packets /\ StateOf(port).next = before.next
    BY <2>1 DEF StateOf
  <2>5. Connected(opened, port, c, time)
    BY <2>1, <2>3, <2>4, ConnectedSame
  <2>6. Extends(packets, packets, port)
    BY <1>1, ExtendsItself
  <2> QED BY <1>1, <2>1, <2>2, <2>3, <2>5, <2>6
<1>4. CASE port \notin DOMAIN conns
  <2>1. Among(packets, Len(packets), port) = {}
    BY <1>4 DEF Among, Building
  <2>2. opened = Handshake(before, port, time)
    BY <1>4
  <2>3. /\ Connected(opened, port, 3, time) /\ StillOpen(opened.packets, port)
        /\ Extends(packets, opened.packets, port)
        /\ Carries(opened.packets, rows, row - 1)
    BY <1>1, <1>2, <2>1, <2>2, HandshakeFits
  <2> QED BY <2>3
<1> QED BY <1>3, <1>4

\* ... once its frame is written, and closed if it was its last.
LEMMA RowFits ==
  ASSUME Building, row <= Len(rows),
         NEW port, port = rows[row].client_port, NEW time, time = rows[row].wall_time,
         NEW opened, \E c : c >= 3 /\ Connected(opened, port, c, time),
         StillOpen(opened.packets, port), Extends(packets, opened.packets, port),
         Carries(opened.packets, rows, row - 1),
         NEW sent, sent = Put(opened, port, rows[row].direction, time, {PSH, ACK}, rows[row].raw_hex),
         NEW after, after = IF IsLast(row) THEN Close(sent, port, time) ELSE sent
  PROVE  /\ Fitting(after.packets) /\ Extends(packets, after.packets, port)
         /\ Carries(after.packets, rows, row)
         /\ ~IsLast(row) => /\ \E c : c >= 3 /\ Connected(after, port, c, time)
                            /\ StillOpen(after.packets, port)
<1> DEFINE r == rows[row]
           d == r.direction
           raw == r.raw_hex
           p == Packet(port, d, time, opened.next[d], opened.next[Other(d)], {PSH, ACK}, raw)
<1>1. row \in Nat /\ row - 1 \in Nat /\ (row - 1) + 1 = row /\ row \in 1..Len(rows)
  <2>1. Len(rows) \in Nat /\ row \in 1..Len(rows) + 1
    BY DEF Building, RowsFit
  <2> QED BY <2>1
<1>2. r \in RowType /\ raw # <<>>
  <2>1. RowsFit(rows)
    BY Zenon DEF Building
  <2> QED BY <1>1, <2>1 DEF RowsFit, HasBytes
<1>3. /\ port \in Clients /\ time \in Int /\ d \in {"req", "resp"} /\ raw \in Seq(Nat)
      /\ time <= time
  BY <1>2 DEF RowType
<1>4. r = Row(port, d, time, raw)
  BY <1>2 DEF RowType, Row
<1>5. PICK c : c >= 3 /\ Connected(opened, port, c, time)
  OBVIOUS
<1>6. c \in Nat /\ c >= 1 /\ c # 1 /\ c > 2 /\ c + 1 >= 3
  <2>1. c \in Nat
    BY <1>5 DEF Connected
  <2> QED BY <1>5, <2>1
<1>7. RowOf(p) = r
  BY <1>4 DEF RowOf, Row, Packet
<1>8. sent = Put(opened, port, d, time, {PSH, ACK}, raw)
  OBVIOUS
<1>9. p.payload = raw
  BY DEF Packet
<1> HIDE DEF r, d, raw, p
<1>10. /\ Connected(sent, port, c + 1, time) /\ Extends(opened.packets, sent.packets, port)
       /\ p \in ExportPacket /\ sent.packets = Append(opened.packets, p)
       /\ StillOpen(sent.packets, port)
  <2>1. PutsPayload(opened, sent, port, c, d, time, p)
    BY <1>2, <1>3, <1>5, <1>8, <1>9 DEF PutsPayload, p
  <2>2. HasPutPayload(opened, sent, port, c + 1, time, p)
    BY <1>3, <2>1, PutPayload
  <2> QED BY <2>2, Zenon DEF HasPutPayload
<1>11. Carries(sent.packets, rows, row)
  <2>1. opened.packets \in Seq(ExportPacket)
    BY <1>5 DEF Connected, Fitting
  <2>2. RowOf(p) = rows[(row - 1) + 1]
    BY <1>1, <1>7 DEF r
  <2>3. Carries(Append(opened.packets, p), rows, (row - 1) + 1)
    BY <1>1, <1>10, <2>1, <2>2, CarriesOne
  <2> QED BY <1>1, <1>10, <2>3
<1>12. Extends(packets, sent.packets, port)
  BY <1>10, Zenon, ExtendsFurther
<1>13. Fitting(sent.packets)
  BY <1>10, Zenon DEF Connected
<1>14. CASE IsLast(row)
  <2>1. after = Close(sent, port, time)
    BY <1>14, Zenon
  <2>2. Fitting(after.packets) /\ Extends(sent.packets, after.packets, port) /\ Carries(after.packets, rows, row)
    BY <1>1, <1>3, <1>6, <1>10, <1>11, <2>1, ZenonT(60), CloseFits
  <2>3. Extends(packets, after.packets, port)
    BY <1>12, <2>2, ExtendsFurther
  <2> QED BY <1>14, <2>2, <2>3
<1>15. CASE ~IsLast(row)
  <2>1. after = sent
    BY <1>15
  <2> QED BY <1>6, <1>10, <1>11, <1>12, <1>13, <1>15, <2>1
<1> QED BY <1>14, <1>15


\* A row keeps what is true of the connections.
LEMMA ExportRowKeeps == Building /\ ExportRow => Building'
<1> SUFFICES ASSUME Building, ExportRow PROVE Building'
  OBVIOUS
<1> DEFINE r == rows[row]
           port == r.client_port
           time == r.wall_time
           before == [packets |-> packets,
                      next |-> IF port \in DOMAIN conns THEN conns[port] ELSE <<>>]
           opened == IF port \in DOMAIN conns THEN before ELSE Handshake(before, port, time)
           sent == Put(opened, port, r.direction, time, {PSH, ACK}, r.raw_hex)
           after == IF IsLast(row) THEN Close(sent, port, time) ELSE sent
<1>1. /\ row <= Len(rows) /\ row' = row + 1 /\ rows' = rows
      /\ packets' = after.packets
  BY DEF ExportRow
<1>2. before.packets = packets /\ (port \in DOMAIN conns => before.next = conns[port])
  OBVIOUS
<1>3. /\ rows \in Seq(RowType) /\ Len(rows) \in Nat /\ row \in 1..Len(rows) /\ row + 1 \in 1..Len(rows) + 1
      /\ (row + 1) - 1 = row /\ RowsFit(rows)
  <2>1. rows \in Seq(RowType) /\ row \in 1..Len(rows) + 1 /\ RowsFit(rows)
    BY Zenon DEF Building, RowsFit
  <2>2. Len(rows) \in Nat
    BY <2>1
  <2> QED BY <1>1, <2>1, <2>2
<1>4. port \in Clients /\ time \in Int
  <2>1. r \in RowType
    BY <1>3
  <2> QED BY <2>1 DEF RowType
<1> HIDE DEF before, opened, sent, after
<1>5. /\ \E c : c >= 3 /\ Connected(opened, port, c, time)
      /\ StillOpen(opened.packets, port) /\ Extends(packets, opened.packets, port)
      /\ Carries(opened.packets, rows, row - 1)
  BY <1>1, <1>2, OpenedFits, Zenon DEF opened
<1>6. /\ Fitting(after.packets) /\ Extends(packets, after.packets, port)
      /\ Carries(after.packets, rows, row)
      /\ ~IsLast(row) => /\ \E c : c >= 3 /\ Connected(after, port, c, time)
                         /\ StillOpen(after.packets, port)
  BY <1>1, <1>5, RowFits, Zenon DEF sent, after
<1> HIDE DEF port, time
<1>7. /\ DOMAIN conns' = {port} \cup DOMAIN conns /\ conns'[port] = after.next
      /\ \A q \in DOMAIN conns : q # port => conns'[q] = conns[q]
  <2> DEFINE v == after.next
  <2>1. conns' = [q \in DOMAIN conns \cup {port} |-> IF q = port THEN v ELSE conns[q]]
    BY DEF ExportRow, before, opened, sent, after, port, time
  <2> HIDE DEF v
  <2>2. /\ DOMAIN conns' = {port} \cup DOMAIN conns /\ conns'[port] = v
        /\ \A q \in DOMAIN conns : q # port => conns'[q] = conns[q]
    BY <2>1
  <2> QED BY <2>2 DEF v
<1>8. ASSUME NEW k \in 1..Len(packets') PROVE packets'[k].client_port \in DOMAIN conns'
  <2>1. Len(packets) \in Nat /\ Len(packets') \in Nat
    BY <1>1, <1>6 DEF Extends
  <2>2. CASE k <= Len(packets)
    <3>1. k \in 1..Len(packets)
      BY <2>1, <2>2
    <3>2. packets'[k] = packets[k] /\ packets[k].client_port \in DOMAIN conns
      BY <1>1, <1>6, <3>1 DEF Extends, Building
    <3> QED BY <1>7, <3>2
  <2>3. CASE k > Len(packets)
    <3>1. packets'[k].client_port = port
      BY <1>1, <1>6, <2>3 DEF Extends
    <3> QED BY <1>7, <3>1
  <2> QED BY <2>1, <2>2, <2>3
<1>9. ASSUME NEW i \in row + 1..Len(rows), rows[i].client_port \in DOMAIN conns'
      PROVE  /\ StillOpen(packets', rows[i].client_port)
             /\ \E c : c >= 3 /\ Connected(StateOf(rows[i].client_port)', rows[i].client_port, c, rows[i].wall_time)
  <2> DEFINE q == rows[i].client_port
             w == rows[i].wall_time
  <2>1. i \in row..Len(rows) /\ i \in 1..Len(rows) /\ i > row /\ row \in 1..i - 1
    BY <1>3
  <2>2. time <= w /\ w \in Int
    <3>1. \A m \in 1..Len(rows) : \A n \in 1..m - 1 : rows[n].wall_time <= rows[m].wall_time
      BY <1>3 DEF RowsFit
    <3>2. rows[i] \in RowType
      BY <1>3, <2>1
    <3> QED BY <2>1, <3>1, <3>2 DEF time, RowType
  <2>3. StateOf(q)'.packets = after.packets /\ StateOf(q)'.next = conns'[q]
    BY <1>1 DEF StateOf
  <2>4. CASE q = port
    <3>1. ~IsLast(row)
      <4>1. last_index(q) >= i
        BY <1>3, <2>1, LastIndex
      <4>2. last_index(port) # row
        BY <2>1, <2>4, <4>1
      <4> QED BY <4>2 DEF IsLast, port
    <3>2. PICK c : c >= 3 /\ Connected(after, port, c, time)
      BY <1>6, <3>1
    <3>3. Connected(after, port, c, w)
      BY <1>4, <2>2, <3>2, ConnectedLater DEF port, time
    <3>4. Connected(StateOf(q)', port, c, w)
      BY <1>7, <2>3, <2>4, <3>3, ConnectedSame
    <3> QED BY <1>1, <1>6, <2>4, <3>1, <3>2, <3>4
  <2>5. CASE q # port
    <3>1. q \in DOMAIN conns /\ conns'[q] = conns[q]
      BY <1>7, <1>9, <2>5
    <3>2. /\ StillOpen(packets, q)
          /\ \E c : c >= 3 /\ Connected(StateOf(q), q, c, w)
      BY <2>1, <3>1 DEF Building
    <3>3. PICK c : c >= 3 /\ Connected(StateOf(q), q, c, w)
      BY <3>2
    <3>4. StateOf(q).packets = packets /\ StateOf(q).next = conns[q]
      BY DEF StateOf
    <3> DEFINE new == [packets |-> after.packets, next |-> StateOf(q).next]
    <3>5. Connected(new, q, c, w) /\ StillOpen(after.packets, q)
      BY <1>6, <2>5, <3>2, <3>3, <3>4, ConnectedElsewhere
    <3>6. new.packets = after.packets /\ new.next = conns[q]
      BY <3>4
    <3> HIDE DEF new
    <3>7. Connected(StateOf(q)', q, c, w)
      BY <2>3, <3>1, <3>5, <3>6, ConnectedSame
    <3> QED BY <1>1, <3>3, <3>5, <3>7
  <2> QED BY <2>4, <2>5
<1> QED BY <1>1, <1>3, <1>6, <1>8, <1>9 DEF Building

----------------------------------------------------------------------------
(* The packets sorted by time: those of a connection keep their order.     *)

\* p takes the packets of port among the first n of t to those among the first m of s.
Matches(s, t, p, n, m, port) ==
  /\ \A j \in Among(t, n, port) : p[j] \in Among(s, m, port) /\ t[j] = s[p[j]]
  /\ \A i \in Among(s, m, port) : \E j \in Among(t, n, port) : p[j] = i
  /\ \A j, h \in Among(t, n, port) : j < h => p[j] < p[h]
Agrees(s, t, n, m, port) ==
  /\ Cardinality(Among(t, n, port)) = Cardinality(Among(s, m, port))
  /\ Among(t, n, port) = {} <=> Among(s, m, port) = {}
  /\ \A d : Following(t, n, port, d) = Following(s, m, port, d)

LEMMA Matching ==
  ASSUME NEW s, NEW t, NEW p, NEW n \in Nat, NEW m \in Nat, NEW port, Matches(s, t, p, n, m, port)
  PROVE  Agrees(s, t, n, m, port)
<1> DEFINE A == Among(t, n, port)
           B == Among(s, m, port)
<1>1. A \subseteq 1..n /\ B \subseteq 1..m /\ IsFiniteSet(A) /\ IsFiniteSet(B)
  BY AmongFinite
<1>2. /\ \A j \in A : p[j] \in B /\ t[j] = s[p[j]]
      /\ \A i \in B : \E j \in A : p[j] = i
      /\ \A j, h \in A : j < h => p[j] < p[h]
  BY DEF Matches
<1> HIDE DEF A, B
<1>20. \A k \in 1..n : k \in Nat /\ k \in 0..n
  OBVIOUS
<1>21. \A k \in 1..m : k \in Nat
  OBVIOUS
<1>22. A \subseteq 0..n /\ \A j \in A : j \in Nat /\ p[j] \in B /\ p[j] \in Nat
  BY <1>1, <1>2, <1>20, <1>21
<1>23. \A i \in B : i \in Nat
  BY <1>1, <1>21
<1>3. \A j, h \in A : p[j] = p[h] => j = h
  <2> TAKE j, h \in A
  <2>1. j \in Nat /\ h \in Nat /\ p[j] \in Nat /\ p[h] \in Nat
    BY <1>22
  <2>2. j < h => p[j] < p[h]
    BY <1>2
  <2>3. h < j => p[h] < p[j]
    BY <1>2
  <2> QED BY <2>1, <2>2, <2>3
<1> DEFINE f == [j \in A |-> p[j]]
<1>4. f \in Bijection(A, B)
  <2>1. f \in [A -> B] /\ \A j \in A : f[j] = p[j]
    BY <1>2
  <2> HIDE DEF f
  <2>2. IsInjective(f) /\ DOMAIN f = A
    BY <1>3, <2>1 DEF IsInjective
  <2>3. f \in Injection(A, B)
    BY <2>1, <2>2 DEF Injection
  <2>4. f \in Surjection(A, B)
    BY <1>2, <2>1 DEF Surjection
  <2> QED BY <2>3, <2>4 DEF Bijection
<1>5. Cardinality(A) = Cardinality(B)
  BY <1>1, <1>4, FS_Bijection DEF ExistsBijection
<1>6. A = {} <=> B = {}
  BY <1>2
<1>7. ASSUME NEW d PROVE Following(t, n, port, d) = Following(s, m, port, d)
  <2> DEFINE C == {k \in A : t[k].direction = d}
             D == {k \in B : s[k].direction = d}
  <2>1. /\ C = {} => Following(t, n, port, d) = FirstSeq(d)
        /\ \A x \in C : (\A k \in C : k <= x) => Following(t, n, port, d) = t[x].seq + Takes(t[x])
    <3>1. C = {k \in Among(t, n, port) : t[k].direction = d}
      BY DEF A
    <3> HIDE DEF C
    <3> QED BY <3>1, FollowingIs
  <2>2. /\ D = {} => Following(s, m, port, d) = FirstSeq(d)
        /\ \A x \in D : (\A k \in D : k <= x) => Following(s, m, port, d) = s[x].seq + Takes(s[x])
    <3>1. D = {k \in Among(s, m, port) : s[k].direction = d}
      BY DEF B
    <3> HIDE DEF D
    <3> QED BY <3>1, FollowingIs
  <2>3. CASE C = {}
    <3>1. ASSUME NEW i \in D PROVE FALSE
      <4>1. PICK j \in A : p[j] = i
        BY <1>2
      <4>2. j \in C
        BY <1>2, <4>1
      <4> QED BY <2>3, <4>2
    <3>2. D = {}
      BY <3>1
    <3> QED BY <2>1, <2>2, <2>3, <3>2
  <2>4. CASE C # {}
    <3>1. C \subseteq 0..n
      BY <1>22
    <3>2. PICK x \in C : \A k \in C : x >= k
      BY <2>4, <3>1, GreatestOf
    <3>3. x \in A /\ p[x] \in D /\ t[x] = s[p[x]] /\ x \in Nat
      BY <1>2, <1>22
    <3>4. \A k \in C : k <= x
      BY <1>22, <3>2
    <3>5. ASSUME NEW i \in D PROVE i <= p[x]
      <4>1. PICK j \in A : p[j] = i
        BY <1>2
      <4>2. j \in C /\ j \in Nat /\ p[x] \in Nat /\ i \in Nat
        <5>1. t[j] = s[i]
          BY <1>2, <4>1
        <5> QED BY <1>22, <1>23, <3>3, <5>1
      <4>3. j <= x
        BY <3>4, <4>2
      <4>4. j = x \/ p[j] < p[x]
        BY <1>2, <3>3, <4>2, <4>3
      <4> QED BY <4>1, <4>2, <4>4
    <3>6. Following(t, n, port, d) = t[x].seq + Takes(t[x])
      BY <2>1, <3>4
    <3>7. Following(s, m, port, d) = s[p[x]].seq + Takes(s[p[x]])
      BY <2>2, <3>3, <3>5
    <3> QED BY <3>3, <3>6, <3>7
  <2> QED BY <2>3, <2>4
<1> QED BY <1>5, <1>6, <1>7 DEF A, B, Agrees

\* The packets of a connection keep their order.
Rearranged(s, t, p, n) ==
  /\ p \in [1..n -> 1..n]
  /\ \A j \in 1..n : t[j] = s[p[j]]
  /\ \A i \in 1..n : \E j \in 1..n : p[j] = i
  /\ \A a, b \in 1..n : a < b /\ t[a].client_port = t[b].client_port => p[a] < p[b]

LEMMA SortKeepsOrder ==
  ASSUME NEW s \in Seq(ExportPacket), InTime(s), NEW p, Sorts(s, 1..Len(s), p)
  PROVE  LET t == SortedByTime(s, 1..Len(s)) IN
         t \in Seq(ExportPacket) /\ Len(t) = Len(s) /\ Rearranged(s, t, p, Len(s))
<1> DEFINE n == Len(s)
           t == SortedByTime(s, 1..n)
<1>1. n \in Nat /\ Cardinality(1..n) = n
  <2>1. n \in Nat
    OBVIOUS
  <2> HIDE DEF n
  <2>2. n = IF 1 > n THEN 0 ELSE (n - 1) + 1
    BY <2>1
  <2>3. Cardinality(1..n) = IF 1 > n THEN 0 ELSE (n - 1) + 1
    BY <2>1, FS_Interval
  <2> QED BY <2>1, <2>2, <2>3
<1>2. /\ p \in [1..n -> 1..n]
      /\ t = [m \in 1..n |-> s[p[m]]]
      /\ \A k \in 1..n : \E m \in 1..n : p[m] = k
      /\ \A a, b \in 1..n : a < b => Before(s, p[a], p[b])
  BY <1>1 DEF Sorts
<1>3. \A k \in 1..n : s[k] \in ExportPacket /\ s[k].wall_time \in Int
  <2>1. \A k \in 1..n : s[k] \in ExportPacket
    OBVIOUS
  <2>2. \A x \in ExportPacket : x.wall_time \in Int
    BY DEF ExportPacket
  <2> QED BY <2>1, <2>2
<1>4. \A k \in 1..n : \A j \in 1..k - 1 : s[j].client_port = s[k].client_port => s[j].wall_time <= s[k].wall_time
  BY DEF InTime
<1> HIDE DEF n, t
<1>5. \A j \in 1..n : t[j] = s[p[j]] /\ p[j] \in 1..n
  BY <1>2
<1>6. t \in Seq(ExportPacket) /\ Len(t) = n
  <2>1. t \in [1..n -> ExportPacket]
    BY <1>2, <1>3, <1>5
  <2> QED BY <1>1, <2>1
<1>7. ASSUME NEW a \in 1..n, NEW b \in 1..n, a < b, t[a].client_port = t[b].client_port
      PROVE  p[a] < p[b]
  <2> DEFINE i == p[a]
             k == p[b]
             u == s[i].wall_time
             w == s[k].wall_time
  <2>1. i \in 1..n /\ k \in 1..n /\ s[i].client_port = s[k].client_port
    BY <1>5, <1>7
  <2>2. u \in Int /\ w \in Int
    BY <1>3, <2>1
  <2>3. u < w \/ (u = w /\ i < k)
    BY <1>2, <1>7 DEF Before
  <2>4. k < i => w <= u
    <3> SUFFICES ASSUME k < i PROVE w <= u
      OBVIOUS
    <3>1. k \in 1..i - 1
      BY <1>1, <2>1
    <3> QED BY <1>4, <2>1, <3>1
  <2>5. i # k
    <3>1. u < w => i # k
      BY <2>2
    <3>2. i < k => i # k
      BY <1>1, <2>1
    <3> QED BY <2>3, <3>1, <3>2
  <2> HIDE DEF i, k, u, w
  <2>6. i < k
    BY <1>1, <2>1, <2>2, <2>3, <2>4, <2>5
  <2> QED BY <2>6 DEF i, k
<1>8. Rearranged(s, t, p, n)
  BY <1>2, <1>5, <1>7 DEF Rearranged
<1> QED BY <1>6, <1>8 DEF n, t

LEMMA SortMatches ==
  ASSUME NEW s, NEW t, NEW p, NEW N \in Nat, Rearranged(s, t, p, N), NEW n \in 1..N
  PROVE  /\ p[n] \in 1..N /\ t[n] = s[p[n]]
         /\ Matches(s, t, p, n, p[n], t[n].client_port)
         /\ Matches(s, t, p, n - 1, p[n] - 1, t[n].client_port)
<1> DEFINE port == t[n].client_port
<1>0. /\ p \in [1..N -> 1..N]
      /\ \A j \in 1..N : t[j] = s[p[j]]
      /\ \A i \in 1..N : \E j \in 1..N : p[j] = i
      /\ \A a, b \in 1..N : a < b /\ t[a].client_port = t[b].client_port => p[a] < p[b]
  BY Zenon DEF Rearranged
<1>1. \A j \in 1..N : p[j] \in 1..N /\ p[j] \in Nat
  <2>1. \A j \in 1..N : p[j] \in 1..N
    BY <1>0
  <2>2. \A k \in 1..N : k \in Nat
    OBVIOUS
  <2> QED BY <2>1, <2>2
<1>10. \A j \in 1..N : t[j].client_port = port /\ j = n => p[j] = p[n]
  OBVIOUS
<1>5. \A a, b \in 1..N : t[a].client_port = port /\ t[b].client_port = port /\ a < b => p[a] < p[b]
  BY <1>0
<1>11. t[n].client_port = port
  OBVIOUS
<1> HIDE DEF port
<1>2. /\ \A j \in Among(t, n, port) : j \in 1..N /\ j <= n /\ t[j].client_port = port
      /\ \A j \in 1..N : j <= n /\ t[j].client_port = port => j \in Among(t, n, port)
      /\ \A j \in Among(t, n - 1, port) : j \in 1..N /\ j < n /\ t[j].client_port = port
      /\ \A j \in 1..N : j < n /\ t[j].client_port = port => j \in Among(t, n - 1, port)
  BY DEF Among
<1> DEFINE k == p[n]
<1>3. k \in 1..N
  BY <1>1
<1> HIDE DEF k
<1>4. /\ \A i \in Among(s, k, port) : i \in 1..N /\ i <= k /\ s[i].client_port = port
      /\ \A i \in 1..N : i <= k /\ s[i].client_port = port => i \in Among(s, k, port)
      /\ \A i \in Among(s, k - 1, port) : i \in 1..N /\ i < k /\ s[i].client_port = port
      /\ \A i \in 1..N : i < k /\ s[i].client_port = port => i \in Among(s, k - 1, port)
  BY <1>3 DEF Among
<1>6. \A j \in 1..N : t[j].client_port = port =>
        /\ s[p[j]].client_port = port
        /\ j < n <=> p[j] < k
        /\ j <= n <=> p[j] <= k
  <2> TAKE j \in 1..N
  <2> SUFFICES ASSUME t[j].client_port = port
               PROVE  (j < n <=> p[j] < k) /\ (j <= n <=> p[j] <= k)
    BY <1>0
  <2>1. j < n => p[j] < k
    BY <1>5, <1>11 DEF k
  <2>2. n < j => k < p[j]
    BY <1>5, <1>11 DEF k
  <2>3. j = n => p[j] = k
    BY DEF k
  <2>4. j \in Nat /\ n \in Nat /\ k \in Nat /\ p[j] \in Nat
    BY <1>1, <1>3
  <2> QED BY <2>1, <2>2, <2>3, <2>4
<1>7. Matches(s, t, p, n, k, port)
  <2>1. ASSUME NEW j \in Among(t, n, port) PROVE p[j] \in Among(s, k, port) /\ t[j] = s[p[j]]
    BY <1>0, <1>1, <1>2, <1>4, <1>6
  <2>2. ASSUME NEW i \in Among(s, k, port) PROVE \E j \in Among(t, n, port) : p[j] = i
    <3>1. PICK j \in 1..N : p[j] = i
      BY <1>0, <1>4
    <3>2. t[j].client_port = port
      <4>1. s[i].client_port = port
        BY <1>4
      <4>2. t[j] = s[p[j]]
        BY <1>0
      <4> QED BY <3>1, <4>1, <4>2
    <3> QED BY <1>2, <1>4, <1>6, <3>1, <3>2
  <2> QED BY <1>2, <1>5, <2>1, <2>2 DEF Matches
<1>8. Matches(s, t, p, n - 1, k - 1, port)
  <2>1. ASSUME NEW j \in Among(t, n - 1, port) PROVE p[j] \in Among(s, k - 1, port) /\ t[j] = s[p[j]]
    BY <1>0, <1>1, <1>2, <1>4, <1>6
  <2>2. ASSUME NEW i \in Among(s, k - 1, port) PROVE \E j \in Among(t, n - 1, port) : p[j] = i
    <3>1. PICK j \in 1..N : p[j] = i
      BY <1>0, <1>4
    <3>2. t[j].client_port = port
      <4>1. s[i].client_port = port
        BY <1>4
      <4>2. t[j] = s[p[j]]
        BY <1>0
      <4> QED BY <3>1, <4>1, <4>2
    <3> QED BY <1>2, <1>4, <1>6, <3>1, <3>2
  <2> QED BY <1>2, <1>5, <2>1, <2>2 DEF Matches
<1> QED BY <1>0, <1>3, <1>7, <1>8 DEF k, port


LEMMA FitsSorted ==
  ASSUME NEW s, NEW t, NEW p, NEW N \in Nat, Rearranged(s, t, p, N), NEW n \in 1..N, Fits(s, p[n])
  PROVE  Fits(t, n)
<1> DEFINE r == t[n]
           port == r.client_port
           m == p[n]
           A == Among(t, n - 1, port)
           B == Among(s, m - 1, port)
<1>1. /\ m \in 1..N /\ t[n] = s[m]
      /\ Matches(s, t, p, n - 1, m - 1, port)
  BY SortMatches
<1>2. n - 1 \in Nat /\ m - 1 \in Nat
  BY <1>1
<1>3. /\ Cardinality(A) = Cardinality(B) /\ (A = {} <=> B = {})
      /\ \A d : Following(t, n - 1, port, d) = Following(s, m - 1, port, d)
  <2> DEFINE i == n - 1
             k == m - 1
  <2>1. i \in Nat /\ k \in Nat /\ Matches(s, t, p, i, k, port)
    BY <1>1, <1>2
  <2> HIDE DEF m, i, k, port
  <2>2. Agrees(s, t, i, k, port)
    BY <2>1, Matching
  <2> QED BY <2>2, Zenon DEF Agrees, i, k
<1>4. s[m] = r
  BY <1>1
<1>5. /\ r.seq = Following(s, m - 1, port, r.direction)
      /\ ACK \in r.flags => r.ack = Following(s, m - 1, port, Other(r.direction))
      /\ r.flags = {SYN} <=> B = {}
      /\ r.flags = {SYN, ACK} <=> Cardinality(B) = 1
      /\ SYN \in r.flags => Cardinality(B) < 2
      /\ r.payload # <<>> =>
           /\ Cardinality(B) > 2
           /\ r.flags = {PSH, ACK}
           /\ \A k \in B : /\ FIN \notin s[k].flags
                           /\ s[k].payload = <<>> => Cardinality(Among(s, k, port)) <= 3
  <2> HIDE DEF r
  <2>1. Fits(s, m)
    OBVIOUS
  <2> HIDE DEF m
  <2> QED BY <1>4, <2>1, Zenon DEF Fits
<1>6. ASSUME NEW j \in A PROVE p[j] \in B /\ t[j] = s[p[j]] /\ Cardinality(Among(t, j, port)) = Cardinality(Among(s, p[j], port))
  <2>1. j \in 1..N /\ t[j].client_port = port
    BY DEF Among
  <2>2. p[j] \in 1..N /\ Matches(s, t, p, j, p[j], port)
    BY <2>1, SortMatches
  <2>3. j \in Nat /\ p[j] \in Nat
    BY <2>1, <2>2
  <2>4. Cardinality(Among(t, j, port)) = Cardinality(Among(s, p[j], port))
    <3>1. Agrees(s, t, j, p[j], port)
      BY <2>2, <2>3, Matching
    <3> QED BY <3>1, Zenon DEF Agrees
  <2>5. p[j] \in B /\ t[j] = s[p[j]]
    BY <1>1, Zenon DEF Matches
  <2> QED BY <2>4, <2>5
<1> HIDE DEF r, port, m
<1>7. r.payload # <<>> =>
           \A k \in A : /\ FIN \notin t[k].flags
                        /\ t[k].payload = <<>> => Cardinality(Among(t, k, port)) <= 3
  BY <1>5, <1>6
<1> HIDE DEF A, B
<1>8. /\ r.seq = Following(t, n - 1, port, r.direction)
      /\ ACK \in r.flags => r.ack = Following(t, n - 1, port, Other(r.direction))
      /\ r.flags = {SYN} <=> A = {}
      /\ r.flags = {SYN, ACK} <=> Cardinality(A) = 1
      /\ SYN \in r.flags => Cardinality(A) < 2
      /\ r.payload # <<>> =>
           /\ Cardinality(A) > 2
           /\ r.flags = {PSH, ACK}
           /\ \A k \in A : /\ FIN \notin t[k].flags
                           /\ t[k].payload = <<>> => Cardinality(Among(t, k, port)) <= 3
  BY <1>3, <1>5, <1>7
<1> QED BY <1>8, Zenon DEF Fits, r, port, A

LEMMA SortedFits ==
  ASSUME NEW s, Fitting(s)
  PROVE  LET t == SortedByTime(s, 1..Len(s)) IN
         /\ t \in Seq(ExportPacket) /\ Len(t) = Len(s)
         /\ \A n \in 1..Len(t) : Fits(t, n)
         /\ \E p : Sorts(s, 1..Len(s), p) /\ Rearranged(s, t, p, Len(s))
<1> DEFINE N == Len(s)
           t == SortedByTime(s, 1..N)
<1>1. s \in Seq(ExportPacket) /\ (\A n \in 1..N : Fits(s, n)) /\ InTime(s)
  BY DEF Fitting
<1>2. N \in Nat
  BY <1>1
<1>3. \A k \in 1..N : s[k].wall_time \in Int
  <2>1. \A k \in 1..N : s[k] \in ExportPacket
    BY <1>1
  <2>2. \A x \in ExportPacket : x.wall_time \in Int
    BY DEF ExportPacket
  <2> QED BY <2>1, <2>2
<1>4. \E p : Sorts(s, 1..N, p)
  <2> HIDE DEF N
  <2>1. 1..N \subseteq 1..N
    OBVIOUS
  <2> QED BY <1>2, <1>3, <2>1, Sorted
<1>5. PICK p : Sorts(s, 1..N, p)
  BY <1>4
<1>6. t \in Seq(ExportPacket) /\ Len(t) = N /\ Rearranged(s, t, p, N)
  BY <1>1, <1>5, SortKeepsOrder
<1>7. ASSUME NEW n \in 1..N PROVE Fits(t, n)
  <2> HIDE DEF N, t
  <2>1. p[n] \in 1..N
    BY <1>2, <1>6, SortMatches
  <2> QED BY <1>1, <1>2, <1>6, <2>1, FitsSorted
<1> HIDE DEF t
<1> QED BY <1>5, <1>6, <1>7 DEF t

----------------------------------------------------------------------------
(* The exported file.                                                      *)

Built ==
  /\ RowsFit(rows) /\ Fitting(packets) /\ Carries(packets, rows, Len(rows))
  /\ pcap = SortedByTime(packets, 1..Len(packets))

ExportInv ==
  /\ isn # NONE => rows = <<>> /\ step \in {"sniff", "convert", "done"}
  /\ isn = NONE => /\ step \in {"load", "export", "convert", "done"}
                   /\ step = "load" => rows \in RowFiles /\ packets = <<>> /\ conns = <<>>
                   /\ step = "export" => Building
                   /\ step \in {"convert", "done"} => Built

LEMMA ExportInit == Init => ExportInv
<1> SUFFICES ASSUME Init PROVE ExportInv
  OBVIOUS
<1>1. CASE step = "load" /\ rows \in RowFiles /\ isn = NONE
  BY <1>1 DEF Init, ExportInv
<1>2. CASE step = "sniff" /\ rows = <<>> /\ isn \in FirstSeqs
  <2>1. isn \in 0..SEQS-1
    BY <1>2, ContentAssumption
  <2>2. isn # NONE
    BY <2>1, SEQSAssumption DEF NONE
  <2> QED BY <1>2, <2>2 DEF ExportInv
<1> QED BY <1>1, <1>2 DEF Init

LEMMA LoadKeeps == Load /\ rows \in RowFiles /\ packets = <<>> /\ conns = <<>> => Building'
<1> SUFFICES ASSUME Load, rows \in RowFiles, packets = <<>>, conns = <<>> PROVE Building'
  OBVIOUS
<1>1. rows' = WithBytes(rows) /\ row' = 1 /\ packets' = <<>> /\ conns' = <<>>
  BY DEF Load
<1>2. RowsFit(rows')
  BY <1>1, RowsLoaded
<1>3. Len(rows') \in Nat /\ row' \in 1..Len(rows') + 1
  <2>1. rows' \in Seq(RowType)
    BY <1>2, Zenon DEF RowsFit
  <2>2. Len(rows') \in Nat
    BY <2>1
  <2> QED BY <1>1, <2>2
<1>4. /\ packets' \in Seq(ExportPacket) /\ Len(packets') = 0 /\ 1..0 = {} /\ DOMAIN conns' = {}
  BY <1>1
<1>5. Fitting(packets')
  BY <1>4 DEF Fitting, InTime
<1>6. Carries(packets', rows', row' - 1)
  <2>1. RowPlaces(<<>>, packets', rows', 0)
    <3>1. <<>> \in [1..0 -> 1..Len(packets')]
      BY <1>4
    <3> QED BY <1>4, <3>1 DEF RowPlaces
  <2>2. row' - 1 = 0
    BY <1>1
  <2> QED BY <2>1, <2>2 DEF Carries
<1> QED BY <1>2, <1>3, <1>4, <1>5, <1>6 DEF Building

LEMMA WritePcapKeeps == Building /\ WritePcap => Built'
<1> SUFFICES ASSUME Building, WritePcap PROVE Built'
  OBVIOUS
<1>1. /\ rows' = rows /\ packets' = packets /\ row > Len(rows)
      /\ pcap' = SortedByTime(packets, 1..Len(packets))
  BY DEF WritePcap, exportVars
<1>2. RowsFit(rows) /\ row \in 1..Len(rows) + 1 /\ Fitting(packets) /\ Carries(packets, rows, row - 1)
  BY Zenon DEF Building
<1>3. row - 1 = Len(rows)
  <2>1. rows \in Seq(RowType)
    BY <1>2, Zenon DEF RowsFit
  <2>2. Len(rows) \in Nat
    BY <2>1
  <2> QED BY <1>1, <1>2, <2>2
<1> QED BY <1>1, <1>2, <1>3 DEF Built

LEMMA ExportStep == ExportInv /\ [Next]_vars => ExportInv'
<1> SUFFICES ASSUME ExportInv, [Next]_vars PROVE ExportInv'
  OBVIOUS
<1>1. CASE Load /\ UNCHANGED convertVars
  <2>1. step = "load" /\ step' = "export" /\ isn' = isn /\ isn = NONE
    BY <1>1 DEF Load, convertVars, ExportInv
  <2>2. Building'
    BY <1>1, <2>1, LoadKeeps DEF ExportInv
  <2> QED BY <2>1, <2>2 DEF ExportInv
<1>2. CASE ExportRow /\ UNCHANGED convertVars
  <2>1. step = "export" /\ step' = "export" /\ isn' = isn /\ isn = NONE
    BY <1>2 DEF ExportRow, convertVars, ExportInv
  <2>2. Building'
    BY <1>2, <2>1, ExportRowKeeps DEF ExportInv
  <2> QED BY <2>1, <2>2 DEF ExportInv
<1>3. CASE WritePcap /\ UNCHANGED convertVars
  <2>1. step = "export" /\ step' = "convert" /\ isn' = isn /\ isn = NONE
    BY <1>3 DEF WritePcap, convertVars, ExportInv
  <2>2. Built'
    BY <1>3, <2>1, WritePcapKeeps DEF ExportInv
  <2> QED BY <2>1, <2>2 DEF ExportInv
<1>4. CASE Sniff
  <2>1. step = "sniff" /\ step' \in {"sniff", "convert"} /\ isn' = isn /\ rows' = rows
    BY <1>4 DEF Sniff, CaptureSegment, CaptureForeign, Capture, EndOfCapture, exportVars, convertVars
  <2>2. isn # NONE
    BY <2>1 DEF ExportInv
  <2> QED BY <2>1, <2>2 DEF ExportInv
<1>5. CASE Convert \/ UNCHANGED vars
  <2>1. /\ isn' = isn /\ rows' = rows /\ row' = row /\ packets' = packets /\ conns' = conns /\ pcap' = pcap
        /\ step' = step \/ (step = "convert" /\ step' = "done")
    BY <1>5 DEF Convert, SkipForeign, SkipEmpty, InOrder, Gap, SeenBefore, Overlap, WriteCsv, Take, Count,
                HasPayload, Reading, vars, exportVars, convertVars
  <2>2. Building => Building'
    BY <2>1 DEF Building, StateOf
  <2>3. Built => Built'
    BY <2>1 DEF Built
  <2> QED BY <2>1, <2>2, <2>3 DEF ExportInv
<1> QED BY <1>1, <1>2, <1>3, <1>4, <1>5 DEF Next, Export

\* What the export keeps at any time of its connections and the rows they carry.
THEOREM Exporting == Spec => []ExportInv
BY ExportInit, ExportStep, PTL DEF Spec

\* Whatever is recorded, the streams of the file that is exported reassemble.
THEOREM Reassembled == Spec => []ToolsAcceptIt
<1>1. ASSUME ExportInv PROVE ToolsAcceptIt
  <2> SUFFICES ASSUME step \in {"convert", "done"}, rows # <<>>, NEW n \in 1..Len(pcap) PROVE Fits(pcap, n)
    BY DEF ToolsAcceptIt
  <2>1. Built
    BY <1>1 DEF ExportInv
  <2>2. Fitting(packets) /\ pcap = SortedByTime(packets, 1..Len(packets))
    BY <2>1, Zenon DEF Built
  <2> QED BY <2>2, SortedFits
<1> QED BY <1>1, Exporting, PTL

----------------------------------------------------------------------------
(* The rows in the file that is exported.                                  *)

\* A row is a packet of its time, its stream and its bytes.
LEMMA RowOfPacket ==
  ASSUME NEW pkt \in ExportPacket, NEW r, RowOf(pkt) = r
  PROVE  /\ pkt.client_port = r.client_port /\ pkt.direction = r.direction
         /\ pkt.wall_time = r.wall_time /\ pkt.payload = r.raw_hex
         /\ StreamOf(pkt) = StreamOf(r) /\ StreamOf(r) \in Streams
BY DEF RowOf, Row, StreamOf, ExportPacket, Streams

LEMMA SortCarries ==
  ASSUME NEW s \in Seq(ExportPacket), NEW t \in Seq(ExportPacket), Len(t) = Len(s),
         NEW p, Sorts(s, 1..Len(s), p), Rearranged(s, t, p, Len(s)),
         RowsFit(rows), Carries(s, rows, Len(rows))
  PROVE  Carries(t, rows, Len(rows))
<1> DEFINE N == Len(s)
           R == Len(rows)
<1>1. /\ p \in [1..N -> 1..N]
      /\ \A j \in 1..N : t[j] = s[p[j]]
      /\ \A i \in 1..N : \E j \in 1..N : p[j] = i
  BY Zenon DEF Rearranged
<1>2. \A a, b \in 1..N : a < b => Before(s, p[a], p[b])
  <2>1. N \in Nat
    OBVIOUS
  <2> HIDE DEF N
  <2>2. Cardinality(1..N) = IF 1 > N THEN 0 ELSE (N - 1) + 1
    BY <2>1, FS_Interval
  <2>3. Cardinality(1..N) = N
    BY <2>1, <2>2
  <2> QED BY <2>3 DEF Sorts, N
<1>3. rows \in Seq(RowType) /\ \A m \in 1..R : \A n \in 1..m - 1 : rows[n].wall_time <= rows[m].wall_time
  BY DEF RowsFit
<1>4. PICK g : RowPlaces(g, s, rows, R)
  BY DEF Carries
<1>5. /\ g \in [1..R -> 1..N]
      /\ \A i \in 1..R : (\A j \in 1..i - 1 : g[j] < g[i]) /\ RowOf(s[g[i]]) = rows[i]
      /\ \A k \in 1..N : s[k].payload # <<>> => \E i \in 1..R : g[i] = k
  BY <1>4, Zenon DEF RowPlaces
<1>6. N \in Nat /\ R \in Nat
  BY <1>3
<1>7. \A k \in 1..N : s[k] \in ExportPacket
  OBVIOUS
<1>8. Len(t) = N
  OBVIOUS
<1> HIDE DEF N, R
<1> DEFINE q == [i \in 1..R |-> CHOOSE j \in 1..N : p[j] = g[i]]
<1>9. \A i \in 1..R : q[i] \in 1..N /\ p[q[i]] = g[i]
  <2> TAKE i \in 1..R
  <2>1. \E j \in 1..N : p[j] = g[i]
    BY <1>1, <1>5
  <2> QED BY <2>1
<1>10. q \in [1..R -> 1..N]
  BY <1>9
<1> HIDE DEF q
<1>11. \A i \in 1..R : RowOf(t[q[i]]) = rows[i]
  <2> TAKE i \in 1..R
  <2>1. t[q[i]] = s[p[q[i]]]
    BY <1>1, <1>9
  <2>2. s[p[q[i]]] = s[g[i]]
    BY <1>9
  <2>3. RowOf(s[g[i]]) = rows[i]
    BY <1>5
  <2> QED BY <2>1, <2>2, <2>3
<1>12. ASSUME NEW i \in 1..R, NEW j \in 1..i - 1 PROVE q[j] < q[i]
  <2> DEFINE a == q[j]
             b == q[i]
             u == s[g[j]].wall_time
             v == s[g[i]].wall_time
  <2>1. j \in 1..R /\ i \in Nat /\ j \in Nat
    BY <1>6
  <2>2. g[j] < g[i] /\ g[j] \in Nat /\ g[i] \in Nat
    BY <1>5, <2>1
  <2>3. u = rows[j].wall_time /\ v = rows[i].wall_time
    BY <1>5, <1>7, <2>1, RowOfPacket
  <2>4. u <= v /\ u \in Int /\ v \in Int
    <3>1. rows[j] \in RowType /\ rows[i] \in RowType
      BY <1>3, <2>1 DEF R
    <3>2. rows[j].wall_time <= rows[i].wall_time
      BY <1>3
    <3> QED BY <2>3, <3>1, <3>2 DEF RowType
  <2>5. a \in 1..N /\ b \in 1..N /\ p[a] = g[j] /\ p[b] = g[i]
    BY <1>9, <2>1
  <2>6. a # b
    BY <2>2, <2>5
  <2>7. b < a => v < u \/ (v = u /\ g[i] < g[j])
    <3> SUFFICES ASSUME b < a PROVE v < u \/ (v = u /\ g[i] < g[j])
      OBVIOUS
    <3>1. Before(s, p[b], p[a])
      BY <1>2, <2>5
    <3> QED BY <2>5, <3>1 DEF Before
  <2> HIDE DEF a, b, u, v
  <2>8. ~(b < a)
    BY <2>2, <2>4, <2>7
  <2>9. a < b
    BY <1>6, <2>5, <2>6, <2>8
  <2> QED BY <2>9 DEF a, b
<1>13. ASSUME NEW k \in 1..N, t[k].payload # <<>> PROVE \E i \in 1..R : q[i] = k
  <2>1. t[k] = s[p[k]] /\ p[k] \in 1..N
    BY <1>1
  <2>2. s[p[k]].payload # <<>>
    BY <1>13, <2>1
  <2>3. PICK i \in 1..R : g[i] = p[k]
    BY <1>5, <2>1, <2>2
  <2>4. q[i] \in 1..N /\ p[q[i]] = p[k]
    BY <1>9, <2>3
  <2>5. q[i] = k
    <3> DEFINE a == q[i]
    <3>1. a \in Nat /\ k \in Nat /\ a \in 1..N /\ p[a] = p[k]
      BY <1>6, <2>4
    <3> HIDE DEF a
    <3>2. \A x, y \in 1..N : p[x] = p[y] => ~Before(s, p[x], p[y])
      <4> TAKE x, y \in 1..N
      <4>1. p[x] \in 1..N /\ s[p[x]].wall_time \in Int
        BY <1>1, <1>7 DEF ExportPacket
      <4>2. ASSUME p[x] = p[y] PROVE ~Before(s, p[x], p[y])
        <5> DEFINE i1 == p[x]
                   w == s[i1].wall_time
        <5>1. i1 \in Nat /\ w \in Int /\ p[y] = i1
          BY <1>6, <4>1, <4>2
        <5> HIDE DEF i1
        <5>2. ~(w < w) /\ ~(i1 < i1)
          BY <5>1
        <5> QED BY <5>1, <5>2 DEF Before, i1
      <4> QED BY <4>2
    <3>3. ~(a < k) /\ ~(k < a)
      BY <1>2, <3>1, <3>2
    <3>4. a = k
      BY <3>1, <3>3
    <3> QED BY <3>4 DEF a
  <2> QED BY <2>5
<1>14. RowPlaces(q, t, rows, R)
  BY <1>8, <1>10, <1>11, <1>12, <1>13 DEF RowPlaces
<1> QED BY <1>14 DEF Carries, R

LEMMA PcapCarries ==
  ASSUME Built
  PROVE  /\ pcap \in Seq(ExportPacket) /\ (\A n \in 1..Len(pcap) : Fits(pcap, n))
         /\ Carries(pcap, rows, Len(rows))
<1>1. /\ RowsFit(rows) /\ Fitting(packets) /\ Carries(packets, rows, Len(rows))
      /\ pcap = SortedByTime(packets, 1..Len(packets))
  BY Zenon DEF Built
<1>2. packets \in Seq(ExportPacket)
  BY <1>1, Zenon DEF Fitting
<1>3. /\ pcap \in Seq(ExportPacket) /\ Len(pcap) = Len(packets)
      /\ \A n \in 1..Len(pcap) : Fits(pcap, n)
      /\ \E p : Sorts(packets, 1..Len(packets), p) /\ Rearranged(packets, pcap, p, Len(packets))
  BY <1>1, SortedFits
<1> QED BY <1>1, <1>2, <1>3, SortCarries


\* The i-th row is the one of its stream before the j-th.
Neighbours(t, rs, R, q, i, j) ==
  /\ t \in Seq(ExportPacket) /\ (\A n \in 1..Len(t) : Fits(t, n))
  /\ R \in Nat /\ (\A m \in 1..R : rs[m].raw_hex # <<>>) /\ RowPlaces(q, t, rs, R)
  /\ j \in 1..R /\ i \in 1..j - 1 /\ StreamOf(rs[i]) = StreamOf(rs[j])
  /\ \A m \in i + 1..j - 1 : StreamOf(rs[m]) # StreamOf(rs[j])

\* The rows of a stream continue each other.
LEMMA Consecutive ==
  ASSUME NEW t, NEW rs, NEW R, NEW q, NEW i, NEW j, Neighbours(t, rs, R, q, i, j)
  PROVE  t[q[j]].seq = t[q[i]].seq + Len(rs[i].raw_hex)
<1> SUFFICES ASSUME t \in Seq(ExportPacket), \A n \in 1..Len(t) : Fits(t, n),
                    R \in Nat, \A m \in 1..R : rs[m].raw_hex # <<>>, RowPlaces(q, t, rs, R),
                    j \in 1..R, i \in 1..j - 1, StreamOf(rs[i]) = StreamOf(rs[j]),
                    \A m \in i + 1..j - 1 : StreamOf(rs[m]) # StreamOf(rs[j])
             PROVE  t[q[j]].seq = t[q[i]].seq + Len(rs[i].raw_hex)
  BY Zenon DEF Neighbours
<1> DEFINE N == Len(t)
           a == q[i]
           b == q[j]
           port == rs[j].client_port
           d == rs[j].direction
           sent == {k \in Among(t, b - 1, port) : t[k].direction = d}
<1>1. /\ q \in [1..R -> 1..N]
      /\ \A m \in 1..R : (\A n \in 1..m - 1 : q[n] < q[m]) /\ RowOf(t[q[m]]) = rs[m]
      /\ \A k \in 1..N : t[k].payload # <<>> => \E m \in 1..R : q[m] = k
  BY Zenon DEF RowPlaces
<1>2. /\ i \in 1..R /\ i \in Nat /\ j \in Nat /\ i < j
  OBVIOUS
<1>3. /\ a \in 1..N /\ b \in 1..N /\ a < b /\ N \in Nat
  BY <1>1, <1>2
<1>4. \A k \in 1..N : t[k] \in ExportPacket
  OBVIOUS
<1>5. /\ t[a].client_port = port /\ t[a].direction = d /\ t[a].payload = rs[i].raw_hex /\ t[a].payload # <<>>
      /\ t[b].client_port = port /\ t[b].direction = d /\ t[b].payload # <<>>
  <2>1. RowOf(t[a]) = rs[i] /\ RowOf(t[b]) = rs[j] /\ rs[i].raw_hex # <<>> /\ rs[j].raw_hex # <<>>
    BY <1>1, <1>2
  <2>2. /\ t[a].client_port = rs[i].client_port /\ t[a].direction = rs[i].direction /\ t[a].payload = rs[i].raw_hex
        /\ t[b].client_port = port /\ t[b].direction = d /\ t[b].payload = rs[j].raw_hex
    BY <1>3, <1>4, <2>1, RowOfPacket
  <2>3. rs[i].client_port = port /\ rs[i].direction = d
    BY DEF StreamOf
  <2> QED BY <2>1, <2>2, <2>3
<1> HIDE DEF N, a, b, port, d
<1>6. Fits(t, a) /\ Fits(t, b)
  BY <1>3 DEF N
<1>7. Cardinality(Among(t, a - 1, port)) > 2 /\ t[a].flags = {PSH, ACK}
  BY <1>5, <1>6, Zenon DEF Fits
<1>8. /\ t[b].seq = Following(t, b - 1, port, d)
      /\ \A k \in Among(t, b - 1, port) : t[k].payload = <<>> => Cardinality(Among(t, k, port)) <= 3
  BY <1>5, <1>6, Zenon DEF Fits
<1>9. Cardinality(Among(t, a, port)) > 3
  <2>1. a - 1 \in Nat /\ a \in Nat /\ a \in 1..a /\ 1..a - 1 \subseteq 1..a /\ a \notin 1..a - 1
        /\ \A k \in 1..a : k = a \/ k \in 1..a - 1
    BY <1>3
  <2>2. Among(t, a, port) = Among(t, a - 1, port) \cup {a} /\ a \notin Among(t, a - 1, port)
    BY <1>5, <2>1 DEF Among
  <2>3. IsFiniteSet(Among(t, a - 1, port)) /\ Cardinality(Among(t, a - 1, port)) \in Nat
    BY <2>1, AmongFinite
  <2>4. Cardinality(Among(t, a, port)) = Cardinality(Among(t, a - 1, port)) + 1
    BY <2>2, <2>3, FS_AddElement
  <2> QED BY <1>7, <2>3, <2>4
<1>10. a \in sent
  BY <1>3, <1>5 DEF Among
<1>11. ASSUME NEW k \in sent PROVE k <= a
  <2>1. k \in 1..N /\ k < b /\ t[k].client_port = port /\ t[k].direction = d /\ k \in Among(t, b - 1, port)
    BY <1>3 DEF Among
  <2> SUFFICES ASSUME k > a PROVE FALSE
    BY <1>3, <2>1
  <2>2. Cardinality(Among(t, k, port)) > 3
    <3>1. k \in Nat /\ a \in 0..k
      BY <1>3, <2>1
    <3>2. /\ Cardinality(Among(t, a, port)) <= Cardinality(Among(t, k, port))
          /\ Cardinality(Among(t, k, port)) \in Nat
      BY <3>1, AmongFinite
    <3>3. a \in Nat
      BY <1>3
    <3>4. Cardinality(Among(t, a, port)) \in Nat
      BY <3>3, AmongFinite
    <3> QED BY <1>9, <3>2, <3>4
  <2>3. t[k].payload # <<>>
    <3>1. Cardinality(Among(t, k, port)) \in Nat
      <4>1. k \in Nat
        BY <1>3, <2>1
      <4> QED BY <4>1, AmongFinite
    <3>2. ~(Cardinality(Among(t, k, port)) <= 3)
      BY <2>2, <3>1
    <3> QED BY <1>8, <2>1, <3>2
  <2>4. PICK m \in 1..R : q[m] = k
    BY <1>1, <2>1, <2>3 DEF N
  <2>5. m \in i + 1..j - 1
    <3>1. \A x \in 1..R : \A y \in 1..x - 1 : q[y] < q[x]
      BY <1>1
    <3>2. q[i] < q[m] /\ q[m] < q[j]
      BY <2>1, <2>4 DEF a, b
    <3>3. q[i] \in Nat /\ q[j] \in Nat /\ q[m] \in Nat
      BY <1>3, <2>1, <2>4 DEF a, b
    <3>4. ~(m < i)
      <4> SUFFICES ASSUME m < i PROVE FALSE
        OBVIOUS
      <4>1. m \in 1..i - 1
        BY <1>2
      <4>2. q[m] < q[i]
        BY <1>2, <3>1, <4>1
      <4> QED BY <3>2, <3>3, <4>2
    <3>5. ~(j < m)
      <4> SUFFICES ASSUME j < m PROVE FALSE
        OBVIOUS
      <4>1. j \in 1..m - 1
        BY <1>2
      <4>2. q[j] < q[m]
        BY <3>1, <4>1
      <4> QED BY <3>2, <3>3, <4>2
    <3>6. m # i /\ m # j
      BY <3>2, <3>3
    <3> QED BY <1>2, <3>4, <3>5, <3>6
  <2>6. StreamOf(rs[m]) = StreamOf(rs[j])
    <3>1. RowOf(t[k]) = rs[m]
      BY <1>1, <2>4
    <3>2. rs[m].client_port = port /\ rs[m].direction = d
      BY <1>4, <2>1, <3>1, RowOfPacket
    <3> QED BY <3>2 DEF StreamOf, port, d
  <2> QED BY <2>5, <2>6
<1>12. Following(t, b - 1, port, d) = t[a].seq + Takes(t[a])
  <2>1. b - 1 \in Nat
    BY <1>3
  <2> QED BY <1>10, <1>11, <2>1, FollowingIs
<1>13. Takes(t[a]) = Len(rs[i].raw_hex)
  <2>1. {PSH, ACK} \cap {SYN, FIN} = {}
    BY DEF PSH, ACK, SYN, FIN
  <2>2. Takes(t[a]) = Len(t[a].payload) + 0
    BY <1>7, <2>1 DEF Takes
  <2>3. Len(t[a].payload) \in Nat
    BY <1>3, <1>4 DEF ExportPacket
  <2> QED BY <1>5, <2>2, <2>3
<1> QED BY <1>8, <1>12, <1>13 DEF a, b

----------------------------------------------------------------------------
(* The file that is exported, converted.                                   *)

LEMMA WholeRow ==
  ASSUME NEW raw \in Seq(Nat), IsYield(raw)
  PROVE  iter_frames(raw) = <<raw>> /\ Len(iter_frames(raw)) = 1 /\ Taken(raw) = Len(raw)
<1> DEFINE cuts == Cuts(raw)
           n == Len(raw)
<1>1. cuts = <<0, n>>
  BY DEF IsYield
<1>2. n \in Nat
  OBVIOUS
<1>3. SubSeq(raw, 0 + 1, n) = raw
  BY <1>2
<1> HIDE DEF cuts, n
<1>4. Len(cuts) = 2 /\ cuts[1] = 0 /\ cuts[2] = n
  BY <1>1
<1>5. iter_frames(raw) = [k \in 1..Len(cuts) - 1 |-> SubSeq(raw, cuts[k] + 1, cuts[k + 1])]
  BY DEF iter_frames, cuts
<1>6. iter_frames(raw) = [k \in 1..1 |-> raw]
  <2>1. Len(cuts) - 1 = 1
    BY <1>4
  <2>2. \A k \in 1..1 : SubSeq(raw, cuts[k] + 1, cuts[k + 1]) = raw
    BY <1>3, <1>4
  <2> QED BY <1>5, <2>1, <2>2
<1>7. [k \in 1..1 |-> raw] = <<raw>>
  OBVIOUS
<1>8. Taken(raw) = n
  BY <1>4 DEF Taken, cuts
<1> QED BY <1>6, <1>7, <1>8 DEF n

LEMMA PartRow ==
  ASSUME NEW raw \in Seq(Nat), IsPart(raw)
  PROVE  iter_frames(raw) = <<>> /\ Taken(raw) = 0
<1> DEFINE cuts == Cuts(raw)
<1>1. cuts = <<0>>
  BY DEF IsPart
<1> HIDE DEF cuts
<1>2. Len(cuts) = 1 /\ cuts[1] = 0
  BY <1>1
<1>3. iter_frames(raw) = [k \in 1..Len(cuts) - 1 |-> SubSeq(raw, cuts[k] + 1, cuts[k + 1])]
  BY DEF iter_frames, cuts
<1>4. iter_frames(raw) = <<>>
  <2> DEFINE f == iter_frames(raw)
             X == {SubSeq(raw, cuts[k] + 1, cuts[k + 1]) : k \in 1..Len(cuts) - 1}
  <2>1. 1..Len(cuts) - 1 = 1..0
    BY <1>2
  <2>2. f \in [1..Len(cuts) - 1 -> X]
    BY <1>3
  <2> HIDE DEF f, X
  <2>3. f \in [1..0 -> X]
    BY <2>1, <2>2
  <2>4. f \in Seq(X) /\ Len(f) = 0
    BY <2>3
  <2>5. f = <<>>
    BY <2>4
  <2> QED BY <2>5 DEF f
<1>5. Taken(raw) = 0
  BY <1>2 DEF Taken, cuts
<1> QED BY <1>4, <1>5

LEMMA YieldOrPart ==
  ASSUME NEW raw
  PROVE  ~(IsYield(raw) /\ IsPart(raw))
<1>1. Len(<<0, Len(raw)>>) = 2 /\ Len(<<0>>) = 1
  OBVIOUS
<1> SUFFICES ASSUME IsYield(raw), IsPart(raw) PROVE FALSE
  OBVIOUS
<1>2. Len(Cuts(raw)) = 2 /\ Len(Cuts(raw)) = 1
  BY <1>1 DEF IsYield, IsPart
<1> QED BY <1>2


\* The first r rows have been read, of those at places q of the file.
ReadTo(q, r) ==
  /\ RowPlaces(q, pcap, rows, Len(rows))
  /\ r \in 0..Len(rows) /\ at \in 0..Len(pcap)
  /\ \A i \in 1..Len(rows) : i <= r <=> q[i] <= at

\* recs are those of them that are whole, in their order; g tells which.
Sourced(g, recs, r) ==
  /\ recs \in Seq(RowType)
  /\ g \in [1..Len(recs) -> 1..r]
  /\ \A k \in 1..Len(recs) : /\ \A j \in 1..k - 1 : g[j] < g[k]
                             /\ recs[k] = rows[g[k]] /\ ~IsPart(rows[g[k]].raw_hex)
  /\ \A i \in 1..r : ~IsPart(rows[i].raw_hex) => \E k \in 1..Len(recs) : g[k] = i

\* What is kept of a stream: where its last row ends, and a part of a frame, if any.
Buffers(strs, q, r) ==
  /\ strs \in [Streams -> [buf : Seq(Nat), next : Int, ts : Int]]
  /\ \A key \in Streams :
       /\ \A i \in 1..r : StreamOf(rows[i]) = key =>
            /\ (\A j \in i + 1..r : StreamOf(rows[j]) # key) =>
                 strs[key].next = (pcap[q[i]].seq + Len(rows[i].raw_hex)) % SEQS
            /\ IsPart(rows[i].raw_hex) => strs[key].buf = rows[i].raw_hex /\ strs[key].ts = rows[i].wall_time
       /\ (\A i \in 1..r : StreamOf(rows[i]) # key) => strs[key].next = NONE
       /\ strs[key].buf # <<>> => \E i \in 1..r : StreamOf(rows[i]) = key /\ IsPart(rows[i].raw_hex)

Keyed(ks, r) ==
  /\ ks \in Seq(Streams)
  /\ \A m \in 1..Len(ks) : /\ \A n \in 1..m - 1 : ks[n] # ks[m]
                           /\ \E i \in 1..r : ks[m] = StreamOf(rows[i])
  /\ \A i \in 1..r : \E m \in 1..Len(ks) : ks[m] = StreamOf(rows[i])

NoneSkipped ==
  skipped \in [Reasons -> Nat] /\ skipped["gap"] = 0 /\ skipped["retransmission"] = 0

Fresh ==
  /\ at = 0 /\ streams = [s \in Streams |-> NewStream] /\ keys = <<>> /\ records = <<>>
  /\ skipped = [r \in Reasons |-> 0]
Underway(q, g, r) ==
  ReadTo(q, r) /\ Sourced(g, records, r) /\ Buffers(streams, q, r) /\ Keyed(keys, r) /\ NoneSkipped

LEMMA Begins ==
  ASSUME Built, Fresh
  PROVE  \E q, g, r : Underway(q, g, r)
<1>1. RowsFit(rows) /\ pcap \in Seq(ExportPacket) /\ Carries(pcap, rows, Len(rows))
  BY PcapCarries DEF Built
<1>2. rows \in Seq(RowType)
  BY <1>1, Zenon DEF RowsFit
<1>3. PICK q : RowPlaces(q, pcap, rows, Len(rows))
  BY <1>1 DEF Carries
<1>4. Len(rows) \in Nat /\ Len(pcap) \in Nat
  BY <1>1, <1>2
<1>5. /\ at = 0 /\ streams = [s \in Streams |-> NewStream] /\ keys = <<>> /\ records = <<>>
      /\ skipped = [r \in Reasons |-> 0]
  BY DEF Fresh
<1>6. ReadTo(q, 0)
  <2>1. \A i \in 1..Len(rows) : q[i] \in 1..Len(pcap)
    BY <1>3 DEF RowPlaces
  <2>2. \A i \in 1..Len(rows) : ~(i <= 0) /\ ~(q[i] <= 0)
    BY <1>4, <2>1
  <2> QED BY <1>3, <1>4, <1>5, <2>2 DEF ReadTo
<1>7. Sourced(<<>>, records, 0)
  <2>1. records \in Seq(RowType) /\ Len(records) = 0 /\ 1..0 = {}
    BY <1>5
  <2>2. <<>> \in [1..0 -> 1..0]
    OBVIOUS
  <2> QED BY <2>1, <2>2 DEF Sourced
<1>8. Buffers(streams, q, 0)
  <2>1. NewStream \in [buf : Seq(Nat), next : Int, ts : Int] /\ NewStream.next = NONE /\ NewStream.buf = <<>>
    BY DEF NewStream, NONE
  <2>2. \A key \in Streams : streams[key] = NewStream
    BY <1>5
  <2>3. streams \in [Streams -> [buf : Seq(Nat), next : Int, ts : Int]]
    BY <1>5, <2>1
  <2>4. 1..0 = {}
    OBVIOUS
  <2> QED BY <2>1, <2>2, <2>3, <2>4 DEF Buffers
<1>9. Keyed(keys, 0)
  <2>1. keys \in Seq(Streams) /\ Len(keys) = 0 /\ 1..0 = {}
    BY <1>5
  <2> QED BY <2>1 DEF Keyed
<1>10. NoneSkipped
  BY <1>5 DEF NoneSkipped, Reasons
<1> QED BY <1>6, <1>7, <1>8, <1>9, <1>10 DEF Underway

\* The packet that is read next.
LEMMA NextRow ==
  ASSUME Built, Reading, NEW q, NEW r, ReadTo(q, r)
  PROVE  /\ Pkt \in ExportPacket /\ Key \in Streams /\ Pkt.seq \in Nat /\ at + 1 \in 0..Len(pcap)
         /\ Pkt.payload = <<>> => \A i \in 1..Len(rows) : i <= r <=> q[i] <= at + 1
         /\ Pkt.payload # <<>> =>
              /\ r + 1 \in 1..Len(rows) /\ q[r + 1] = at + 1 /\ pcap[q[r + 1]] = Pkt
              /\ RowOf(Pkt) = rows[r + 1] /\ Key = StreamOf(rows[r + 1])
              /\ \A i \in 1..Len(rows) : i <= r + 1 <=> q[i] <= at + 1
<1>1. pcap \in Seq(ExportPacket)
  BY PcapCarries
<1>2. at < Len(pcap) /\ at \in 0..Len(pcap) /\ r \in 0..Len(rows)
      /\ \A i \in 1..Len(rows) : i <= r <=> q[i] <= at
  BY DEF Reading, ReadTo
<1>3. RowPlaces(q, pcap, rows, Len(rows))
  BY Zenon DEF ReadTo
<1>4. /\ q \in [1..Len(rows) -> 1..Len(pcap)]
      /\ \A i \in 1..Len(rows) : (\A j \in 1..i - 1 : q[j] < q[i]) /\ RowOf(pcap[q[i]]) = rows[i]
      /\ \A k \in 1..Len(pcap) : pcap[k].payload # <<>> => \E i \in 1..Len(rows) : q[i] = k
  BY <1>3, Zenon DEF RowPlaces
<1> DEFINE R == Len(rows)
           N == Len(pcap)
           n == at + 1
<1>5. rows \in Seq(RowType) /\ (\A i \in 1..R : rows[i].raw_hex # <<>>)
  BY DEF Built, RowsFit, HasBytes
<1>6. R \in Nat /\ N \in Nat /\ at \in Nat /\ n \in 1..N /\ n \in 0..N /\ r \in Nat
  BY <1>1, <1>2, <1>5
<1>7. Pkt = pcap[n] /\ Pkt \in ExportPacket
  BY <1>1, <1>6 DEF Pkt
<1>8. Key \in Streams /\ Pkt.seq \in Nat
  BY <1>7 DEF Key, StreamOf, ExportPacket, Streams
<1>9. \A i \in 1..R : q[i] \in 1..N /\ q[i] \in Nat /\ i \in Nat
  BY <1>4, <1>6
<1>10. \A i \in 1..R : pcap[q[i]].payload # <<>>
  <2> TAKE i \in 1..R
  <2>1. pcap[q[i]] \in ExportPacket /\ RowOf(pcap[q[i]]) = rows[i]
    BY <1>1, <1>4, <1>9
  <2>2. pcap[q[i]].payload = rows[i].raw_hex
    BY <2>1, RowOfPacket
  <2> QED BY <1>5, <2>2
<1> HIDE DEF R, N, n
<1>11. at < n /\ n \in Nat /\ \A x \in Nat : x <= n <=> x <= at \/ x = n
  BY <1>6 DEF n
<1>12. \A i \in 1..R : i <= r <=> q[i] <= at
  BY <1>2 DEF R
<1>13. ASSUME Pkt.payload = <<>>, NEW i \in 1..R PROVE i <= r <=> q[i] <= n
  <2>1. q[i] # n
    BY <1>7, <1>10, <1>13
  <2> QED BY <1>9, <1>11, <1>12, <2>1
<1>14. ASSUME Pkt.payload # <<>>
       PROVE  /\ r + 1 \in 1..R /\ q[r + 1] = n
              /\ \A i \in 1..R : i <= r + 1 <=> q[i] <= n
  <2>1. PICK m \in 1..R : q[m] = n
    BY <1>4, <1>6, <1>7, <1>14 DEF N, R
  <2>2. ~(q[m] <= at)
    BY <1>6, <1>11, <2>1
  <2>3. ~(m <= r)
    BY <1>12, <2>2
  <2>4. ~(r + 1 < m)
    <3> SUFFICES ASSUME r + 1 < m PROVE FALSE
      OBVIOUS
    <3>1. r + 1 \in 1..R /\ r + 1 \in 1..m - 1 /\ ~(r + 1 <= r)
      BY <1>6, <1>9
    <3>2. q[r + 1] < n
      BY <1>4, <2>1, <3>1 DEF R
    <3>3. ~(q[r + 1] <= at)
      BY <1>12, <3>1
    <3>4. q[r + 1] \in Nat
      BY <1>9, <3>1
    <3>5. q[r + 1] <= n /\ q[r + 1] # n
      BY <1>11, <3>2, <3>4
    <3> QED BY <1>11, <3>3, <3>4, <3>5
  <2>5. m = r + 1
    BY <1>6, <1>9, <2>3, <2>4
  <2>6. ASSUME NEW i \in 1..R PROVE i <= r + 1 <=> q[i] <= n
    <3>1. i <= r + 1 <=> i <= r \/ i = r + 1
      BY <1>6, <1>9
    <3>2. q[i] <= n <=> q[i] <= at \/ q[i] = n
      BY <1>9, <1>11
    <3>3. q[i] = n => i = m
      <4> SUFFICES ASSUME q[i] = n, i # m PROVE FALSE
        OBVIOUS
      <4>1. i \in 1..m - 1 \/ m \in 1..i - 1
        BY <1>9
      <4>2. q[i] < q[m] \/ q[m] < q[i]
        BY <1>4, <4>1 DEF R
      <4> QED BY <1>11, <2>1, <4>2
    <3> QED BY <1>12, <2>1, <2>5, <3>1, <3>2, <3>3
  <2> QED BY <2>1, <2>5, <2>6
<1>15. ASSUME Pkt.payload # <<>>
       PROVE  pcap[q[r + 1]] = Pkt /\ RowOf(Pkt) = rows[r + 1] /\ Key = StreamOf(rows[r + 1])
  <2>1. pcap[q[r + 1]] = Pkt
    BY <1>7, <1>14, <1>15
  <2>2. RowOf(Pkt) = rows[r + 1]
    BY <1>4, <1>14, <1>15, <2>1 DEF R
  <2>3. Key = StreamOf(rows[r + 1])
    BY <1>7, <2>2, RowOfPacket DEF Key
  <2> QED BY <2>1, <2>2, <2>3
<1> QED BY <1>6, <1>7, <1>8, <1>13, <1>14, <1>15 DEF R, N, n


\* A row's bytes continue its stream.
LEMMA RowContinues ==
  ASSUME Built, Reading, NEW q, NEW r, ReadTo(q, r), Buffers(streams, q, r), Pkt.payload # <<>>
  PROVE  /\ Ahead = 0 /\ st.buf = <<>>
         /\ (Next_(st, Pkt.seq) + Len(Pkt.payload)) % SEQS = (Pkt.seq + Len(Pkt.payload)) % SEQS
         /\ \A i \in 1..r : StreamOf(rows[i]) = Key => ~IsPart(rows[i].raw_hex)
<1> DEFINE R == Len(rows)
           x == Pkt.seq
           l == Len(Pkt.payload)
<1>1. /\ Pkt \in ExportPacket /\ Key \in Streams /\ x \in Nat
      /\ r + 1 \in 1..R /\ q[r + 1] = at + 1 /\ pcap[q[r + 1]] = Pkt
      /\ RowOf(Pkt) = rows[r + 1] /\ Key = StreamOf(rows[r + 1])
  BY NextRow
<1>2. l \in Nat /\ SEQS \in Nat /\ SEQS > 1
  BY <1>1, SEQSAssumption DEF ExportPacket
<1>3. RowsFit(rows) /\ pcap \in Seq(ExportPacket) /\ \A n \in 1..Len(pcap) : Fits(pcap, n)
  BY PcapCarries DEF Built
<1>4. r \in 0..R /\ RowPlaces(q, pcap, rows, R)
  BY Zenon DEF ReadTo
<1>5. R \in Nat /\ r \in Nat
  <2>1. rows \in Seq(RowType)
    BY <1>3, Zenon DEF RowsFit
  <2>2. R \in Nat
    BY <2>1
  <2> QED BY <1>4, <2>2
<1>6. \A i \in 1..R : rows[i].raw_hex # <<>>
  BY <1>3 DEF RowsFit, HasBytes
<1>7. /\ \A i \in 1..r : StreamOf(rows[i]) = Key /\ (\A j \in i + 1..r : StreamOf(rows[j]) # Key) =>
             st.next = (pcap[q[i]].seq + Len(rows[i].raw_hex)) % SEQS
      /\ (\A i \in 1..r : StreamOf(rows[i]) # Key) => st.next = NONE
      /\ st.buf # <<>> => \E i \in 1..r : StreamOf(rows[i]) = Key /\ IsPart(rows[i].raw_hex)
  BY <1>1 DEF Buffers, st
<1> HIDE DEF R, x, l
<1>8. ASSUME NEW i \in 1..r, StreamOf(rows[i]) = Key PROVE ~IsPart(rows[i].raw_hex)
  <2>1. i \in 1..(r + 1) - 1
    BY <1>5
  <2>2. \A m \in 1..R : \A n \in 1..m - 1 : StreamOf(rows[n]) = StreamOf(rows[m]) => ~IsPart(rows[n].raw_hex)
    BY <1>3 DEF RowsFit, R
  <2> QED BY <1>1, <1>8, <2>1, <2>2
<1>9. st.buf = <<>>
  BY <1>7, <1>8
<1>10. st.next = NONE \/ st.next = x % SEQS
  <2> DEFINE S == {i \in 1..r : StreamOf(rows[i]) = Key}
  <2>1. CASE S = {}
    BY <1>7, <2>1
  <2>2. CASE S # {}
    <3>1. S \subseteq 0..r
      BY <1>5
    <3>2. PICK i \in S : \A j \in S : i >= j
      BY <1>5, <2>2, <3>1, GreatestOf
    <3>3. i \in 1..r /\ StreamOf(rows[i]) = Key
      OBVIOUS
    <3>4. ASSUME NEW j \in i + 1..r PROVE StreamOf(rows[j]) # Key
      <4>1. j \in 1..r /\ ~(i >= j)
        BY <1>5, <3>3
      <4> QED BY <3>2, <4>1
    <3>5. st.next = (pcap[q[i]].seq + Len(rows[i].raw_hex)) % SEQS
      BY <1>7, <3>3, <3>4
    <3>6. pcap[q[r + 1]].seq = pcap[q[i]].seq + Len(rows[i].raw_hex)
      <4> DEFINE j == r + 1
      <4>1. j \in 1..R /\ i \in 1..j - 1 /\ StreamOf(rows[i]) = StreamOf(rows[j])
        BY <1>1, <1>5, <3>3
      <4>2. \A m \in i + 1..j - 1 : StreamOf(rows[m]) # StreamOf(rows[j])
        <5>1. j - 1 = r
          BY <1>5
        <5> QED BY <1>1, <3>4, <5>1
      <4> HIDE DEF j
      <4>3. Neighbours(pcap, rows, R, q, i, j)
        BY <1>3, <1>4, <1>5, <1>6, <4>1, <4>2, Zenon DEF Neighbours
      <4>4. pcap[q[j]].seq = pcap[q[i]].seq + Len(rows[i].raw_hex)
        BY <4>3, Consecutive
      <4> QED BY <4>4 DEF j
    <3>7. st.next = x % SEQS
      BY <1>1, <3>5, <3>6 DEF x
    <3> QED BY <3>7
  <2> QED BY <2>1, <2>2
<1>11. Next_(st, x) = x \/ Next_(st, x) = x % SEQS
  BY <1>10 DEF Next_
<1>12. (x - x) % SEQS = 0 /\ (x - (x % SEQS)) % SEQS = 0 /\ ((x % SEQS) + l) % SEQS = (x + l) % SEQS
  <2>1. x \in Int /\ l \in Int /\ x - x = 0
    BY <1>1, <1>2
  <2>2. 0 % SEQS = 0
    BY <1>2, ModSmall
  <2>3. (x - (x % SEQS)) % SEQS = (x - x) % SEQS
    BY <1>2, <2>1, ModMinus
  <2>4. ((x % SEQS) + l) % SEQS = (x + l) % SEQS
    BY <1>2, <2>1, ModPlus
  <2> QED BY <2>1, <2>2, <2>3, <2>4
<1>13. ~(0 >= SEQS \div 2)
  <2> DEFINE h == SEQS \div 2
  <2>1. 2 * h <= SEQS /\ SEQS < 2 * h + 2 /\ h \in Nat
    BY <1>2, Half
  <2> HIDE DEF h
  <2>2. ~(0 >= h)
    BY <1>2, <2>1
  <2> QED BY <2>2 DEF h
<1>14. SeqDiff(x, x) = 0 /\ SeqDiff(x, x % SEQS) = 0
  BY <1>12, <1>13 DEF SeqDiff
<1>15. Ahead = 0
  BY <1>11, <1>14 DEF Ahead, x
<1>16. (Next_(st, x) + l) % SEQS = (x + l) % SEQS
  BY <1>11, <1>12
<1> QED BY <1>8, <1>9, <1>15, <1>16 DEF x, l

LEMMA SourcedRow ==
  ASSUME RowsFit(rows), NEW g, NEW recs, NEW r \in Nat, r + 1 \in 1..Len(rows), Sourced(g, recs, r)
  PROVE  /\ IsPart(rows[r + 1].raw_hex) => Sourced(g, recs, r + 1)
         /\ ~IsPart(rows[r + 1].raw_hex) => \E h : Sourced(h, Append(recs, rows[r + 1]), r + 1)
<1> DEFINE n == Len(recs)
<1>1. /\ recs \in Seq(RowType)
      /\ g \in [1..n -> 1..r]
      /\ \A k \in 1..n : /\ \A j \in 1..k - 1 : g[j] < g[k]
                         /\ recs[k] = rows[g[k]] /\ ~IsPart(rows[g[k]].raw_hex)
      /\ \A i \in 1..r : ~IsPart(rows[i].raw_hex) => \E k \in 1..n : g[k] = i
  BY Zenon DEF Sourced
<1>2. n \in Nat /\ rows[r + 1] \in RowType
  BY <1>1 DEF RowsFit
<1>3. \A i \in 1..r + 1 : i = r + 1 \/ i \in 1..r
  OBVIOUS
<1>4. \A k \in 1..n : g[k] \in 1..r /\ g[k] \in 1..r + 1 /\ g[k] < r + 1
  BY <1>1
<1> DEFINE recs2 == Append(recs, rows[r + 1])
<1>5. /\ Len(recs2) = n + 1 /\ recs2[n + 1] = rows[r + 1] /\ \A k \in 1..n : recs2[k] = recs[k]
      /\ recs2 \in Seq(RowType)
  BY <1>1, <1>2
<1> HIDE DEF n, recs2
<1>6. ASSUME IsPart(rows[r + 1].raw_hex) PROVE Sourced(g, recs, r + 1)
  <2>1. g \in [1..n -> 1..r + 1]
    BY <1>1, <1>4
  <2>2. \A i \in 1..r + 1 : ~IsPart(rows[i].raw_hex) => \E k \in 1..n : g[k] = i
    BY <1>1, <1>3, <1>6
  <2> QED BY <1>1, <2>1, <2>2 DEF Sourced, n
<1>7. ASSUME ~IsPart(rows[r + 1].raw_hex) PROVE \E h : Sourced(h, recs2, r + 1)
  <2> DEFINE h == [k \in 1..n + 1 |-> IF k = n + 1 THEN r + 1 ELSE g[k]]
  <2>1. /\ \A k \in 1..n : k \in 1..n + 1 /\ k # n + 1 /\ k \in Nat
        /\ n + 1 \in 1..n + 1 /\ r + 1 \in 1..r + 1
        /\ \A k \in 1..n + 1 : k = n + 1 \/ k \in 1..n
    BY <1>2
  <2>2. /\ h \in [1..n + 1 -> 1..r + 1] /\ h[n + 1] = r + 1
        /\ \A k \in 1..n : h[k] = g[k]
    BY <1>4, <2>1
  <2> HIDE DEF h
  <2>3. ASSUME NEW k \in 1..n + 1
        PROVE  /\ \A j \in 1..k - 1 : h[j] < h[k]
               /\ recs2[k] = rows[h[k]] /\ ~IsPart(rows[h[k]].raw_hex)
    <3>1. CASE k = n + 1
      <4>1. \A j \in 1..k - 1 : j \in 1..n
        BY <1>2, <3>1
      <4> QED BY <1>4, <1>5, <1>7, <2>2, <3>1, <4>1
    <3>2. CASE k \in 1..n
      <4>1. \A j \in 1..k - 1 : j \in 1..n
        BY <1>2, <3>2
      <4>2. \A j \in 1..k - 1 : g[j] < g[k]
        BY <1>1, <3>2
      <4>3. \A j \in 1..k - 1 : h[j] < h[k]
        BY <2>2, <3>2, <4>1, <4>2
      <4>4. recs2[k] = rows[h[k]] /\ ~IsPart(rows[h[k]].raw_hex)
        BY <1>1, <1>5, <2>2, <3>2
      <4> QED BY <4>3, <4>4
    <3> QED BY <2>1, <3>1, <3>2
  <2>4. ASSUME NEW i \in 1..r + 1, ~IsPart(rows[i].raw_hex) PROVE \E k \in 1..n + 1 : h[k] = i
    <3>1. CASE i = r + 1
      BY <2>1, <2>2, <3>1
    <3>2. CASE i \in 1..r
      <4>1. PICK k \in 1..n : g[k] = i
        BY <1>1, <2>4, <3>2
      <4>2. k \in 1..n + 1 /\ h[k] = i
        BY <2>1, <2>2, <4>1
      <4> QED BY <4>2
    <3> QED BY <1>3, <3>1, <3>2
  <2>5. Sourced(h, recs2, r + 1)
    BY <1>5, <2>2, <2>3, <2>4 DEF Sourced
  <2> QED BY <2>5
<1> QED BY <1>6, <1>7 DEF recs2

LEMMA KeyedRow ==
  ASSUME NEW ks, NEW r \in Nat, Keyed(ks, r), NEW key \in Streams, key = StreamOf(rows[r + 1])
  PROVE  Keyed(IF Contains(ks, key) THEN ks ELSE Append(ks, key), r + 1)
<1> DEFINE n == Len(ks)
           new == Append(ks, key)
<1>1. /\ ks \in Seq(Streams)
      /\ \A m \in 1..n : /\ \A k \in 1..m - 1 : ks[k] # ks[m]
                         /\ \E i \in 1..r : ks[m] = StreamOf(rows[i])
      /\ \A i \in 1..r : \E m \in 1..n : ks[m] = StreamOf(rows[i])
  BY Zenon DEF Keyed
<1>2. n \in Nat /\ Len(new) = n + 1 /\ new[n + 1] = key /\ (\A m \in 1..n : new[m] = ks[m]) /\ new \in Seq(Streams)
  BY <1>1
<1> HIDE DEF n, new
<1>3. /\ \A i \in 1..r + 1 : i = r + 1 \/ i \in 1..r
      /\ \A i \in 1..r : i \in 1..r + 1
      /\ r + 1 \in 1..r + 1
  OBVIOUS
<1>4. CASE Contains(ks, key)
  <2>1. PICK x \in 1..n : ks[x] = key
    BY <1>4 DEF Contains, n
  <2>2. \A i \in 1..r + 1 : \E m \in 1..n : ks[m] = StreamOf(rows[i])
    BY <1>1, <1>3, <2>1
  <2>3. \A m \in 1..n : /\ \A k \in 1..m - 1 : ks[k] # ks[m]
                        /\ \E i \in 1..r + 1 : ks[m] = StreamOf(rows[i])
    BY <1>1, <1>3
  <2>4. Keyed(ks, r + 1)
    BY <1>1, <2>2, <2>3 DEF Keyed, n
  <2> QED BY <1>4, <2>4
<1>5. CASE ~Contains(ks, key)
  <2>1. \A x \in 1..n : ks[x] # key
    BY <1>5 DEF Contains, n
  <2>2. /\ \A m \in 1..n : m \in 1..n + 1 /\ \A k \in 1..m - 1 : k \in 1..n
        /\ \A m \in 1..n + 1 : m = n + 1 \/ m \in 1..n
        /\ \A k \in 1..(n + 1) - 1 : k \in 1..n
        /\ n + 1 \in 1..n + 1
    BY <1>2
  <2>3. \A i \in 1..r + 1 : \E m \in 1..n + 1 : new[m] = StreamOf(rows[i])
    <3> TAKE i \in 1..r + 1
    <3>1. CASE i = r + 1
      BY <1>2, <2>2, <3>1
    <3>2. CASE i \in 1..r
      <4>1. PICK m \in 1..n : ks[m] = StreamOf(rows[i])
        BY <1>1, <3>2
      <4> QED BY <1>2, <2>2, <4>1
    <3> QED BY <1>3, <3>1, <3>2
  <2>4. ASSUME NEW m \in 1..n + 1
        PROVE  /\ \A k \in 1..m - 1 : new[k] # new[m]
               /\ \E i \in 1..r + 1 : new[m] = StreamOf(rows[i])
    <3>1. CASE m = n + 1
      <4>1. \A k \in 1..m - 1 : new[k] # new[m]
        BY <1>2, <2>1, <2>2, <3>1
      <4> QED BY <1>2, <1>3, <3>1, <4>1
    <3>2. CASE m \in 1..n
      <4>1. \A k \in 1..m - 1 : new[k] # new[m]
        BY <1>1, <1>2, <2>2, <3>2
      <4>2. PICK i \in 1..r : ks[m] = StreamOf(rows[i])
        BY <1>1, <3>2
      <4> QED BY <1>2, <1>3, <3>2, <4>1, <4>2
    <3> QED BY <2>2, <3>1, <3>2
  <2>5. Keyed(new, r + 1)
    BY <1>2, <2>3, <2>4 DEF Keyed
  <2> QED BY <1>5, <2>5 DEF new
<1> QED BY <1>4, <1>5

LEMMA BuffersRow ==
  ASSUME NEW strs, NEW q, NEW r \in Nat, Buffers(strs, q, r),
         NEW key \in Streams, key = StreamOf(rows[r + 1]),
         \A i \in 1..r : StreamOf(rows[i]) = key => ~IsPart(rows[i].raw_hex),
         NEW s, s \in [buf : Seq(Nat), next : Int, ts : Int],
         s.next = (pcap[q[r + 1]].seq + Len(rows[r + 1].raw_hex)) % SEQS,
         s.ts = rows[r + 1].wall_time,
         IsPart(rows[r + 1].raw_hex) => s.buf = rows[r + 1].raw_hex,
         ~IsPart(rows[r + 1].raw_hex) => s.buf = <<>>
  PROVE  Buffers([strs EXCEPT ![key] = s], q, r + 1)
<1> DEFINE new == [strs EXCEPT ![key] = s]
           T == [buf : Seq(Nat), next : Int, ts : Int]
           At(i) == (pcap[q[i]].seq + Len(rows[i].raw_hex)) % SEQS
<1>1. /\ strs \in [Streams -> T]
      /\ \A k \in Streams :
           /\ \A i \in 1..r : StreamOf(rows[i]) = k =>
                /\ (\A j \in i + 1..r : StreamOf(rows[j]) # k) => strs[k].next = At(i)
                /\ IsPart(rows[i].raw_hex) => strs[k].buf = rows[i].raw_hex /\ strs[k].ts = rows[i].wall_time
           /\ (\A i \in 1..r : StreamOf(rows[i]) # k) => strs[k].next = NONE
           /\ strs[k].buf # <<>> => \E i \in 1..r : StreamOf(rows[i]) = k /\ IsPart(rows[i].raw_hex)
  BY Zenon DEF Buffers
<1>2. s \in T /\ s.next = At(r + 1) /\ s.ts = rows[r + 1].wall_time
  OBVIOUS
<1> HIDE DEF At, T
<1>3. new \in [Streams -> T] /\ new[key] = s /\ \A k \in Streams : k # key => new[k] = strs[k]
  BY <1>1, <1>2
<1> HIDE DEF new
<1>4. /\ \A i \in 1..r + 1 : i = r + 1 \/ i \in 1..r
      /\ \A i \in 1..r : i \in 1..r + 1 /\ r + 1 \in i + 1..r + 1
      /\ r + 1 \in 1..r + 1
      /\ \A i \in 1..r : \A j \in i + 1..r : j \in i + 1..r + 1
  OBVIOUS
<1>5. ASSUME NEW k \in Streams, NEW i \in 1..r + 1, StreamOf(rows[i]) = k
      PROVE  /\ (\A j \in i + 1..r + 1 : StreamOf(rows[j]) # k) => new[k].next = At(i)
             /\ IsPart(rows[i].raw_hex) => new[k].buf = rows[i].raw_hex /\ new[k].ts = rows[i].wall_time
  <2>1. CASE i = r + 1
    <3>1. k = key /\ new[k] = s
      BY <1>3, <1>5, <2>1
    <3> QED BY <1>2, <2>1, <3>1
  <2>2. CASE i \in 1..r /\ k = key
    <3>1. ~IsPart(rows[i].raw_hex) /\ r + 1 \in i + 1..r + 1 /\ StreamOf(rows[r + 1]) = k
      BY <1>4, <1>5, <2>2
    <3> QED BY <3>1
  <2>3. CASE i \in 1..r /\ k # key
    <3>1. new[k] = strs[k]
      BY <1>3, <2>3
    <3>2. (\A j \in i + 1..r + 1 : StreamOf(rows[j]) # k) => \A j \in i + 1..r : StreamOf(rows[j]) # k
      BY <1>4, <2>3
    <3> QED BY <1>1, <1>5, <2>3, <3>1, <3>2
  <2> QED BY <1>4, <2>1, <2>2, <2>3
<1>6. ASSUME NEW k \in Streams, \A i \in 1..r + 1 : StreamOf(rows[i]) # k PROVE new[k].next = NONE
  <2>1. k # key
    BY <1>4, <1>6
  <2> QED BY <1>1, <1>3, <1>4, <1>6, <2>1
<1>7. ASSUME NEW k \in Streams, new[k].buf # <<>>
      PROVE  \E i \in 1..r + 1 : StreamOf(rows[i]) = k /\ IsPart(rows[i].raw_hex)
  <2>1. CASE k = key
    BY <1>3, <1>4, <1>7, <2>1
  <2>2. CASE k # key
    <3>1. PICK i \in 1..r : StreamOf(rows[i]) = k /\ IsPart(rows[i].raw_hex)
      BY <1>1, <1>3, <1>7, <2>2
    <3> QED BY <1>4, <3>1
  <2> QED BY <2>1, <2>2
<1>8. Buffers(new, q, r + 1)
  BY <1>3, <1>5, <1>6, <1>7 DEF Buffers, At, T
<1> QED BY <1>8 DEF new


\* The row that is read: all of its bytes, or none if it is a part of a frame, become
\* a row again at once.
LEMMA RowTaken ==
  ASSUME Built, NEW q, NEW g, NEW r, Underway(q, g, r), InOrder
  PROVE  (\E h : Underway(q, h, r + 1))' /\ rows' = rows /\ pcap' = pcap
<1> DEFINE x == rows[r + 1]
           raw == x.raw_hex
           frames == [k \in 1..Len(iter_frames(raw)) |-> Record(Pkt.wall_time, Key, iter_frames(raw)[k])]
           s == [buf |-> SubSeq(raw, Taken(raw) + 1, Len(raw)),
                 next |-> (Next_(st, Pkt.seq) + Len(raw)) % SEQS, ts |-> Pkt.wall_time]
<1>1. ReadTo(q, r) /\ Sourced(g, records, r) /\ Buffers(streams, q, r) /\ Keyed(keys, r) /\ NoneSkipped
  BY Zenon DEF Underway
<1>2. /\ Reading /\ Key \in Streams /\ Pkt.payload # <<>>
      /\ keys' = IF Contains(keys, Key) THEN keys ELSE Append(keys, Key)
      /\ Take(<<>>, st.buf, Next_(st, Pkt.seq), Pkt.payload)
      /\ at' = at + 1 /\ pcap' = pcap /\ rows' = rows /\ skipped' = skipped
  BY DEF InOrder, HasPayload, exportVars
<1>3. /\ Pkt \in ExportPacket /\ Pkt.seq \in Nat /\ at + 1 \in 0..Len(pcap)
      /\ r + 1 \in 1..Len(rows) /\ pcap[q[r + 1]] = Pkt
      /\ RowOf(Pkt) = x /\ Key = StreamOf(x)
      /\ \A i \in 1..Len(rows) : i <= r + 1 <=> q[i] <= at + 1
  BY <1>1, <1>2, NextRow
<1>4. /\ st.buf = <<>>
      /\ (Next_(st, Pkt.seq) + Len(Pkt.payload)) % SEQS = (Pkt.seq + Len(Pkt.payload)) % SEQS
      /\ \A i \in 1..r : StreamOf(rows[i]) = Key => ~IsPart(rows[i].raw_hex)
  BY <1>1, <1>2, RowContinues
<1>5. Pkt.payload = raw /\ Pkt.wall_time = x.wall_time
  BY <1>3, RowOfPacket
<1>6. RowsFit(rows) /\ r \in Nat /\ r + 1 \in 0..Len(rows)
  <2>1. RowsFit(rows)
    BY DEF Built
  <2>2. r \in 0..Len(rows)
    BY <1>1 DEF ReadTo
  <2> QED BY <1>3, <2>1, <2>2
<1>7. x \in RowType /\ (IsYield(raw) \/ IsPart(raw))
  BY <1>3, <1>6 DEF RowsFit
<1>8. raw \in Seq(Nat) /\ x.wall_time \in Int /\ Len(raw) \in Nat /\ SEQS \in Nat /\ SEQS > 1
  BY <1>7, SEQSAssumption DEF RowType
<1>9. st.buf \o Pkt.payload = raw
  BY <1>4, <1>5, <1>8
<1> HIDE DEF x, raw
<1>10. /\ streams' = [streams EXCEPT ![Key] = s]
       /\ records' = (records \o <<>>) \o frames
  BY <1>2, <1>5, <1>9, Zenon DEF Take
<1>11. s.next = (Pkt.seq + Len(raw)) % SEQS /\ s.next \in Int /\ s.ts = x.wall_time
  <2>1. s.next = (Pkt.seq + Len(raw)) % SEQS
    BY <1>4, <1>5
  <2>2. Pkt.seq + Len(raw) \in Int
    BY <1>3, <1>8
  <2>3. (Pkt.seq + Len(raw)) % SEQS \in Int
    <3> DEFINE n == Pkt.seq + Len(raw)
    <3>1. n \in Int
      BY <2>2
    <3> HIDE DEF n
    <3>2. n % SEQS \in 0..SEQS - 1
      BY <1>8, <3>1, ModRange
    <3>3. n % SEQS \in Int
      BY <1>8, <3>2
    <3> QED BY <3>3 DEF n
  <2> QED BY <1>5, <2>1, <2>3
<1>12. Record(Pkt.wall_time, Key, raw) = x
  <2>1. x = Row(x.client_port, x.direction, x.wall_time, raw)
    BY <1>7 DEF RowType, Row, raw
  <2>2. Key[1] = x.client_port /\ Key[2] = x.direction
    BY <1>3 DEF StreamOf
  <2> QED BY <1>5, <2>1, <2>2 DEF Record
<1>13. records \in Seq(RowType)
  BY <1>1 DEF Sourced
<1>14. /\ s.buf \in Seq(Nat)
       /\ IsPart(raw) => s.buf = raw /\ records' = records
       /\ ~IsPart(raw) => s.buf = <<>> /\ records' = Append(records, x)
  <2>1. CASE IsPart(raw)
    <3>1. iter_frames(raw) = <<>> /\ Taken(raw) = 0
      BY <1>8, <2>1, PartRow
    <3>2. SubSeq(raw, 0 + 1, Len(raw)) = raw
      BY <1>8
    <3>3. frames = <<>>
      BY <3>1
    <3>4. (records \o <<>>) \o <<>> = records
      BY <1>13
    <3>5. s.buf = raw
      BY <3>1, <3>2
    <3> QED BY <1>8, <1>10, <2>1, <3>3, <3>4, <3>5
  <2>2. CASE ~IsPart(raw)
    <3>1. iter_frames(raw) = <<raw>> /\ Len(iter_frames(raw)) = 1 /\ Taken(raw) = Len(raw)
      BY <1>7, <1>8, <2>2, WholeRow DEF raw
    <3>2. SubSeq(raw, Len(raw) + 1, Len(raw)) = <<>> /\ <<>> \in Seq(Nat)
      BY <1>8
    <3>3. frames = <<x>>
      <4>1. \A k \in 1..1 : iter_frames(raw)[k] = raw
        BY <3>1
      <4>2. frames = [k \in 1..1 |-> x]
        BY <1>12, <3>1, <4>1
      <4> HIDE DEF frames
      <4>3. [k \in 1..1 |-> x] = <<x>>
        OBVIOUS
      <4> QED BY <4>2, <4>3
    <3>4. (records \o <<>>) \o <<x>> = Append(records, x)
      BY <1>7, <1>13 DEF x
    <3>5. s.buf = <<>>
      BY <3>1, <3>2
    <3> QED BY <1>10, <2>2, <3>2, <3>3, <3>4, <3>5
  <2> QED BY <2>1, <2>2
<1>15. s \in [buf : Seq(Nat), next : Int, ts : Int]
  BY <1>8, <1>11, <1>14
<1> HIDE DEF s, frames
<1>16. Buffers(streams', q, r + 1)
  <2>1. /\ s.next = (pcap[q[r + 1]].seq + Len(rows[r + 1].raw_hex)) % SEQS
        /\ s.ts = rows[r + 1].wall_time
        /\ IsPart(rows[r + 1].raw_hex) => s.buf = rows[r + 1].raw_hex
        /\ ~IsPart(rows[r + 1].raw_hex) => s.buf = <<>>
        /\ Key = StreamOf(rows[r + 1])
    BY <1>3, <1>11, <1>14 DEF x, raw
  <2> DEFINE key == Key
  <2> HIDE DEF key
  <2>2. Buffers([streams EXCEPT ![key] = s], q, r + 1)
    BY <1>1, <1>2, <1>4, <1>6, <1>15, <2>1, BuffersRow DEF key
  <2> QED BY <1>10, <2>2 DEF key
<1>17. Keyed(keys', r + 1)
  BY <1>1, <1>2, <1>3, <1>6, KeyedRow DEF x
<1>18. \E h : Sourced(h, records', r + 1)
  <2>1. /\ IsPart(rows[r + 1].raw_hex) => Sourced(g, records, r + 1)
        /\ ~IsPart(rows[r + 1].raw_hex) => \E h : Sourced(h, Append(records, rows[r + 1]), r + 1)
    BY <1>1, <1>3, <1>6, SourcedRow
  <2> QED BY <1>14, <2>1 DEF x, raw
<1>19. ReadTo(q, r + 1)'
  <2>1. RowPlaces(q, pcap, rows, Len(rows))
    BY <1>1, Zenon DEF ReadTo
  <2> QED BY <1>2, <1>3, <1>6, <2>1 DEF ReadTo
<1>20. NoneSkipped'
  BY <1>1, <1>2 DEF NoneSkipped
<1>21. PICK h : Sourced(h, records', r + 1)
  BY <1>18
<1>22. Sourced(h, records, r + 1)'
  BY <1>2, <1>21 DEF Sourced
<1>23. Buffers(streams, q, r + 1)'
  BY <1>2, <1>16 DEF Buffers
<1>24. Keyed(keys, r + 1)'
  BY <1>2, <1>17 DEF Keyed
<1> QED BY <1>2, <1>19, <1>20, <1>22, <1>23, <1>24, Zenon DEF Underway

LEMMA EmptySkipped ==
  ASSUME Built, NEW q, NEW g, NEW r, Underway(q, g, r), SkipEmpty
  PROVE  (\E h : Underway(q, h, r))' /\ rows' = rows /\ pcap' = pcap
<1>1. ReadTo(q, r) /\ Sourced(g, records, r) /\ Buffers(streams, q, r) /\ Keyed(keys, r) /\ NoneSkipped
  BY Zenon DEF Underway
<1>2. /\ Reading /\ Pkt.payload = <<>> /\ at' = at + 1 /\ rows' = rows /\ pcap' = pcap
      /\ streams' = streams /\ keys' = keys /\ records' = records /\ skipped' = skipped
  BY DEF SkipEmpty, exportVars
<1>3. at + 1 \in 0..Len(pcap) /\ \A i \in 1..Len(rows) : i <= r <=> q[i] <= at + 1
  BY <1>1, <1>2, NextRow
<1>4. ReadTo(q, r)'
  BY <1>1, <1>2, <1>3 DEF ReadTo
<1>5. Sourced(g, records, r)'
  BY <1>1, <1>2 DEF Sourced
<1>6. Buffers(streams, q, r)'
  BY <1>1, <1>2 DEF Buffers
<1>7. Keyed(keys, r)' /\ NoneSkipped'
  BY <1>1, <1>2 DEF Keyed, NoneSkipped
<1> QED BY <1>2, <1>4, <1>5, <1>6, <1>7, Zenon DEF Underway

\* Nothing of an exported file is foreign, lost, repeated or late.
LEMMA OnlyRows ==
  ASSUME Built, NEW q, NEW g, NEW r, Underway(q, g, r)
  PROVE  ~SkipForeign /\ ~Gap /\ ~SeenBefore /\ ~Overlap
<1>1. ReadTo(q, r) /\ Buffers(streams, q, r)
  BY Zenon DEF Underway
<1>2. ~SkipForeign
  <2> SUFFICES ASSUME SkipForeign PROVE FALSE
    OBVIOUS
  <2>1. Reading /\ Key \notin Streams
    BY DEF SkipForeign
  <2>2. Key \in Streams
    BY <1>1, <2>1, NextRow
  <2> QED BY <2>1, <2>2
<1>3. ~Gap /\ ~SeenBefore /\ ~Overlap
  <2> SUFFICES ASSUME Gap \/ SeenBefore \/ Overlap PROVE FALSE
    OBVIOUS
  <2>1. Reading /\ Pkt.payload # <<>> /\ (Ahead > 0 \/ Ahead < 0)
    BY DEF Gap, SeenBefore, Overlap, HasPayload
  <2>2. Ahead = 0
    BY <1>1, <2>1, RowContinues
  <2> QED BY <2>1, <2>2
<1> QED BY <1>2, <1>3


\* The elements of x at the places in S are the rows of the file, each of them once and
\* those of a stream in their order; h tells which.
Numbers(h, x, S) ==
  /\ h \in [S -> 1..Len(rows)]
  /\ \A k \in S : x[k] = rows[h[k]]
  /\ \A j, k \in S : h[j] = h[k] => j = k
  /\ \A j, k \in S : j < k /\ StreamOf(x[j]) = StreamOf(x[k]) => h[j] < h[k]
  /\ \A i \in 1..Len(rows) : \E k \in S : h[k] = i

LEMMA RecordIs ==
  ASSUME NEW ts, NEW key \in Streams, NEW raw
  PROVE  Record(ts, key, raw).raw_hex = raw /\ StreamOf(Record(ts, key, raw)) = key
<1>1. /\ Record(ts, key, raw).raw_hex = raw
      /\ Record(ts, key, raw).client_port = key[1] /\ Record(ts, key, raw).direction = key[2]
  BY DEF Record, Row
<1>2. key = <<key[1], key[2]>>
  BY DEF Streams
<1> QED BY <1>1, <1>2 DEF StreamOf

\* The part of a frame in a stream's buffer is a row.
LEMMA BufferedPart ==
  ASSUME RowsFit(rows), NEW q, Buffers(streams, q, Len(rows)), NEW key \in Streams
  PROVE  /\ streams[key].buf # <<>> =>
              \E i \in 1..Len(rows) : /\ StreamOf(rows[i]) = key /\ IsPart(rows[i].raw_hex)
                                      /\ Record(streams[key].ts, key, streams[key].buf) = rows[i]
         /\ \A i \in 1..Len(rows) : StreamOf(rows[i]) = key /\ IsPart(rows[i].raw_hex) =>
              /\ streams[key].buf # <<>>
              /\ \A j \in 1..Len(rows) : StreamOf(rows[j]) = key => j <= i
<1> DEFINE R == Len(rows)
<1>1. /\ rows \in Seq(RowType)
      /\ \A m \in 1..R : \A n \in 1..m - 1 : StreamOf(rows[n]) = StreamOf(rows[m]) => ~IsPart(rows[n].raw_hex)
  BY Zenon DEF RowsFit
<1>2. /\ \A i \in 1..R : StreamOf(rows[i]) = key /\ IsPart(rows[i].raw_hex) =>
           streams[key].buf = rows[i].raw_hex /\ streams[key].ts = rows[i].wall_time
      /\ streams[key].buf # <<>> => \E i \in 1..R : StreamOf(rows[i]) = key /\ IsPart(rows[i].raw_hex)
  BY DEF Buffers
<1>3. R \in Nat
  BY <1>1
<1> HIDE DEF R
<1>4. ASSUME NEW i \in 1..R, StreamOf(rows[i]) = key, IsPart(rows[i].raw_hex)
      PROVE  Record(streams[key].ts, key, streams[key].buf) = rows[i]
  <2> DEFINE x == rows[i]
  <2>1. x \in RowType
    BY <1>1 DEF R
  <2>2. x = Row(x.client_port, x.direction, x.wall_time, x.raw_hex)
    BY <2>1 DEF RowType, Row
  <2>3. key[1] = x.client_port /\ key[2] = x.direction
    BY <1>4 DEF StreamOf
  <2>4. streams[key].buf = x.raw_hex /\ streams[key].ts = x.wall_time
    BY <1>2, <1>4
  <2> QED BY <2>2, <2>3, <2>4 DEF Record
<1>5. ASSUME NEW i \in 1..R, StreamOf(rows[i]) = key, IsPart(rows[i].raw_hex)
      PROVE  /\ streams[key].buf # <<>>
             /\ \A j \in 1..R : StreamOf(rows[j]) = key => j <= i
  <2>1. streams[key].buf # <<>>
    BY <1>2, <1>5 DEF IsPart
  <2>2. ASSUME NEW j \in 1..R, StreamOf(rows[j]) = key PROVE j <= i
    <3> SUFFICES ASSUME ~(j <= i) PROVE FALSE
      OBVIOUS
    <3>1. i \in 1..j - 1
      BY <1>3
    <3> QED BY <1>1, <1>5, <2>2, <3>1
  <2> QED BY <2>1, <2>2
<1>6. ASSUME streams[key].buf # <<>>
      PROVE  \E i \in 1..R : /\ StreamOf(rows[i]) = key /\ IsPart(rows[i].raw_hex)
                             /\ Record(streams[key].ts, key, streams[key].buf) = rows[i]
  <2>1. PICK i \in 1..R : StreamOf(rows[i]) = key /\ IsPart(rows[i].raw_hex)
    BY <1>2, <1>6
  <2>2. Record(streams[key].ts, key, streams[key].buf) = rows[i]
    BY <1>4, <2>1
  <2> QED BY <2>1, <2>2
<1> QED BY <1>5, <1>6, Zenon DEF R

LEMMA AllNumbered ==
  ASSUME Built, NEW q, NEW g, Underway(q, g, Len(rows))
  PROVE  LET x == records \o Left
             S == {k \in 1..Len(x) : HasBytes(x[k])}
         IN /\ Len(x) \in Nat /\ \A k \in S : x[k] \in RowType
            /\ \E h : Numbers(h, x, S)
<1> DEFINE x == records \o Left
           S == {k \in 1..Len(x) : HasBytes(x[k])}
           R == Len(rows)
           n == Len(records)
           K == Len(keys)
           Part_(m, i) == /\ i \in 1..R /\ StreamOf(rows[i]) = keys[m] /\ IsPart(rows[i].raw_hex)
                          /\ Left[m] = rows[i]
<1>1. /\ Sourced(g, records, R) /\ Buffers(streams, q, R) /\ Keyed(keys, R)
  BY Zenon DEF Underway
<1>2. RowsFit(rows)
  BY DEF Built
<1>3. /\ rows \in Seq(RowType) /\ R \in Nat
      /\ \A i \in 1..R : rows[i] \in RowType /\ HasBytes(rows[i])
  <2>1. rows \in Seq(RowType)
    BY <1>2, Zenon DEF RowsFit
  <2>2. \A i \in 1..R : HasBytes(rows[i])
    BY <1>2, Zenon DEF RowsFit
  <2> QED BY <2>1, <2>2
<1>4. /\ records \in Seq(RowType) /\ g \in [1..n -> 1..R]
      /\ \A k \in 1..n : /\ \A j \in 1..k - 1 : g[j] < g[k]
                         /\ records[k] = rows[g[k]] /\ ~IsPart(rows[g[k]].raw_hex)
      /\ \A i \in 1..R : ~IsPart(rows[i].raw_hex) => \E k \in 1..n : g[k] = i
  BY <1>1, Zenon DEF Sourced
<1>5. /\ keys \in Seq(Streams)
      /\ \A m \in 1..K : \A k \in 1..m - 1 : keys[k] # keys[m]
      /\ \A i \in 1..R : \E m \in 1..K : keys[m] = StreamOf(rows[i])
  BY <1>1, Zenon DEF Keyed
<1>6. n \in Nat /\ K \in Nat /\ \A m \in 1..K : keys[m] \in Streams
  BY <1>4, <1>5
<1>7. /\ Len(Left) = K
      /\ \A m \in 1..K : Left[m] = Record(streams[keys[m]].ts, keys[m], streams[keys[m]].buf)
  BY <1>6 DEF Left
<1>27. \A m \in 1..K :
         /\ streams[keys[m]].buf # <<>> =>
              \E i \in 1..R : /\ StreamOf(rows[i]) = keys[m] /\ IsPart(rows[i].raw_hex)
                              /\ Record(streams[keys[m]].ts, keys[m], streams[keys[m]].buf) = rows[i]
         /\ \A i \in 1..R : StreamOf(rows[i]) = keys[m] /\ IsPart(rows[i].raw_hex) =>
              /\ streams[keys[m]].buf # <<>>
              /\ \A j \in 1..R : StreamOf(rows[j]) = keys[m] => j <= i
  <2> TAKE m \in 1..K
  <2> DEFINE key == keys[m]
  <2>1. key \in Streams
    BY <1>6
  <2> HIDE DEF key
  <2> QED BY <1>1, <1>2, <2>1, Zenon, BufferedPart DEF key
<1>8. \A m \in 1..K : Left[m].raw_hex = streams[keys[m]].buf /\ StreamOf(Left[m]) = keys[m]
  <2> TAKE m \in 1..K
  <2>1. keys[m] \in Streams /\ Left[m] = Record(streams[keys[m]].ts, keys[m], streams[keys[m]].buf)
    BY <1>6, <1>7
  <2> QED BY <2>1, RecordIs
<1>9. Left \in Seq(RowType)
  <2>1. ASSUME NEW m \in 1..K PROVE Left[m] \in RowType
    <3> DEFINE key == keys[m]
    <3>1. key \in Streams /\ Left[m] = Record(streams[key].ts, key, streams[key].buf)
      BY <1>6, <1>7
    <3> HIDE DEF key
    <3>2. streams[key].ts \in Int /\ streams[key].buf \in Seq(Nat)
      BY <1>1, <3>1 DEF Buffers
    <3>3. key[1] \in Clients /\ key[2] \in {"req", "resp"}
      BY <3>1 DEF Streams
    <3>4. Record(streams[key].ts, key, streams[key].buf) \in RowType
      BY <3>2, <3>3 DEF Record, Row, RowType
    <3> QED BY <3>1, <3>4
  <2>2. Left \in [1..K -> RowType]
    BY <2>1 DEF Left
  <2> QED BY <1>6, <2>2
<1>10. /\ Len(x) = n + K
       /\ \A k \in 1..n : x[k] = records[k]
       /\ \A m \in 1..K : x[n + m] = Left[m]
  <2> DEFINE left == Left
  <2>1. left \in Seq(RowType) /\ Len(left) = K
    BY <1>7, <1>9
  <2> HIDE DEF left, x, n, K, R
  <2>2. /\ Len(records \o left) = Len(records) + Len(left)
        /\ \A i \in 1..Len(records) : (records \o left)[i] = records[i]
        /\ \A i \in 1..Len(left) : (records \o left)[Len(records) + i] = left[i]
    <3>1. records \in Seq(RowType)
      BY <1>4
    <3>2. left \in Seq(RowType)
      BY <2>1
    <3> QED BY ONLY <3>1, <3>2, Joined
  <2> QED BY <2>1, <2>2, Zenon DEF left, x, n
<1>11. \A m \in 1..K : streams[keys[m]].buf # <<>> => \E i : Part_(m, i)
  <2> TAKE m \in 1..K
  <2> HAVE streams[keys[m]].buf # <<>>
  <2>1. PICK i \in 1..R : /\ StreamOf(rows[i]) = keys[m] /\ IsPart(rows[i].raw_hex)
                          /\ Record(streams[keys[m]].ts, keys[m], streams[keys[m]].buf) = rows[i]
    BY <1>27
  <2>2. Part_(m, i)
    BY <1>7, <2>1
  <2> QED BY <2>2
<1>12. ASSUME NEW i \in 1..R, IsPart(rows[i].raw_hex), NEW m \in 1..K, keys[m] = StreamOf(rows[i])
       PROVE  /\ streams[keys[m]].buf # <<>>
              /\ \A j \in 1..R : StreamOf(rows[j]) = keys[m] => j <= i
  BY <1>27, <1>12
<1> HIDE DEF x, R, n, K, Part_
<1> DEFINE h == [k \in S |-> IF k \in 1..n THEN g[k] ELSE CHOOSE i : Part_(k - n, i)]
<1>13. ASSUME NEW k \in 1..n PROVE k \in S /\ h[k] = g[k] /\ x[k] = rows[g[k]] /\ g[k] \in 1..R
  <2>1. k \in 1..Len(x)
    BY <1>6, <1>10
  <2>3. x[k] = records[k]
    BY <1>10
  <2>4. records[k] = rows[g[k]] /\ g[k] \in 1..R
    BY <1>4 DEF n
  <2>2. k \in S
    BY <1>3, <2>1, <2>3, <2>4
  <2> QED BY <2>2, <2>3, <2>4
<1>14. ASSUME NEW m \in 1..K, n + m \in S
       PROVE  Part_(m, h[n + m]) /\ x[n + m] = rows[h[n + m]]
  <2>1. x[n + m].raw_hex # <<>>
    BY <1>14 DEF HasBytes
  <2>2. \E i : Part_(m, i)
    BY <1>8, <1>10, <1>11, <2>1
  <2>3. (n + m) \notin 1..n /\ (n + m) - n = m
    BY <1>6
  <2>4. Part_(m, CHOOSE i : Part_(m, i))
    BY <2>2
  <2>5. h[n + m] = CHOOSE i : Part_(m, i)
    BY <1>14, <2>3
  <2>6. Part_(m, h[n + m])
    BY <2>4, <2>5, Zenon
  <2>7. Left[m] = rows[h[n + m]] /\ x[n + m] = Left[m]
    BY <1>10, <2>6, Zenon DEF Part_
  <2> QED BY <2>6, <2>7, Zenon
<1>15. ASSUME NEW k \in S PROVE k \in 1..n \/ \E m \in 1..K : k = n + m
  <2>1. k \in 1..n + K
    BY <1>10
  <2>2. k \notin 1..n => k - n \in 1..K /\ k = n + (k - n)
    BY <1>6, <2>1
  <2> QED BY <2>2
<1>16. h \in [S -> 1..R] /\ \A k \in S : x[k] = rows[h[k]]
  <2>1. ASSUME NEW k \in S PROVE h[k] \in 1..R /\ x[k] = rows[h[k]]
    <3>1. CASE k \in 1..n
      BY <1>13, <3>1
    <3>2. CASE \E m \in 1..K : k = n + m
      <4>1. PICK m \in 1..K : k = n + m
        BY <3>2
      <4> QED BY <1>14, <4>1 DEF Part_
    <3> QED BY <1>15, <3>1, <3>2
  <2> QED BY <2>1
<1>17. /\ \A k \in 1..n : k \in S /\ h[k] = g[k] /\ x[k] = rows[h[k]] /\ ~IsPart(rows[h[k]].raw_hex)
       /\ \A m \in 1..K : n + m \in S =>
            /\ h[n + m] \in 1..R /\ x[n + m] = rows[h[n + m]] /\ IsPart(rows[h[n + m]].raw_hex)
            /\ StreamOf(x[n + m]) = keys[m]
  <2>1. \A k \in 1..n : ~IsPart(rows[g[k]].raw_hex)
    BY <1>4 DEF n
  <2>2. \A k \in 1..n : k \in S /\ h[k] = g[k] /\ x[k] = rows[h[k]] /\ ~IsPart(rows[h[k]].raw_hex)
    BY <1>13, <2>1
  <2>3. ASSUME NEW m \in 1..K, n + m \in S
        PROVE  /\ h[n + m] \in 1..R /\ x[n + m] = rows[h[n + m]] /\ IsPart(rows[h[n + m]].raw_hex)
               /\ StreamOf(x[n + m]) = keys[m]
    <3>1. Part_(m, h[n + m]) /\ x[n + m] = rows[h[n + m]]
      BY <1>14, <2>3
    <3>2. /\ h[n + m] \in 1..R /\ IsPart(rows[h[n + m]].raw_hex)
          /\ StreamOf(rows[h[n + m]]) = keys[m]
      BY <3>1, Zenon DEF Part_
    <3> QED BY <3>1, <3>2, Zenon
  <2> QED BY <2>2, <2>3
<1>18. \A k \in S : k \in Int /\ h[k] \in Int
  BY <1>16
<1> HIDE DEF h, S
<1>19. \A a, b \in 1..K : keys[a] = keys[b] => a = b
  <2> TAKE a, b \in 1..K
  <2>1. a < b => a \in 1..b - 1
    BY <1>6
  <2>2. b < a => b \in 1..a - 1
    BY <1>6
  <2>3. ~(a < b) /\ ~(b < a) => a = b
    BY <1>6
  <2> QED BY <1>5, <2>1, <2>2, <2>3 DEF K
<1>20. \A a, b \in 1..n : a < b => g[a] < g[b]
  <2> TAKE a, b \in 1..n
  <2>1. a < b => a \in 1..b - 1
    BY <1>6
  <2> QED BY <1>4, <2>1 DEF n
<1>21. ASSUME NEW j \in S, NEW k \in S, h[j] = h[k] PROVE j = k
  <2>1. CASE j \in 1..n /\ k \in 1..n
    <3>1. ~(j < k) /\ ~(k < j)
      BY <1>13, <1>17, <1>20, <1>21, <2>1
    <3> QED BY <1>18, <3>1
  <2>2. CASE (j \in 1..n) # (k \in 1..n)
    BY <1>15, <1>17, <1>21, <2>2
  <2>3. CASE j \notin 1..n /\ k \notin 1..n
    <3>1. PICK a \in 1..K : j = n + a
      BY <1>15, <2>3
    <3>2. PICK b \in 1..K : k = n + b
      BY <1>15, <2>3
    <3>3. keys[a] = keys[b]
      BY <1>17, <1>21, <3>1, <3>2
    <3> QED BY <1>19, <3>1, <3>2, <3>3
  <2> QED BY <2>1, <2>2, <2>3
<1>22. ASSUME NEW j \in S, NEW k \in S, j < k, StreamOf(x[j]) = StreamOf(x[k]) PROVE h[j] < h[k]
  <2>1. CASE k \in 1..n
    <3>1. j \in 1..n
      <4>1. \A m \in 1..K : j # n + m
        BY <1>6, <1>22, <2>1
      <4> QED BY <1>15, <4>1
    <3> QED BY <1>17, <1>20, <1>22, <2>1, <3>1
  <2>2. CASE j \in 1..n /\ k \notin 1..n
    <3>1. PICK b \in 1..K : k = n + b
      BY <1>15, <2>2
    <3>2. /\ h[k] \in 1..R /\ IsPart(rows[h[k]].raw_hex) /\ keys[b] = StreamOf(rows[h[k]])
          /\ h[j] \in 1..R /\ StreamOf(rows[h[j]]) = keys[b]
      BY <1>13, <1>17, <1>22, <2>2, <3>1
    <3>3. h[j] <= h[k]
      BY <1>12, <3>2
    <3>4. h[j] # h[k]
      BY <1>17, <2>2, <3>2
    <3> QED BY <1>18, <3>3, <3>4
  <2>3. CASE j \notin 1..n /\ k \notin 1..n
    <3>1. PICK a \in 1..K : j = n + a
      BY <1>15, <2>3
    <3>2. PICK b \in 1..K : k = n + b
      BY <1>15, <2>3
    <3>3. keys[a] = keys[b]
      BY <1>17, <1>22, <3>1, <3>2
    <3>4. a = b
      BY <1>19, <3>3
    <3> QED BY <1>18, <1>22, <3>1, <3>2, <3>4
  <2> QED BY <2>1, <2>2, <2>3
<1>23. ASSUME NEW i \in 1..R PROVE \E k \in S : h[k] = i
  <2>1. CASE ~IsPart(rows[i].raw_hex)
    BY <1>4, <1>17, <2>1 DEF n, R
  <2>2. CASE IsPart(rows[i].raw_hex)
    <3>1. PICK m \in 1..K : keys[m] = StreamOf(rows[i])
      BY <1>5 DEF K, R
    <3>2. /\ streams[keys[m]].buf # <<>>
          /\ \A j \in 1..R : StreamOf(rows[j]) = keys[m] => j <= i
      BY <1>12, <2>2, <3>1
    <3>3. n + m \in S
      <4>1. n + m \in 1..Len(x)
        BY <1>6, <1>10
      <4>2. HasBytes(x[n + m])
        BY <1>8, <1>10, <3>2 DEF HasBytes
      <4> QED BY <4>1, <4>2 DEF S
    <3>4. /\ h[n + m] \in 1..R /\ IsPart(rows[h[n + m]].raw_hex) /\ keys[m] = StreamOf(rows[h[n + m]])
      BY <1>17, <3>3
    <3>5. i <= h[n + m] /\ h[n + m] <= i
      BY <1>12, <3>1, <3>2, <3>4
    <3>6. h[n + m] = i
      BY <1>3, <3>4, <3>5
    <3> QED BY <3>3, <3>6
  <2> QED BY <2>1, <2>2
<1>24. Numbers(h, x, S)
  BY <1>16, <1>21, <1>22, <1>23 DEF Numbers, R
<1>25. Len(x) \in Nat /\ \A k \in S : x[k] \in RowType
  BY <1>3, <1>6, <1>10, <1>16
<1> QED BY <1>24, <1>25 DEF x, S


\* The rows of t are those of the file, each of them once and those of a stream in
\* their order.
FromFile(t) ==
  \E source \in Bijection(1..Len(t), 1..Len(rows)) :
    /\ \A k \in 1..Len(t) : t[k] = rows[source[k]]
    /\ \A k \in 1..Len(t) : \A j \in 1..k - 1 : StreamOf(t[j]) = StreamOf(t[k]) => source[j] < source[k]

LEMMA SortedFromFile ==
  ASSUME RowsFit(rows), NEW x, NEW N \in Nat, NEW S, S \subseteq 1..N, \A k \in S : x[k] \in RowType,
         NEW h, Numbers(h, x, S)
  PROVE  FromFile(SortedByTime(x, S))
<1> DEFINE t == SortedByTime(x, S)
           R == Len(rows)
           C == Cardinality(S)
<1>1. /\ rows \in Seq(RowType)
      /\ \A m \in 1..R : \A n \in 1..m - 1 : rows[n].wall_time <= rows[m].wall_time
  BY Zenon DEF RowsFit
<1>2. R \in Nat /\ \A i \in 1..R : rows[i].wall_time \in Int
  <2>1. R \in Nat /\ \A i \in 1..R : rows[i] \in RowType
    BY <1>1
  <2> QED BY <2>1 DEF RowType
<1>3. /\ h \in [S -> 1..R] /\ \A k \in S : x[k] = rows[h[k]]
      /\ \A j, k \in S : h[j] = h[k] => j = k
      /\ \A j, k \in S : j < k /\ StreamOf(x[j]) = StreamOf(x[k]) => h[j] < h[k]
      /\ \A i \in 1..R : \E k \in S : h[k] = i
  BY Zenon DEF Numbers
<1>4. \A k \in S : x[k].wall_time \in Int
  BY DEF RowType
<1>5. C \in Nat /\ \E p : Sorts(x, S, p)
  BY <1>4, Sorted
<1>6. PICK p : Sorts(x, S, p)
  BY <1>5
<1>7. /\ p \in [1..C -> S]
      /\ t = [m \in 1..C |-> x[p[m]]]
      /\ \A k \in S : \E m \in 1..C : p[m] = k
      /\ \A a, b \in 1..C : a < b => Before(x, p[a], p[b])
  BY <1>6 DEF Sorts
<1> HIDE DEF t, R, C
<1>8. Len(t) = C /\ \A m \in 1..C : t[m] = x[p[m]] /\ p[m] \in S
  BY <1>5, <1>7
<1> DEFINE source == [m \in 1..C |-> h[p[m]]]
<1>9. source \in [1..C -> 1..R] /\ \A m \in 1..C : t[m] = rows[source[m]] /\ source[m] = h[p[m]] /\ source[m] \in Int
  <2>1. ASSUME NEW m \in 1..C
        PROVE  h[p[m]] \in 1..R /\ source[m] = h[p[m]] /\ t[m] = rows[h[p[m]]]
    <3> DEFINE k == p[m]
    <3>1. k \in S /\ t[m] = x[k] /\ source[m] = h[k]
      BY <1>8
    <3> HIDE DEF k
    <3>2. h[k] \in 1..R /\ x[k] = rows[h[k]]
      BY <1>3, <3>1
    <3> QED BY <3>1, <3>2 DEF k
  <2>2. \A i \in 1..R : i \in Int
    BY <1>2
  <2> QED BY <2>1, <2>2
<1> HIDE DEF source
<1>10. \A k \in S : k \in Int
  OBVIOUS
<1>11. ASSUME NEW a \in 1..C, NEW b \in 1..C, a < b PROVE p[a] # p[b]
  <2> DEFINE i == p[a]
             w == x[i].wall_time
  <2> SUFFICES ASSUME p[b] = i PROVE FALSE
    OBVIOUS
  <2>1. i \in Int /\ w \in Int
    BY <1>4, <1>8, <1>10
  <2>2. Before(x, i, i)
    BY <1>7, <1>11
  <2> HIDE DEF i
  <2>3. w < w \/ i < i
    BY <2>2 DEF Before
  <2> HIDE DEF w
  <2> QED BY <2>1, <2>3
<1>12. ASSUME NEW a \in 1..C, NEW b \in 1..C, source[a] = source[b] PROVE a = b
  <2>1. p[a] = p[b]
    <3>1. p[a] \in S /\ p[b] \in S /\ h[p[a]] = h[p[b]]
      BY <1>8, <1>9, <1>12
    <3>2. \A j, k \in S : h[j] = h[k] => j = k
      BY <1>3
    <3> QED BY <3>1, <3>2, Zenon
  <2>2. ~(a < b) /\ ~(b < a)
    BY <1>11, <2>1
  <2> QED BY <1>5, <2>2
<1>13. ASSUME NEW i \in 1..R PROVE \E m \in 1..C : source[m] = i
  <2>1. PICK k \in S : h[k] = i
    BY <1>3
  <2>2. PICK m \in 1..C : p[m] = k
    BY <1>7
  <2> QED BY <1>9, <2>1, <2>2
<1>14. source \in Bijection(1..C, 1..R)
  <2>1. source \in Surjection(1..C, 1..R)
    BY <1>9, <1>13 DEF Surjection
  <2>2. source \in Injection(1..C, 1..R)
    BY <1>9, <1>12 DEF Injection, IsInjective
  <2> QED BY <2>1, <2>2 DEF Bijection
<1>15. ASSUME NEW b \in 1..C, NEW a \in 1..b - 1, StreamOf(t[a]) = StreamOf(t[b]) PROVE source[a] < source[b]
  <2> DEFINE i == p[a]
             j == p[b]
             u == x[i].wall_time
             v == x[j].wall_time
             n == source[a]
             m == source[b]
  <2>1. a \in 1..C /\ a < b
    BY <1>5
  <2>2. /\ i \in S /\ j \in S /\ i \in Int /\ j \in Int /\ u \in Int /\ v \in Int
        /\ n \in 1..R /\ m \in 1..R /\ n = h[i] /\ m = h[j]
    BY <1>4, <1>8, <1>9, <1>10, <2>1
  <2>3. Before(x, i, j)
    BY <1>7, <2>1
  <2>4. u < v \/ (u = v /\ i < j)
    BY <2>3 DEF Before
  <2>5. u = rows[n].wall_time /\ v = rows[m].wall_time
    BY <1>3, <2>2
  <2>6. StreamOf(x[i]) = StreamOf(x[j])
    BY <1>8, <1>15, <2>1
  <2>7. i < j => n < m
    BY <1>3, <2>2, <2>6
  <2>8. m < n => v <= u
    <3> SUFFICES ASSUME m < n PROVE v <= u
      OBVIOUS
    <3>1. m \in 1..n - 1
      BY <1>2, <2>2
    <3> QED BY <1>1, <2>2, <2>5, <3>1 DEF R
  <2>9. n = m => u = v /\ i = j
    <3>1. \A y, z \in S : h[y] = h[z] => y = z
      BY <1>3
    <3> HIDE DEF i, j, n, m
    <3>2. n = m => i = j
      BY <2>2, <3>1
    <3> QED BY <3>2
  <2> HIDE DEF i, j, u, v, n, m
  <2>10. n \in Int /\ m \in Int
    BY <1>2, <2>2
  <2>11. n < m
    BY <2>2, <2>4, <2>7, <2>8, <2>9, <2>10
  <2> QED BY <2>11 DEF n, m
<1>16. /\ \A k \in 1..Len(t) : t[k] = rows[source[k]]
       /\ \A k \in 1..Len(t) : \A j \in 1..k - 1 : StreamOf(t[j]) = StreamOf(t[k]) => source[j] < source[k]
       /\ source \in Bijection(1..Len(t), 1..R)
  BY <1>8, <1>9, <1>14, <1>15
<1> QED BY <1>16, Zenon DEF FromFile, t, R

\* With no part of a frame left over, the rows come out as they went in.
LEMMA SameAsFile ==
  ASSUME Built, NEW q, NEW g, Underway(q, g, Len(rows)), Cardinality(Incomplete) = 0
  PROVE  WithBytes(records \o Left) = rows
<1> DEFINE x == records \o Left
           R == Len(rows)
           n == Len(records)
           K == Len(keys)
           left == Left
<1>1. Sourced(g, records, R) /\ Buffers(streams, q, R) /\ Keyed(keys, R) /\ RowsFit(rows)
  BY Zenon DEF Underway, Built
<1>2. /\ rows \in Seq(RowType)
      /\ \A m \in 1..R : HasBytes(rows[m])
      /\ \A m \in 1..R : \A k \in 1..m - 1 : rows[k].wall_time <= rows[m].wall_time
  BY <1>1, Zenon DEF RowsFit
<1>3. R \in Nat /\ \A i \in 1..R : rows[i].wall_time \in Int /\ StreamOf(rows[i]) \in Streams
  <2>1. R \in Nat /\ \A i \in 1..R : rows[i] \in RowType
    BY <1>2
  <2> QED BY <2>1 DEF RowType, StreamOf, Streams
<1>4. /\ records \in Seq(RowType) /\ g \in [1..n -> 1..R]
      /\ \A k \in 1..n : /\ \A j \in 1..k - 1 : g[j] < g[k]
                         /\ records[k] = rows[g[k]] /\ ~IsPart(rows[g[k]].raw_hex)
      /\ \A i \in 1..R : ~IsPart(rows[i].raw_hex) => \E k \in 1..n : g[k] = i
  BY <1>1, Zenon DEF Sourced
<1>5. /\ keys \in Seq(Streams)
      /\ \A i \in 1..R : \E m \in 1..K : keys[m] = StreamOf(rows[i])
  BY <1>1, Zenon DEF Keyed
<1>6. n \in Nat /\ K \in Nat /\ \A m \in 1..K : keys[m] \in Streams
  BY <1>4, <1>5
<1>7. ASSUME NEW key \in Streams
      PROVE  /\ streams[key].buf # <<>> => \E i \in 1..R : StreamOf(rows[i]) = key
             /\ \A i \in 1..R : StreamOf(rows[i]) = key /\ IsPart(rows[i].raw_hex) => streams[key].buf # <<>>
  BY <1>1, BufferedPart
<1>8. Incomplete = {}
  <2> DEFINE T == {keys[m] : m \in 1..K}
             f == [m \in 1..K |-> keys[m]]
  <2>1. f \in Surjection(1..K, T)
    BY DEF Surjection
  <2>2. IsFiniteSet(1..K)
    BY <1>6, FS_Interval
  <2>3. IsFiniteSet(T)
    BY <2>1, <2>2, FS_Surjection
  <2>4. Incomplete \subseteq T
    <3> SUFFICES ASSUME NEW key \in Incomplete PROVE key \in T
      OBVIOUS
    <3>1. key \in Streams /\ streams[key].buf # <<>>
      BY DEF Incomplete
    <3>2. PICK i \in 1..R : StreamOf(rows[i]) = key
      BY <1>7, <3>1
    <3>3. PICK m \in 1..K : keys[m] = key
      BY <1>5, <3>2
    <3> QED BY <3>3
  <2>5. IsFiniteSet(Incomplete)
    BY <2>3, <2>4, FS_Subset
  <2> QED BY <2>5, FS_EmptySet
<1>9. \A key \in Streams : streams[key].buf = <<>>
  BY <1>8 DEF Incomplete
<1>10. \A i \in 1..R : ~IsPart(rows[i].raw_hex)
  BY <1>3, <1>7, <1>9
<1>11. left \in Seq(RowType) /\ Len(left) = K /\ \A m \in 1..K : left[m].raw_hex = <<>>
  <2>1. ASSUME NEW m \in 1..K PROVE left[m] \in RowType /\ left[m].raw_hex = <<>>
    <3> DEFINE key == keys[m]
    <3>1. key \in Streams /\ left[m] = Record(streams[key].ts, key, streams[key].buf)
      BY <1>6 DEF Left
    <3> HIDE DEF key, left
    <3>2. streams[key].ts \in Int /\ streams[key].buf \in Seq(Nat) /\ streams[key].buf = <<>>
      BY <1>1, <1>9, <3>1 DEF Buffers
    <3>3. key[1] \in Clients /\ key[2] \in {"req", "resp"}
      BY <3>1 DEF Streams
    <3>4. Record(streams[key].ts, key, streams[key].buf) \in RowType
      BY <3>2, <3>3 DEF Record, Row, RowType
    <3> QED BY <3>1, <3>2, <3>4, RecordIs
  <2>2. left \in [1..K -> RowType]
    BY <2>1 DEF Left
  <2> QED BY <1>6, <2>1, <2>2
<1> HIDE DEF R, n, K, left
<1>12. /\ Len(records \o left) = n + K
       /\ \A k \in 1..n : (records \o left)[k] = records[k]
       /\ \A m \in 1..K : (records \o left)[n + m] = left[m]
  <2>1. /\ Len(records \o left) = Len(records) + Len(left)
        /\ \A i \in 1..Len(records) : (records \o left)[i] = records[i]
        /\ \A i \in 1..Len(left) : (records \o left)[Len(records) + i] = left[i]
    BY <1>4, <1>11, Joined
  <2> QED BY <1>11, <2>1, Zenon DEF n
<1>13. \A a, b \in 1..n : a < b => g[a] < g[b]
  <2> TAKE a, b \in 1..n
  <2>1. a < b => a \in 1..b - 1
    BY <1>6
  <2> QED BY <1>4, <2>1 DEF n
<1>14. n = R
  <2>1. \A a, b \in 1..n : g[a] = g[b] => a = b
    <3> TAKE a, b \in 1..n
    <3>1. g[a] \in Int /\ g[b] \in Int
      BY <1>3, <1>4 DEF n, R
    <3>2. g[a] = g[b] => ~(a < b) /\ ~(b < a)
      BY <1>13, <3>1
    <3> QED BY <1>6, <3>2
  <2>2. g \in Bijection(1..n, 1..R)
    <3>1. g \in [1..n -> 1..R] /\ \A i \in 1..R : \E k \in 1..n : g[k] = i
      BY <1>4, <1>10 DEF n, R
    <3>2. g \in Surjection(1..n, 1..R)
      BY <3>1 DEF Surjection
    <3>3. g \in Injection(1..n, 1..R)
      BY <2>1, <3>1 DEF Injection, IsInjective
    <3> QED BY <3>2, <3>3 DEF Bijection
  <2>3. ExistsBijection(1..n, 1..R)
    BY <2>2 DEF ExistsBijection
  <2>4. IsFiniteSet(1..n) /\ Cardinality(1..n) = n /\ Cardinality(1..R) = R
    <3>1. IsFiniteSet(1..n)
      BY <1>6, FS_Interval
    <3>2. Cardinality(1..n) = IF 1 > n THEN 0 ELSE (n - 1) + 1
      BY <1>6, FS_Interval
    <3>3. Cardinality(1..R) = IF 1 > R THEN 0 ELSE (R - 1) + 1
      BY <1>3, FS_Interval DEF R
    <3>4. R \in Nat
      BY <1>3 DEF R
    <3> QED BY <1>6, <3>1, <3>2, <3>3, <3>4
  <2> QED BY <2>3, <2>4, FS_Bijection
<1>15. \A k \in 1..n : g[k] = k
  <2>1. g \in [1..n -> 1..n] /\ \A i \in 1..n : \E k \in 1..n : g[k] = i
    BY <1>4, <1>10, <1>14 DEF n, R
  <2> QED BY <1>6, <1>13, <2>1, Identity
<1> DEFINE y == records \o left
           S == {k \in 1..Len(y) : HasBytes(y[k])}
<1>16. \A k \in 1..n : y[k] = rows[k] /\ HasBytes(y[k])
  <2> TAKE k \in 1..n
  <2>1. y[k] = records[k] /\ records[k] = rows[g[k]] /\ g[k] = k /\ k \in 1..R
    BY <1>4, <1>12, <1>14, <1>15 DEF n
  <2> QED BY <1>2, <2>1 DEF R
<1>17. S = 1..n
  <2>1. ASSUME NEW k \in 1..n PROVE k \in S
    BY <1>6, <1>12, <1>16
  <2>2. ASSUME NEW k \in S PROVE k \in 1..n
    <3> SUFFICES ASSUME k \notin 1..n PROVE FALSE
      OBVIOUS
    <3>1. k \in 1..n + K /\ HasBytes(y[k])
      BY <1>12
    <3> DEFINE m == k - n
    <3>2. m \in 1..K /\ k = n + m
      BY <1>6, <3>1
    <3> HIDE DEF m
    <3>3. y[k] = left[m] /\ left[m].raw_hex = <<>>
      BY <1>11, <1>12, <3>2
    <3> QED BY <3>1, <3>3 DEF HasBytes
  <2> QED BY <2>1, <2>2
<1> HIDE DEF y
<1>18. SortedByTime(y, 1..n) = [k \in 1..n |-> y[k]]
  <2>1. \A k \in 1..n : y[k].wall_time \in Int
    BY <1>3, <1>14, <1>16 DEF R
  <2>2. ASSUME NEW j \in 1..n, NEW k \in 1..n, j < k PROVE y[j].wall_time <= y[k].wall_time
    <3>1. j \in 1..k - 1 /\ k \in 1..R
      BY <1>6, <1>14, <2>2
    <3> QED BY <1>2, <1>16, <3>1 DEF R
  <2> QED BY <1>6, <2>1, <2>2, SortedAlready
<1>19. [k \in 1..n |-> y[k]] = [k \in 1..R |-> rows[k]]
  BY <1>14, <1>16
<1>20. [k \in 1..R |-> rows[k]] = rows
  BY <1>2 DEF R
<1>21. WithBytes(y) = rows
  BY <1>17, <1>18, <1>19, <1>20 DEF WithBytes
<1> QED BY <1>21 DEF y, left


\* What the file written is to the one exported.
Converted ==
  /\ FromFile(csv)
  /\ skipped["incomplete"] = 0 => csv = rows
  /\ skipped["gap"] = 0 /\ skipped["retransmission"] = 0

ConvertInv ==
  isn = NONE => /\ step \in {"load", "export"} => Fresh
                /\ step = "convert" => Fresh \/ \E q, g, r : Underway(q, g, r)
                /\ step = "done" => Converted

LEMMA WriteCsvConverts ==
  ASSUME Built, NEW q, NEW g, NEW r, Underway(q, g, r), WriteCsv
  PROVE  Converted'
<1> DEFINE x == records \o Left
           S == {k \in 1..Len(x) : HasBytes(x[k])}
<1>1. /\ at = Len(pcap) /\ rows' = rows
      /\ csv' = WithBytes(x)
      /\ skipped' = [skipped EXCEPT !["incomplete"] = Cardinality(Incomplete)]
  BY DEF WriteCsv, exportVars
<1>2. ReadTo(q, r) /\ NoneSkipped /\ RowsFit(rows)
  BY Zenon DEF Underway, Built
<1>3. r = Len(rows)
  <2>1. rows \in Seq(RowType)
    BY <1>2, Zenon DEF RowsFit
  <2>2. /\ q \in [1..Len(rows) -> 1..Len(pcap)]
        /\ r \in 0..Len(rows) /\ at \in 0..Len(pcap)
        /\ \A i \in 1..Len(rows) : i <= r <=> q[i] <= at
    BY <1>2 DEF ReadTo, RowPlaces
  <2> DEFINE R == Len(rows)
  <2>3. R \in Nat /\ Len(pcap) \in Nat
    <3>1. pcap \in Seq(ExportPacket)
      BY PcapCarries
    <3> QED BY <2>1, <3>1
  <2> HIDE DEF R
  <2>4. R # 0 => R <= r
    <3> SUFFICES ASSUME R # 0 PROVE R <= r
      OBVIOUS
    <3>1. R \in 1..Len(rows)
      BY <2>3 DEF R
    <3>2. q[R] \in 1..Len(pcap)
      BY <2>2, <3>1
    <3>3. q[R] <= at
      BY <1>1, <2>3, <3>2
    <3> QED BY <2>2, <3>1, <3>3
  <2> QED BY <2>2, <2>3, <2>4 DEF R
<1>4. Underway(q, g, Len(rows))
  BY <1>3
<1>5. FromFile(WithBytes(x))
  <2>1. /\ Len(x) \in Nat /\ \A k \in S : x[k] \in RowType
        /\ \E h : Numbers(h, x, S)
    BY <1>4, AllNumbered
  <2>2. PICK h : Numbers(h, x, S)
    BY <2>1
  <2>3. S \subseteq 1..Len(x)
    OBVIOUS
  <2>4. WithBytes(x) = SortedByTime(x, S)
    BY DEF WithBytes
  <2> HIDE DEF x, S
  <2> QED BY <1>2, <2>1, <2>2, <2>3, <2>4, SortedFromFile
<1>6. FromFile(csv)'
  BY <1>1, <1>5 DEF FromFile
<1>7. Cardinality(Incomplete) = 0 => WithBytes(x) = rows
  BY <1>4, SameAsFile
<1>8. /\ skipped'["incomplete"] = Cardinality(Incomplete)
      /\ skipped'["gap"] = 0 /\ skipped'["retransmission"] = 0
  BY <1>1, <1>2 DEF NoneSkipped, Reasons
<1> QED BY <1>1, <1>6, <1>7, <1>8 DEF Converted

LEMMA ConvertInit == Init => ConvertInv
BY DEF Init, ConvertInv, Fresh

LEMMA ConvertStep == ExportInv /\ ConvertInv /\ [Next]_vars => ConvertInv'
<1> SUFFICES ASSUME ExportInv, ConvertInv, [Next]_vars PROVE ConvertInv'
  OBVIOUS
<1>1. ASSUME isn = NONE, step = "convert" PROVE Built /\ \E q, g, r : Underway(q, g, r)
  <2>1. Built
    BY <1>1 DEF ExportInv
  <2> QED BY <1>1, <2>1, Begins DEF ConvertInv
<1>2. CASE Export /\ UNCHANGED convertVars
  <2>1. /\ step \in {"load", "export"} /\ step' \in {"export", "convert"} /\ isn' = isn
    BY <1>2 DEF Export, Load, ExportRow, WritePcap, convertVars
  <2>2. Fresh => Fresh'
    BY <1>2 DEF convertVars, Fresh
  <2> QED BY <2>1, <2>2 DEF ConvertInv
<1>3. CASE Sniff
  <2>1. step = "sniff" /\ isn' = isn
    BY <1>3 DEF Sniff, CaptureSegment, CaptureForeign, Capture, EndOfCapture, convertVars
  <2> QED BY <2>1 DEF ExportInv, ConvertInv
<1>4. CASE Convert
  <2>1. isn' = isn /\ step = "convert" /\ (step' = "convert" \/ (WriteCsv /\ step' = "done"))
    BY <1>4 DEF Convert, SkipForeign, SkipEmpty, InOrder, Gap, SeenBefore, Overlap, WriteCsv, HasPayload, Reading
  <2> SUFFICES ASSUME isn = NONE PROVE ConvertInv'
    BY <2>1 DEF ConvertInv
  <2>2. Built
    BY <1>1, <2>1
  <2>3. PICK q, g, r : Underway(q, g, r)
    BY <1>1, <2>1
  <2>4. CASE WriteCsv
    <3>1. Converted'
      BY <2>2, <2>3, <2>4, WriteCsvConverts
    <3>2. step' = "done"
      BY <2>4 DEF WriteCsv
    <3> QED BY <3>1, <3>2 DEF ConvertInv
  <2>5. CASE InOrder
    <3>1. (\E h : Underway(q, h, r + 1))'
      BY <2>2, <2>3, <2>5, RowTaken
    <3>2. step' = "convert"
      BY <2>1, <2>5 DEF InOrder
    <3> QED BY <3>1, <3>2 DEF ConvertInv
  <2>6. CASE SkipEmpty
    <3>1. (\E h : Underway(q, h, r))'
      BY <2>2, <2>3, <2>6, EmptySkipped
    <3>2. step' = "convert"
      BY <2>1, <2>6 DEF SkipEmpty
    <3> QED BY <3>1, <3>2 DEF ConvertInv
  <2> QED BY <1>4, <2>2, <2>3, <2>4, <2>5, <2>6, OnlyRows DEF Convert
<1>5. CASE UNCHANGED vars
  <2>1. /\ step' = step /\ isn' = isn /\ at' = at /\ streams' = streams /\ keys' = keys
        /\ records' = records /\ skipped' = skipped /\ csv' = csv /\ rows' = rows /\ pcap' = pcap
    BY <1>5 DEF vars, exportVars, convertVars
  <2>2. Fresh => Fresh'
    BY <2>1 DEF Fresh
  <2>3. ASSUME NEW q, NEW g, NEW r, Underway(q, g, r) PROVE Underway(q, g, r)'
    <3>1. ReadTo(q, r) /\ Sourced(g, records, r) /\ Buffers(streams, q, r) /\ Keyed(keys, r) /\ NoneSkipped
      BY <2>3, Zenon DEF Underway
    <3>2. ReadTo(q, r)'
      BY <2>1, <3>1 DEF ReadTo
    <3>3. Sourced(g, records, r)'
      BY <2>1, <3>1 DEF Sourced
    <3>4. Buffers(streams, q, r)'
      <4>1. Buffers(streams, q, r) /\ streams' = streams /\ rows' = rows /\ pcap' = pcap
        BY <2>1, <3>1
      <4> QED BY <4>1, Zenon DEF Buffers
    <3>5. Keyed(keys, r)' /\ NoneSkipped'
      BY <2>1, <3>1 DEF Keyed, NoneSkipped
    <3> QED BY <3>2, <3>3, <3>4, <3>5, Zenon DEF Underway
  <2>4. (\E q, g, r : Underway(q, g, r)) => (\E q, g, r : Underway(q, g, r))'
    BY <2>3
  <2>5. Converted => Converted'
    BY <2>1 DEF Converted, FromFile
  <2> QED BY <2>1, <2>2, <2>4, <2>5 DEF ConvertInv
<1> QED BY <1>2, <1>3, <1>4, <1>5 DEF Next

\* What is read of an exported file: the first rows of it, each of which is a record
\* again or in its stream's buffer, and nothing was skipped (pcap_to_csv.py:100-187).
THEOREM Converting == Spec => []ConvertInv
<1>1. Spec => [](ExportInv /\ ConvertInv)
  <2>1. Init => ExportInv /\ ConvertInv
    BY ExportInit, ConvertInit
  <2>2. ExportInv /\ ConvertInv /\ [Next]_vars => ExportInv' /\ ConvertInv'
    BY ExportStep, ConvertStep
  <2> QED BY <2>1, <2>2, PTL DEF Spec
<1> QED BY <1>1, PTL

\* A capture that is exported and read back is the capture, whatever its rows are
\* (export_pcap.py:23).
THEOREM ReadBack == Spec => []RoundTrip
<1>1. ASSUME ConvertInv PROVE RoundTrip
  <2> SUFFICES ASSUME Exported PROVE /\ FromFile(csv)
                                     /\ skipped["incomplete"] = 0 => csv = rows
                                     /\ skipped["gap"] = 0 /\ skipped["retransmission"] = 0
    BY Zenon DEF RoundTrip, FromFile
  <2> QED BY <1>1 DEF Exported, ConvertInv, Converted
<1> QED BY <1>1, Converting, PTL

=============================================================================
