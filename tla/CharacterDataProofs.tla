------------------------- MODULE CharacterDataProofs -------------------------
(***************************************************************************)
(* Lists of values, for any characters, any texts and any pieces of them.  *)
(* First what the conversions make of texts that have a part in common;    *)
(* the loop over a text is a recursive function, and what it makes of a    *)
(* text is shown by looking at a shortest counterexample.  Then the stack, *)
(* and then that pieces do not matter.                                     *)
(***************************************************************************)
EXTENDS CharacterData, SequenceTheorems, WellFoundedInduction, TLAPS

-----------------------------------------------------------------------------
(* Sequences. *)

LEMMA ConcatFacts ==
    ASSUME NEW S, NEW s \in Seq(S), NEW t \in Seq(S)
    PROVE  /\ s \o t \in Seq(S) /\ Len(s \o t) = Len(s) + Len(t)
           /\ \A i \in 1..Len(s) : (s \o t)[i] = s[i]
           /\ \A i \in 1..Len(t) : (s \o t)[Len(s) + i] = t[i]
<1> DEFINE c == s \o t
<1>1. /\ c \in Seq(S) /\ Len(c) = Len(s) + Len(t)
      /\ \A i \in 1..Len(s) + Len(t) : c[i] = IF i <= Len(s) THEN s[i] ELSE t[i - Len(s)]
  BY ConcatProperties
<1>2. Len(s) \in Nat /\ Len(t) \in Nat  OBVIOUS
<1> HIDE DEF c
<1>3. \A i \in 1..Len(s) : c[i] = s[i]  BY <1>1, <1>2
<1>4. \A i \in 1..Len(t) : c[Len(s) + i] = t[i]
  <2> SUFFICES ASSUME NEW i \in 1..Len(t) PROVE c[Len(s) + i] = t[i]  OBVIOUS
  <2> DEFINE m == Len(s) + i
  <2>1. m \in 1..Len(s) + Len(t) /\ ~ (m <= Len(s)) /\ m - Len(s) = i  BY <1>2
  <2> HIDE DEF m
  <2>2. c[m] = t[i]  BY <2>1, <1>1
  <2> QED  BY <2>2 DEF m
<1> QED  BY <1>1, <1>3, <1>4 DEF c

\* A part of a sequence, or an empty one.
LEMMA PartFacts ==
    ASSUME NEW S, NEW s \in Seq(S), NEW m \in Nat \ {0}, NEW n \in 0..Len(s)
    PROVE  /\ SubSeq(s, m, n) \in Seq(S)
           /\ m <= n + 1 => Len(SubSeq(s, m, n)) = n - m + 1
           /\ m > n => Len(SubSeq(s, m, n)) = 0 /\ SubSeq(s, m, n) = << >>
           /\ \A i \in 1..n - m + 1 : SubSeq(s, m, n)[i] = s[m + i - 1]
<1>1. Len(s) \in Nat /\ m \in Int /\ n \in Int  OBVIOUS
<1>2. \A i \in m..n : s[i] \in S  BY <1>1
<1>3. /\ SubSeq(s, m, n) \in Seq(S)
      /\ Len(SubSeq(s, m, n)) = IF m <= n THEN n - m + 1 ELSE 0
      /\ \A i \in 1..n - m + 1 : SubSeq(s, m, n)[i] = s[m + i - 1]
  BY <1>1, <1>2, SubSeqProperties
<1>4. m <= n => Len(SubSeq(s, m, n)) = n - m + 1  BY <1>3
<1>5. m > n => Len(SubSeq(s, m, n)) = 0  BY <1>1, <1>3
<1>6. m > n => SubSeq(s, m, n) = << >>  BY <1>1, SubSeqEmpty
<1>7. m = n + 1 => n - m + 1 = 0 /\ m > n  BY <1>1
<1>8. m <= n + 1 => m <= n \/ m = n + 1  BY <1>1
<1> QED  BY <1>3, <1>4, <1>5, <1>6, <1>7, <1>8

\* Parts of two texts are the same if their characters are.
Part(s, i, a) == SubSeq(s, i, a)
Agree(s, i, a, t, h, b) == a - i = b - h /\ \A m \in 0..a - i : s[i + m] = t[h + m]

LEMMA SameParts ==
    ASSUME NEW s \in Seq(Char), NEW t \in Seq(Char), NEW i \in Nat \ {0}, NEW h \in Nat \ {0},
           NEW a \in 0..Len(s), NEW b \in 0..Len(t), a + 1 >= i, b + 1 >= h, Agree(s, i, a, t, h, b)
    PROVE  Part(s, i, a) = Part(t, h, b)
<1> DEFINE u == SubSeq(s, i, a)
           w == SubSeq(t, h, b)
           r == a - i + 1
<1>1. Len(s) \in Nat /\ Len(t) \in Nat  OBVIOUS
<1>2. r \in Nat /\ b - h + 1 = r /\ r - 1 = a - i  BY <1>1 DEF Agree
<1>3. /\ u \in Seq(Char) /\ Len(u) = a - i + 1
      /\ \A m \in 1..a - i + 1 : u[m] = s[i + m - 1]
  BY PartFacts
<1>4. /\ w \in Seq(Char) /\ Len(w) = b - h + 1
      /\ \A m \in 1..b - h + 1 : w[m] = t[h + m - 1]
  BY PartFacts
<1> HIDE DEF u, w, r
<1>5. ASSUME NEW m \in 1..r PROVE u[m] = w[m]
  <2>1. m - 1 \in 0..a - i /\ i + m - 1 = i + (m - 1) /\ h + m - 1 = h + (m - 1)  BY <1>1, <1>2
  <2>2. s[i + (m - 1)] = t[h + (m - 1)]  BY <2>1 DEF Agree
  <2> QED  BY <2>1, <2>2, <1>2, <1>3, <1>4 DEF r
<1>6. Len(u) = Len(w) /\ \A m \in 1..Len(u) : u[m] = w[m]  BY <1>2, <1>3, <1>4, <1>5 DEF r
<1>7. u = w  BY <1>3, <1>4, <1>6, SeqEqual
<1> QED  BY <1>7 DEF u, w, Part

\* Two texts that are joined.
LEMMA CharConcat ==
    ASSUME NEW s \in Seq(Char), NEW t \in Seq(Char)
    PROVE  /\ s \o t \in Seq(Char) /\ Len(s \o t) = Len(s) + Len(t)
           /\ \A i \in 1..Len(s) : (s \o t)[i] = s[i]
           /\ \A i \in 1..Len(t) : (s \o t)[Len(s) + i] = t[i]
BY ConcatFacts

\* A sequence without its last element.
LEMMA FrontFacts ==
    ASSUME NEW S, NEW s \in Seq(S), Len(s) > 0
    PROVE  /\ Front(s) \in Seq(S) /\ Len(Front(s)) = Len(s) - 1
           /\ \A i \in 1..Len(s) - 1 : Front(s)[i] = s[i]
           /\ Last(s) = s[Len(s)] /\ Last(s) \in S
<1> DEFINE n == Len(s)
           f == Front(s)
           k == n - 1
<1>1. n \in Nat /\ n > 0  OBVIOUS
<1>2. k \in 0..Len(s) /\ k \in Nat /\ 1 \in Nat \ {0}  BY <1>1
<1>3. f = SubSeq(s, 1, k)  BY DEF Front
<1> HIDE DEF k
<1>4. /\ SubSeq(s, 1, k) \in Seq(S)
      /\ 1 <= k + 1 => Len(SubSeq(s, 1, k)) = k - 1 + 1
      /\ \A i \in 1..k - 1 + 1 : SubSeq(s, 1, k)[i] = s[1 + i - 1]
  BY <1>2, PartFacts
<1> HIDE DEF f
<1>6. f \in Seq(S) /\ Len(f) = k /\ \A i \in 1..k : f[i] = s[i]
  <2>1. k - 1 + 1 = k /\ 1 <= k + 1  BY <1>2
  <2>2. \A i \in 1..k : 1 + i - 1 = i  BY <1>2
  <2> QED  BY <1>3, <1>4, <2>1, <2>2
<1>5. Last(s) = s[Len(s)] /\ Last(s) \in S  BY <1>1 DEF Last
<1> QED  BY <1>5, <1>6 DEF n, f, k

-----------------------------------------------------------------------------
(* The first position without a character of C. *)

\* Every set of numbers has a smallest one.
LEMMA Smallest ==
    ASSUME NEW N \in SUBSET Nat, N # {}
    PROVE  \E m \in N : \A n \in N : m <= n
<1>1. PICK m \in N : \A n \in N : ~ (<<n, m>> \in OpToRel(<, Nat))
  BY WFMin, NatLessThanWellFounded
<1>2. \A n \in Nat : n < m => <<n, m>> \in OpToRel(<, Nat)  BY Zenon DEF OpToRel
<1>3. \A n \in N : ~ (n < m)  BY <1>1, <1>2, Zenon
<1> QED  BY <1>3

IsAfter(C, s, p, i) ==
    /\ i \in p..(Len(s) + 1)
    /\ \A j \in p..(i - 1) : s[j] \in C
    /\ i <= Len(s) => s[i] \notin C

LEMMA AfterFacts ==
    ASSUME NEW C, NEW s \in Seq(Char), NEW p \in 1..Len(s) + 1
    PROVE  /\ IsAfter(C, s, p, After(C, s, p))
           /\ \A i \in Int : IsAfter(C, s, p, i) => i = After(C, s, p)
<1> DEFINE n == Len(s)
           Stop == {i \in p..n + 1 : i <= n => s[i] \notin C}
<1>1. n \in Nat /\ p \in Nat  OBVIOUS
<1> HIDE DEF n
<1>2. Stop \in SUBSET Nat /\ n + 1 \in Stop  BY <1>1 DEF n
<1>3. PICK m \in Stop : \A i \in Stop : m <= i  BY <1>2, Smallest
<1>4. \A j \in p..m - 1 : s[j] \in C
  <2> SUFFICES ASSUME NEW j \in p..m - 1, s[j] \notin C PROVE FALSE  OBVIOUS
  <2>1. m \in p..n + 1  BY <1>3
  <2>2. j \in p..n + 1 /\ ~ (m <= j)  BY <1>1, <2>1
  <2>3. j \in Stop  BY <2>2
  <2> QED  BY <2>2, <2>3, <1>3
<1>5. m \in p..(Len(s) + 1) /\ (m <= Len(s) => s[m] \notin C)  BY <1>3 DEF n
<1>6. \E i \in p..(Len(s) + 1) :
         (\A j \in p..(i - 1) : s[j] \in C) /\ (i <= Len(s) => s[i] \notin C)
  BY <1>4, <1>5
<1>7. IsAfter(C, s, p, After(C, s, p))
  <2> DEFINE P(i) == (\A j \in p..(i - 1) : s[j] \in C) /\ (i <= Len(s) => s[i] \notin C)
  <2>1. \E i \in p..(Len(s) + 1) : P(i)  BY <1>6
  <2>2. After(C, s, p) = CHOOSE i \in p..(Len(s) + 1) : P(i)  BY DEF After
  <2> HIDE DEF P
  <2>3. After(C, s, p) \in p..(Len(s) + 1) /\ P(After(C, s, p))  BY <2>1, <2>2
  <2> QED  BY <2>3 DEF P, IsAfter
<1>8. ASSUME NEW i \in Int, NEW k \in Int, IsAfter(C, s, p, i), IsAfter(C, s, p, k) PROVE ~ (i < k)
  <2> SUFFICES ASSUME i < k PROVE FALSE  OBVIOUS
  <2>1. i \in p..n + 1 /\ k \in p..n + 1  BY <1>8 DEF IsAfter, n
  <2>2. i <= n /\ i \in p..k - 1  BY <2>1, <1>1
  <2> QED  BY <2>2, <1>8 DEF IsAfter, n
<1>9. ASSUME NEW i \in Int, IsAfter(C, s, p, i) PROVE i = After(C, s, p)
  <2>1. After(C, s, p) \in Int  BY <1>1, <1>7 DEF IsAfter
  <2>2. ~ (i < After(C, s, p)) /\ ~ (After(C, s, p) < i)  BY <1>7, <1>8, <1>9, <2>1
  <2> QED  BY <2>1, <2>2
<1> QED  BY <1>7, <1>9

\* Two texts have n characters in common, from p on and from q on; i is a position within them, or
\* just behind, where the second text ends.
Common(s, p, t, q, n) ==
    /\ p + n <= Len(s) + 1 /\ q + n <= Len(t) + 1
    /\ \A m \in 0..n - 1 : s[p + m] = t[q + m]

Within(i, p, t, q, n) == \/ i < p + n
                         \/ i <= p + n /\ q + n = Len(t) + 1

\* The position is then the same in both.
LEMMA AfterInCommon ==
    ASSUME NEW C, NEW s \in Seq(Char), NEW t \in Seq(Char),
           NEW p \in 1..Len(s) + 1, NEW q \in 1..Len(t) + 1, NEW n \in Nat,
           Common(s, p, t, q, n), Within(After(C, s, p), p, t, q, n)
    PROVE  After(C, t, q) - q = After(C, s, p) - p
<1> DEFINE a == After(C, s, p)
           b == (a - p) + q
           x == Len(s)
           y == Len(t)
<1>1. IsAfter(C, s, p, a)  BY AfterFacts
<1>2. x \in Nat /\ y \in Nat /\ p \in Nat /\ q \in Nat  OBVIOUS
<1>3. /\ a \in p..x + 1
      /\ \A j \in p..a - 1 : s[j] \in C
      /\ a <= x => s[a] \notin C
  BY <1>1 DEF IsAfter
<1>4. p + n <= x + 1 /\ q + n <= y + 1 /\ (a < p + n \/ (a <= p + n /\ q + n = y + 1))
      /\ \A m \in 0..n - 1 : s[p + m] = t[q + m]
  BY DEF Common, Within
<1> HIDE DEF a, b, x, y
<1>5. b \in q..y + 1 /\ b \in Int  BY <1>2, <1>3, <1>4 DEF b
<1>6. \A j \in q..b - 1 : t[j] \in C
  <2> SUFFICES ASSUME NEW j \in q..b - 1 PROVE t[j] \in C  OBVIOUS
  <2> DEFINE m == j - q
  <2>1. m \in 0..n - 1 /\ p + m \in p..a - 1 /\ q + m = j
    BY <1>2, <1>3, <1>4, <1>5 DEF b
  <2> HIDE DEF m
  <2>2. s[p + m] = t[q + m]  BY <2>1, <1>4
  <2> QED  BY <2>1, <2>2, <1>3
<1>7. b <= y => t[b] \notin C
  <2> SUFFICES ASSUME b <= y PROVE t[b] \notin C  OBVIOUS
  <2> DEFINE m == b - q
  <2>1. m \in 0..n - 1 /\ q + m = b /\ p + m = a /\ a <= x
    BY <1>2, <1>3, <1>4, <1>5 DEF b
  <2> HIDE DEF m
  <2>2. s[p + m] = t[q + m]  BY <2>1, <1>4
  <2> QED  BY <2>1, <2>2, <1>3
<1>8. IsAfter(C, t, q, b)  BY <1>5, <1>6, <1>7 DEF IsAfter, y
<1>9. b = After(C, t, q)  BY <1>5, <1>8, AfterFacts
<1> QED  BY <1>2, <1>3, <1>9 DEF b, a

-----------------------------------------------------------------------------
(* toInteger(). *)

Start(s, p) == After({Space}, s, p)
FirstDigit(s, p) ==
    IF Start(s, p) <= Len(s) /\ s[Start(s, p)] = Sign THEN Start(s, p) + 1 ELSE Start(s, p)

LEMMA ToDataFacts ==
    ASSUME NEW s \in Seq(Char), NEW p \in 1..Len(s) + 1
    PROVE  /\ Start(s, p) \in p..Len(s) + 1
           /\ \A m \in p..Start(s, p) - 1 : s[m] = Space
           /\ Start(s, p) <= Len(s) => s[Start(s, p)] # Space
           /\ \/ FirstDigit(s, p) = Start(s, p) /\ (Start(s, p) <= Len(s) => s[Start(s, p)] # Sign)
              \/ FirstDigit(s, p) = Start(s, p) + 1 /\ Start(s, p) <= Len(s)
                 /\ s[Start(s, p)] = Sign
           /\ ToData(s, p).next \in FirstDigit(s, p)..Len(s) + 1
           /\ \A m \in FirstDigit(s, p)..ToData(s, p).next - 1 : s[m] \in Digit
           /\ ToData(s, p).next <= Len(s) => s[ToData(s, p).next] \notin Digit
           /\ ToData(s, p).failed <=> ToData(s, p).next = FirstDigit(s, p)
           /\ ToData(s, p).value = Part(s, Start(s, p), ToData(s, p).next - 1)
           /\ ToData(s, p).next = After(Digit, s, FirstDigit(s, p))
<1> DEFINE i == Start(s, p)
           j == FirstDigit(s, p)
           k == After(Digit, s, j)
           x == Len(s)
<1>1. x \in Nat /\ p \in 1..x + 1  OBVIOUS
<1>2. ToData(s, p) = [failed |-> k = j, value |-> SubSeq(s, i, k - 1), next |-> k]
  BY DEF ToData, Start, FirstDigit
<1>3. /\ ToData(s, p).next = k /\ ToData(s, p).value = SubSeq(s, i, k - 1)
      /\ ToData(s, p).failed = (k = j)
  <2> DEFINE v == SubSeq(s, i, k - 1)
             b == (k = j)
  <2>1. ToData(s, p) = [failed |-> b, value |-> v, next |-> k]  BY <1>2
  <2> HIDE DEF v, b, k
  <2>2. ToData(s, p).next = k /\ ToData(s, p).value = v /\ ToData(s, p).failed = b  BY <2>1
  <2> QED  BY <2>2 DEF v, b
<1>4. IsAfter({Space}, s, p, i)  BY AfterFacts DEF Start
<1>5. /\ i \in p..x + 1 /\ (\A m \in p..i - 1 : s[m] = Space)
      /\ i <= x => s[i] # Space
  BY <1>4 DEF IsAfter
<1>6. \/ j = i /\ (i <= x => s[i] # Sign)
      \/ j = i + 1 /\ i <= x /\ s[i] = Sign
  BY DEF FirstDigit
<1> HIDE DEF i, j, k
<1>7. j \in 1..x + 1  BY <1>1, <1>5, <1>6
<1>8. IsAfter(Digit, s, j, k)  BY <1>7, AfterFacts DEF k, x
<1>9. /\ k \in j..x + 1 /\ (\A m \in j..k - 1 : s[m] \in Digit)
      /\ k <= x => s[k] \notin Digit
  BY <1>8 DEF IsAfter, x
<1>10. ToData(s, p).failed <=> k = j  BY <1>3, Zenon
<1> QED  BY <1>3, <1>5, <1>6, <1>9, <1>10 DEF i, j, k, x, Part

\* Where a value ends, and of what characters it is.
LEMMA ToDataType ==
    ASSUME NEW s \in Seq(Char), NEW p \in 1..Len(s) + 1
    PROVE  /\ ToData(s, p).next \in p..Len(s) + 1
           /\ ~ ToData(s, p).failed => ToData(s, p).next > p
           /\ ToData(s, p).value \in Seq(Digit \union {Sign})
<1> DEFINE i == Start(s, p)
           j == FirstDigit(s, p)
           k == ToData(s, p).next
           v == ToData(s, p).value
           x == Len(s)
<1>1. x \in Nat /\ p \in 1..x + 1  OBVIOUS
<1>2. /\ i \in p..x + 1
      /\ \/ j = i
         \/ j = i + 1 /\ i <= x /\ s[i] = Sign
      /\ k \in j..x + 1 /\ (\A m \in j..k - 1 : s[m] \in Digit)
      /\ v = Part(s, i, k - 1) /\ (ToData(s, p).failed <=> k = j)
  BY ToDataFacts
<1> HIDE DEF i, j, k, v
<1>3. k \in p..x + 1 /\ (k # j => k > p)  BY <1>1, <1>2
<1>4. v \in Seq(Digit \union {Sign})
  <2>1. \A m \in i..k - 1 : s[m] \in Digit \union {Sign}
    <3> SUFFICES ASSUME NEW m \in i..k - 1 PROVE s[m] \in Digit \union {Sign}  OBVIOUS
    <3>1. (m = i /\ s[i] = Sign) \/ m \in j..k - 1  BY <1>1, <1>2
    <3> QED  BY <3>1, <1>2
  <2>2. i \in Int /\ k - 1 \in Int  BY <1>1, <1>2
  <2>3. Part(s, i, k - 1) \in Seq(Digit \union {Sign})  BY <2>1, <2>2, SubSeqProperties DEF Part
  <2> QED  BY <2>3, <1>2
<1> QED  BY <1>2, <1>3, <1>4 DEF k, v, x

\* A text that ends with white space has no value that reaches its end.
LEMMA EndsWithSpace ==
    ASSUME NEW s \in Seq(Char), NEW p \in 1..Len(s) + 1, Len(s) > 0, s[Len(s)] = Space,
           ToData(s, p).next = Len(s) + 1
    PROVE  \A m \in p..Len(s) : s[m] = Space
<1> DEFINE i == Start(s, p)
           j == FirstDigit(s, p)
           x == Len(s)
<1>1. x \in Nat /\ p \in 1..x + 1 /\ x > 0  OBVIOUS
<1>2. /\ i \in p..x + 1 /\ (\A m \in p..i - 1 : s[m] = Space)
      /\ i <= x => s[i] # Space
      /\ \/ j = i
         \/ j = i + 1 /\ i <= x /\ s[i] = Sign
      /\ \A m \in j..(x + 1) - 1 : s[m] \in Digit
  BY ToDataFacts
<1>3. Space \notin Digit /\ Space # Sign  BY TextAssumption
<1> HIDE DEF i, j
<1>4. CASE i <= x
  <2>1. (x = i /\ j = i + 1) \/ x \in j..(x + 1) - 1  BY <1>1, <1>2, <1>4
  <2> QED  BY <2>1, <1>2, <1>3, <1>4
<1>5. CASE i = x + 1
  <2>1. \A m \in p..x : m \in p..i - 1  BY <1>1, <1>5
  <2> QED  BY <2>1, <1>2
<1> QED  BY <1>1, <1>2, <1>4, <1>5

\* Of a part that two texts have in common the same value is made, if the value ends within the
\* part, or where the second text ends with it.
LEMMA ToDataInCommon ==
    ASSUME NEW s \in Seq(Char), NEW t \in Seq(Char),
           NEW p \in 1..Len(s) + 1, NEW q \in 1..Len(t) + 1, NEW n \in Nat,
           Common(s, p, t, q, n), Within(ToData(s, p).next, p, t, q, n)
    PROVE  /\ ToData(t, q).next - q = ToData(s, p).next - p
           /\ ToData(t, q).failed <=> ToData(s, p).failed
           /\ ToData(t, q).value = ToData(s, p).value
<1> DEFINE i == Start(s, p)
           j == FirstDigit(s, p)
           k == ToData(s, p).next
           h == Start(t, q)
           e == FirstDigit(t, q)
           f == ToData(t, q).next
           x == Len(s)
           y == Len(t)
<1>1. /\ x \in Nat /\ y \in Nat /\ n \in Nat /\ p \in 1..x + 1 /\ q \in 1..y + 1
      /\ p + n <= x + 1 /\ q + n <= y + 1
      /\ \/ k < p + n
         \/ k <= p + n /\ q + n = y + 1
      /\ \A m \in 0..n - 1 : s[p + m] = t[q + m]
  BY DEF Common, Within
<1>2. /\ i \in p..x + 1
      /\ \/ j = i /\ (i <= x => s[i] # Sign)
         \/ j = i + 1 /\ i <= x /\ s[i] = Sign
      /\ k \in j..x + 1
  BY ToDataFacts
<1>3. /\ h \in q..y + 1
      /\ \/ e = h /\ (h <= y => t[h] # Sign)
         \/ e = h + 1 /\ h <= y /\ t[h] = Sign
      /\ f \in e..y + 1
  BY ToDataFacts
<1>a. /\ k = After(Digit, s, j)
      /\ ToData(s, p).value = Part(s, i, k - 1) /\ (ToData(s, p).failed <=> k = j)
  BY ToDataFacts
<1>b. /\ f = After(Digit, t, e)
      /\ ToData(t, q).value = Part(t, h, f - 1) /\ (ToData(t, q).failed <=> f = e)
  BY ToDataFacts
<1>c. i = After({Space}, s, p) /\ h = After({Space}, t, q)  BY DEF Start
<1> HIDE DEF i, j, k, h, e, f, x, y
<1>i. /\ i \in Int /\ j \in Int /\ k \in Int /\ h \in Int /\ e \in Int /\ f \in Int
      /\ p \in Int /\ q \in Int /\ (j = i \/ j = i + 1) /\ (e = h \/ e = h + 1)
      /\ 1 <= p /\ p <= i /\ i <= j /\ j <= k /\ k <= x + 1
      /\ 1 <= q /\ q <= h /\ h <= e /\ e <= f /\ f <= y + 1
  <2>1. x \in Int /\ y \in Int /\ p \in Int /\ q \in Int /\ 1 <= p /\ 1 <= q  BY <1>1
  <2>2. i \in Int /\ p <= i /\ h \in Int /\ q <= h  BY <2>1, <1>2, <1>3
  <2>3. (j = i \/ j = i + 1) /\ (e = h \/ e = h + 1)  BY <1>2, <1>3
  <2>4. j \in Int /\ e \in Int /\ i <= j /\ h <= e  BY <2>2, <2>3
  <2>5. k \in Int /\ f \in Int /\ j <= k /\ e <= f /\ k <= x + 1 /\ f <= y + 1
    BY <2>1, <2>4, <1>2, <1>3
  <2> QED  BY <2>1, <2>2, <2>3, <2>4, <2>5
<1>4. i <= k /\ j <= k /\ k <= p + n  BY <1>1, <1>i
<1>5. h - q = i - p
  <2>1. Within(After({Space}, s, p), p, t, q, n)  BY <1>1, <1>i, <1>c, <1>4 DEF x, y, Within
  <2>2. After({Space}, t, q) - q = After({Space}, s, p) - p  BY <2>1, AfterInCommon
  <2> QED  BY <2>2, <1>c
<1>6. i - p \in 0..n /\ j - p \in 0..n
  <2>1. n \in Int /\ i <= p + n /\ j <= p + n /\ p <= j  BY <1>1, <1>i, <1>4
  <2> QED  BY <2>1, <1>i
<1>7. e - q = j - p
  <2>1. CASE i - p = n
    <3>1. i = p + n /\ q + n = y + 1 /\ h = q + n  BY <2>1, <1>1, <1>i, <1>4, <1>5
    <3>2. j = i /\ ~ (h <= y)  BY <3>1, <1>1, <1>i, <1>4
    <3>3. e = h  BY <3>2, <1>3
    <3> QED  BY <3>2, <3>3, <1>5
  <2>2. CASE i - p # n
    <3> DEFINE m == i - p
    <3>1. m \in 0..n - 1 /\ p + m = i /\ q + m = h  BY <2>2, <1>1, <1>i, <1>5, <1>6
    <3>2. s[i] = t[h]
      <4> HIDE DEF m
      <4>1. s[p + m] = t[q + m]  BY <3>1, <1>1
      <4> QED  BY <3>1, <4>1
    <3>3. i <= x /\ h <= y  BY <3>1, <1>1
    <3>4. (e = h /\ j = i) \/ (e = h + 1 /\ j = i + 1)
      <4>1. CASE s[i] = Sign  BY <4>1, <3>2, <3>3, <1>2, <1>3, Zenon
      <4>2. CASE s[i] # Sign
        <5>1. t[h] # Sign  BY <4>2, <3>2
        <5>2. j = i  BY <4>2, <1>2
        <5>3. e = h  BY <5>1, <1>3
        <5> QED  BY <5>2, <5>3
      <4> QED  BY <4>1, <4>2
    <3> QED  BY <3>4, <1>i, <1>5
  <2> QED  BY <2>1, <2>2
<1>8. f - e = k - j
  <2> DEFINE r == n - (j - p)
  <2>1. r \in Nat /\ j + r = p + n /\ e + r = q + n /\ j \in 1..x + 1 /\ e \in 1..y + 1
    BY <1>1, <1>i, <1>6, <1>7
  <2>2. \A m \in 0..r - 1 : s[j + m] = t[e + m]
    <3> SUFFICES ASSUME NEW m \in 0..r - 1 PROVE s[j + m] = t[e + m]  OBVIOUS
    <3> DEFINE l == (j - p) + m
    <3>1. l \in 0..n - 1 /\ p + l = j + m /\ q + l = e + m
      BY <1>1, <1>i, <1>6, <1>7
    <3> HIDE DEF l
    <3>2. s[p + l] = t[q + l]  BY <3>1, <1>1
    <3> QED  BY <3>1, <3>2
  <2> HIDE DEF r
  <2>3. Common(s, j, t, e, r) /\ Within(After(Digit, s, j), j, t, e, r)
    BY <2>1, <2>2, <1>1, <1>i, <1>a DEF x, y, Common, Within
  <2>4. After(Digit, t, e) - e = After(Digit, s, j) - j
    BY <2>1, <2>3, AfterInCommon DEF x, y
  <2> QED  BY <2>4, <1>a, <1>b
<1>9. f - q = k - p  BY <1>i, <1>7, <1>8
<1>10. f = e <=> k = j  BY <1>i, <1>8
<1>11. Part(t, h, f - 1) = Part(s, i, k - 1)
  <2>1. k - i = f - h /\ k - i \in 0..n  BY <1>1, <1>i, <1>4, <1>5, <1>9
  <2> DEFINE a == k - 1
             b == f - 1
  <2>2. /\ i \in Nat \ {0} /\ h \in Nat \ {0} /\ a \in 0..Len(s) /\ b \in 0..Len(t)
        /\ a + 1 >= i /\ b + 1 >= h /\ a - i = b - h /\ a - i < n - (i - p)
    BY <1>1, <1>i, <1>4, <2>1 DEF x, y
  <2>3. \A m \in 0..a - i : s[i + m] = t[h + m]
    <3> HIDE DEF a, b
    <3> SUFFICES ASSUME NEW m \in 0..a - i PROVE s[i + m] = t[h + m]  OBVIOUS
    <3> DEFINE l == (i - p) + m
    <3>1. l \in 0..n - 1 /\ p + l = i + m /\ q + l = h + m
      BY <1>1, <1>i, <1>5, <2>2
    <3> HIDE DEF l
    <3>2. s[p + l] = t[q + l]  BY <3>1, <1>1
    <3> QED  BY <3>1, <3>2
  <2> HIDE DEF a, b
  <2>5. Agree(s, i, a, t, h, b)  BY <2>2, <2>3 DEF Agree
  <2>4. Part(s, i, a) = Part(t, h, b)  BY <2>2, <2>5, SameParts
  <2> QED  BY <2>4 DEF a, b
<1> QED  BY <1>a, <1>b, <1>9, <1>10, <1>11 DEF f, k

-----------------------------------------------------------------------------
(* The loop. *)

Ends(s, q) == ToData(s, q).failed \/ ToData(s, q).next = Len(s) + 1
AtEnd(s, q) == [values |-> << >>, last |-> q, next |-> ToData(s, q).next]
Before(s, q, r) == [r EXCEPT !.values = <<ToData(s, q).value>> \o @]

\* What the loop makes of a text from m on: g is that, of every position.
IsLoop(s, m, g) ==
    g = [q \in m..Len(s) + 1 |-> IF Ends(s, q) THEN AtEnd(s, q)
                                 ELSE Before(s, q, g[ToData(s, q).next])]

LEMMA LoopFromTheEnd ==
    ASSUME NEW s \in Seq(Char)
    PROVE  \E g : IsLoop(s, Len(s) + 1, g)
<1> DEFINE e == Len(s) + 1
           g == [q \in e..e |-> AtEnd(s, q)]
<1>1. e \in Nat /\ e \in 1..Len(s) + 1  OBVIOUS
<1>2. ToData(s, e).next \in e..e  BY <1>1, ToDataType
<1>3. \A q \in e..e : q = e  BY <1>1
<1>4. ToData(s, e).next = Len(s) + 1  BY <1>2, <1>3
<1>5. \A q \in e..e : Ends(s, q)  BY <1>3, <1>4 DEF Ends
<1> HIDE DEF e
<1>6. g = [q \in e..e |-> IF Ends(s, q) THEN AtEnd(s, q) ELSE Before(s, q, g[ToData(s, q).next])]
  BY <1>5
<1> HIDE DEF g
<1> QED  BY <1>6 DEF IsLoop, e

LEMMA LoopFromBefore ==
    ASSUME NEW s \in Seq(Char), NEW m \in 1..Len(s), NEW g, IsLoop(s, m + 1, g)
    PROVE  \E f : IsLoop(s, m, f)
<1> DEFINE n == Len(s)
           Next1(q) == ToData(s, q).next
           f == [q \in m..n + 1 |-> IF q # m THEN g[q]
                                    ELSE IF Ends(s, m) THEN AtEnd(s, m)
                                    ELSE Before(s, m, g[Next1(m)])]
<1>1. n \in Nat /\ m \in 1..n  OBVIOUS
<1>2. ASSUME NEW q \in m..n + 1, ~ Ends(s, q) PROVE Next1(q) \in q + 1..n + 1
  <2>1. q \in 1..Len(s) + 1  BY <1>1
  <2>2. ToData(s, q).next \in q..Len(s) + 1 /\ ToData(s, q).next > q  BY <1>2, <2>1, ToDataType DEF Ends
  <2> QED  BY <1>1, <2>1, <2>2
<1>3. g = [q \in m + 1..n + 1 |-> IF Ends(s, q) THEN AtEnd(s, q) ELSE Before(s, q, g[Next1(q)])]
  BY DEF IsLoop
<1> HIDE DEF n, Next1
<1>4. \A k \in m + 1..n + 1 : k \in m..n + 1 /\ k # m  BY <1>1
<1> HIDE DEF f
<1>5. \A k \in m + 1..n + 1 : f[k] = g[k]  BY <1>4 DEF f
<1>6. ASSUME NEW q \in m..n + 1
      PROVE  f[q] = IF Ends(s, q) THEN AtEnd(s, q) ELSE Before(s, q, f[Next1(q)])
  <2>1. CASE q # m
    <3>1. q \in m + 1..n + 1  BY <1>1, <2>1
    <3>2. f[q] = g[q]  BY <3>1, <1>5
    <3>3. CASE Ends(s, q)
      <4>1. g[q] = AtEnd(s, q)  BY <1>3, <3>1, <3>3
      <4> QED  BY <3>2, <3>3, <4>1
    <3>4. CASE ~ Ends(s, q)
      <4>1. g[q] = Before(s, q, g[Next1(q)])  BY <1>3, <3>1, <3>4
      <4>2. Next1(q) \in m + 1..n + 1  BY <1>1, <1>2, <3>1, <3>4
      <4>3. f[Next1(q)] = g[Next1(q)]  BY <4>2, <1>5
      <4> QED  BY <3>2, <3>4, <4>1, <4>3
    <3> QED  BY <3>3, <3>4
  <2>2. CASE q = m
    <3>1. CASE Ends(s, q)
      <4>1. f[m] = AtEnd(s, m)  BY <1>1, <2>2, <3>1 DEF f
      <4> QED  BY <2>2, <3>1, <4>1
    <3>2. CASE ~ Ends(s, q)
      <4>1. f[m] = Before(s, m, g[Next1(m)])  BY <1>1, <2>2, <3>2 DEF f
      <4>2. Next1(m) \in m + 1..n + 1  BY <1>2, <2>2, <3>2
      <4>3. f[Next1(m)] = g[Next1(m)]  BY <4>2, <1>5
      <4> QED  BY <2>2, <3>2, <4>1, <4>3
    <3> QED  BY <3>1, <3>2
  <2> QED  BY <2>1, <2>2
<1>7. f = [q \in m..n + 1 |-> f[q]]  BY DEF f
<1>8. f = [q \in m..n + 1 |-> IF Ends(s, q) THEN AtEnd(s, q) ELSE Before(s, q, f[Next1(q)])]
  BY <1>6, <1>7, Zenon
<1>9. IsLoop(s, m, f)  BY <1>8 DEF IsLoop, n, Next1
<1> QED  BY <1>9

LEMMA LoopExists ==
    ASSUME NEW s \in Seq(Char)
    PROVE  \E g : IsLoop(s, 1, g)
<1> DEFINE e == Len(s) + 1
           Some == {k \in 0..Len(s) : \E g : IsLoop(s, e - k, g)}
           None == {k \in 0..Len(s) : ~ \E g : IsLoop(s, e - k, g)}
<1>1. e \in Nat /\ Len(s) \in Nat  OBVIOUS
<1>2. SUFFICES None = {}
  <2>1. Len(s) \in 0..Len(s) /\ e - Len(s) = 1  BY <1>1
  <2>2. Len(s) \notin None  BY <1>2
  <2>3. \E g : IsLoop(s, e - Len(s), g)  BY <2>1, <2>2
  <2> QED  BY <2>1, <2>3
<1>3. SUFFICES ASSUME None # {} PROVE FALSE  OBVIOUS
<1>4. None \in SUBSET Nat  BY <1>1
<1> HIDE DEF None
<1>5. PICK k \in None : \A l \in None : k <= l  BY <1>3, <1>4, Smallest
<1> USE DEF None
<1>6. k \in 0..Len(s) /\ ~ \E g : IsLoop(s, e - k, g)  OBVIOUS
<1> HIDE DEF None
<1>7. CASE k = 0
  <2>1. e - k = Len(s) + 1  BY <1>1, <1>7
  <2>2. \E g : IsLoop(s, e - k, g)  BY <2>1, LoopFromTheEnd
  <2> QED  BY <2>2, <1>6
<1>8. CASE k # 0
  <2>1. k - 1 \in 0..Len(s) /\ ~ (k <= k - 1)  BY <1>1, <1>6, <1>8
  <2>2. k - 1 \notin None  BY <2>1, <1>5
  <2>3. \E g : IsLoop(s, e - (k - 1), g)  BY <2>1, <2>2 DEF None
  <2>4. e - (k - 1) = (e - k) + 1 /\ e - k \in 1..Len(s)  BY <1>1, <1>6, <1>8
  <2>5. PICK h : IsLoop(s, (e - k) + 1, h)  BY <2>3, <2>4
  <2>6. \E g : IsLoop(s, e - k, g)
    <3> DEFINE m == e - k
    <3>1. m \in 1..Len(s) /\ IsLoop(s, m + 1, h)  BY <2>4, <2>5
    <3> HIDE DEF m
    <3>2. \E f : IsLoop(s, m, f)  BY <3>1, LoopFromBefore
    <3> QED  BY <3>2 DEF m
  <2> QED  BY <2>6, <1>6
<1> QED  BY <1>7, <1>8

\* The loop, one value at a time.
LEMMA LoopUnfold ==
    ASSUME NEW s \in Seq(Char), NEW p \in 1..Len(s) + 1
    PROVE  /\ Ends(s, p) => Loop(s, p) = AtEnd(s, p)
           /\ ~ Ends(s, p) => Loop(s, p) = Before(s, p, Loop(s, ToData(s, p).next))
<1> DEFINE Body(g) == [q \in 1..Len(s) + 1 |-> IF Ends(s, q) THEN AtEnd(s, q)
                                               ELSE Before(s, q, g[ToData(s, q).next])]
           from == CHOOSE g : g = Body(g)
<1>1. \A q : Loop(s, q) = from[q]  BY DEF Loop, Ends, AtEnd, Before
<1>2. \E g : g = Body(g)  BY LoopExists DEF IsLoop
<1> HIDE DEF Body
<1>3. from = Body(from)  BY <1>2
<1> HIDE DEF from
<1> USE DEF Body
<1>4. from[p] = IF Ends(s, p) THEN AtEnd(s, p) ELSE Before(s, p, from[ToData(s, p).next])
  BY <1>3
<1>5. Loop(s, p) = from[p] /\ Loop(s, ToData(s, p).next) = from[ToData(s, p).next]  BY <1>1
<1> HIDE DEF Body
<1>6. CASE Ends(s, p)
  <2>1. from[p] = AtEnd(s, p)  BY <1>4, <1>6
  <2> QED  BY <2>1, <1>5, <1>6
<1>7. CASE ~ Ends(s, p)
  <2>1. from[p] = Before(s, p, from[ToData(s, p).next])  BY <1>4, <1>7
  <2> QED  BY <2>1, <1>5, <1>7
<1> QED  BY <1>6, <1>7

\* White space before a value is skipped.
LEMMA SpacesSkipped ==
    ASSUME NEW s \in Seq(Char), NEW q \in 1..Len(s) + 1, NEW r \in q..Len(s) + 1,
           \A m \in q..r - 1 : s[m] = Space
    PROVE  ToData(s, q) = ToData(s, r)
<1> DEFINE i == Start(s, r)
           n == Len(s)
<1>1. n \in Nat /\ q \in 1..n + 1 /\ r \in q..n + 1  OBVIOUS
<1>2. r \in 1..n + 1  BY <1>1
<1>3. /\ i \in r..n + 1 /\ (\A m \in r..i - 1 : s[m] = Space)
      /\ i <= n => s[i] # Space
  BY <1>2, ToDataFacts
<1> HIDE DEF i, n
<1>4. i \in q..n + 1  BY <1>1, <1>3
<1>5. \A m \in q..i - 1 : s[m] \in {Space}
  <2> SUFFICES ASSUME NEW m \in q..i - 1 PROVE s[m] = Space  OBVIOUS
  <2>1. m \in q..r - 1 \/ m \in r..i - 1  BY <1>1, <1>3
  <2> QED  BY <2>1, <1>3
<1>6. IsAfter({Space}, s, q, i)  BY <1>3, <1>4, <1>5 DEF IsAfter, n
<1>7. i \in Int  BY <1>1, <1>3
<1>8. i = After({Space}, s, q)  BY <1>6, <1>7, AfterFacts
<1>9. Start(s, q) = Start(s, r)  BY <1>8 DEF i, Start
<1>10. FirstDigit(s, q) = FirstDigit(s, r)  BY <1>9 DEF FirstDigit
<1>11. \A p : ToData(s, p) = [failed |-> After(Digit, s, FirstDigit(s, p)) = FirstDigit(s, p),
                              value |-> SubSeq(s, Start(s, p), After(Digit, s, FirstDigit(s, p)) - 1),
                              next |-> After(Digit, s, FirstDigit(s, p))]
  BY DEF ToData, FirstDigit, Start
<1> QED  BY <1>9, <1>10, <1>11, Zenon

Value == Seq(Digit \union {Sign})

\* A value before two lists of values that are joined.
LEMMA ValueFirst ==
    ASSUME NEW v \in Value, NEW a \in Seq(Value), NEW b \in Seq(Value)
    PROVE  <<v>> \o (a \o b) = (<<v>> \o a) \o b
<1> DEFINE o == <<v>>
<1>1. o \in Seq(Value)  OBVIOUS
<1> HIDE DEF o
<1>2. (o \o a) \o b = o \o (a \o b)  BY <1>1, ConcatAssociative
<1> QED  BY <1>2 DEF o

\* What the loop can have made of a text from p on.
IsOutcome(s, p, r) ==
    /\ r \in [values : Seq(Value), last : p..Len(s) + 1, next : p..Len(s) + 1]
    /\ Ends(s, r.last) /\ r.next = ToData(s, r.last).next

LEMMA BeforeFacts ==
    ASSUME NEW s, NEW q, NEW N, NEW r \in [values : Seq(Value), last : N, next : N]
    PROVE  Before(s, q, r) = [values |-> <<ToData(s, q).value>> \o r.values,
                              last |-> r.last, next |-> r.next]
<1> DEFINE v == <<ToData(s, q).value>> \o r.values
<1>1. Before(s, q, r) = [r EXCEPT !.values = v]  BY DEF Before
<1> HIDE DEF v
<1>2. Before(s, q, r) = [values |-> v, last |-> r.last, next |-> r.next]  BY <1>1
<1> QED  BY <1>2 DEF v

LEMMA LoopAtEnd ==
    ASSUME NEW s \in Seq(Char), NEW p \in 1..Len(s) + 1, Ends(s, p)
    PROVE  IsOutcome(s, p, Loop(s, p))
<1>1. Loop(s, p) = [values |-> << >>, last |-> p, next |-> ToData(s, p).next]
  BY LoopUnfold DEF AtEnd
<1>2. ToData(s, p).next \in p..Len(s) + 1  BY ToDataType
<1>3. << >> \in Seq(Value) /\ p \in p..Len(s) + 1  OBVIOUS
<1> QED  BY <1>1, <1>2, <1>3 DEF IsOutcome

LEMMA LoopBefore ==
    ASSUME NEW s \in Seq(Char), NEW p \in 1..Len(s) + 1, ~ Ends(s, p),
           IsOutcome(s, ToData(s, p).next, Loop(s, ToData(s, p).next))
    PROVE  /\ IsOutcome(s, p, Loop(s, p))
           /\ Loop(s, p).values = <<ToData(s, p).value>> \o Loop(s, ToData(s, p).next).values
           /\ Loop(s, p).last = Loop(s, ToData(s, p).next).last
           /\ Loop(s, p).next = Loop(s, ToData(s, p).next).next
<1> DEFINE k == ToData(s, p).next
           r == Loop(s, k)
           v == ToData(s, p).value
           o == Loop(s, p)
<1>1. k \in p..Len(s) + 1 /\ v \in Value  BY ToDataType DEF Value
<1>2. /\ r \in [values : Seq(Value), last : k..Len(s) + 1, next : k..Len(s) + 1]
      /\ Ends(s, r.last) /\ r.next = ToData(s, r.last).next
  BY DEF IsOutcome
<1>3. o = Before(s, p, r)  BY LoopUnfold
<1> HIDE DEF k, r, o
<1>4. o = [values |-> <<v>> \o r.values, last |-> r.last, next |-> r.next]
  BY <1>2, <1>3, BeforeFacts
<1> HIDE DEF v
<1>5. r.values \in Seq(Value) /\ r.last \in k..Len(s) + 1 /\ r.next \in k..Len(s) + 1  BY <1>2
<1>6. <<v>> \o r.values \in Seq(Value)  BY <1>1, <1>5
<1>7. \A m \in k..Len(s) + 1 : m \in p..Len(s) + 1  BY <1>1
<1>8. r.last \in p..Len(s) + 1 /\ r.next \in p..Len(s) + 1  BY <1>5, <1>7
<1>9. o \in [values : Seq(Value), last : p..Len(s) + 1, next : p..Len(s) + 1]
  BY <1>4, <1>6, <1>8
<1>10. o.values = <<v>> \o r.values /\ o.last = r.last /\ o.next = r.next  BY <1>4
<1>11. IsOutcome(s, p, o)  BY <1>2, <1>9, <1>10 DEF IsOutcome
<1> QED  BY <1>10, <1>11 DEF o, r, k, v

LEMMA LoopType ==
    ASSUME NEW s \in Seq(Char)
    PROVE  \A p \in 1..Len(s) + 1 : IsOutcome(s, p, Loop(s, p))
<1> DEFINE n == Len(s)
           Bad == {k \in 0..n : ~ IsOutcome(s, (n + 1) - k, Loop(s, (n + 1) - k))}
<1>1. n \in Nat  OBVIOUS
<1>2. SUFFICES Bad = {}
  <2> SUFFICES ASSUME NEW p \in 1..n + 1 PROVE IsOutcome(s, p, Loop(s, p))  OBVIOUS
  <2> DEFINE k == (n + 1) - p
  <2>1. k \in 0..n /\ (n + 1) - k = p  BY <1>1
  <2> HIDE DEF k
  <2>2. k \notin Bad  BY <1>2
  <2> QED  BY <2>1, <2>2
<1>3. SUFFICES ASSUME Bad # {} PROVE FALSE  OBVIOUS
<1>4. Bad \in SUBSET Nat  BY <1>1
<1> HIDE DEF Bad
<1>5. PICK k \in Bad : \A l \in Bad : k <= l  BY <1>3, <1>4, Smallest
<1> DEFINE p == (n + 1) - k
<1>6. k \in 0..n /\ ~ IsOutcome(s, p, Loop(s, p))  BY DEF Bad
<1>7. p \in 1..n + 1 /\ p \in Int /\ k = (n + 1) - p  BY <1>1, <1>6
<1> HIDE DEF p
<1>8. CASE Ends(s, p)  BY <1>6, <1>7, <1>8, LoopAtEnd
<1>9. CASE ~ Ends(s, p)
  <2> DEFINE q == ToData(s, p).next
             l == (n + 1) - q
  <2>1. q \in p..n + 1 /\ q > p  BY <1>7, <1>9, ToDataType DEF Ends
  <2>2. l \in 0..n /\ ~ (k <= l) /\ (n + 1) - l = q  BY <1>1, <1>7, <2>1
  <2> HIDE DEF q, l
  <2>3. l \notin Bad  BY <2>2, <1>5
  <2>4. IsOutcome(s, q, Loop(s, q))  BY <2>2, <2>3 DEF Bad
  <2> QED  BY <2>4, <1>6, <1>7, <1>9, LoopBefore DEF q
<1> QED  BY <1>8, <1>9

LEMMA LoopFacts ==
    ASSUME NEW s \in Seq(Char), NEW p \in 1..Len(s) + 1
    PROVE  /\ Loop(s, p).values \in Seq(Value)
           /\ Loop(s, p).last \in p..Len(s) + 1 /\ Loop(s, p).next \in p..Len(s) + 1
           /\ Ends(s, Loop(s, p).last) /\ Loop(s, p).next = ToData(s, Loop(s, p).last).next
           /\ Loop(s, p) = [values |-> Loop(s, p).values, last |-> Loop(s, p).last,
                            next |-> Loop(s, p).next]
           /\ Ends(s, p) => /\ Loop(s, p).values = << >> /\ Loop(s, p).last = p
                             /\ Loop(s, p).next = ToData(s, p).next
           /\ ~ Ends(s, p) => LET l == Loop(s, ToData(s, p).next)
                              IN /\ Loop(s, p).values = <<ToData(s, p).value>> \o l.values
                                 /\ Loop(s, p).last = l.last /\ Loop(s, p).next = l.next
<1> DEFINE r == Loop(s, p)
<1>1. IsOutcome(s, p, r)  BY LoopType
<1>2. /\ r \in [values : Seq(Value), last : p..Len(s) + 1, next : p..Len(s) + 1]
      /\ Ends(s, r.last) /\ r.next = ToData(s, r.last).next
  BY <1>1 DEF IsOutcome
<1>3. ASSUME Ends(s, p) PROVE r.values = << >> /\ r.last = p /\ r.next = ToData(s, p).next
  <2>1. r = [values |-> << >>, last |-> p, next |-> ToData(s, p).next]
    BY <1>3, LoopUnfold DEF AtEnd
  <2> QED  BY <2>1
<1>4. ASSUME ~ Ends(s, p)
      PROVE  LET l == Loop(s, ToData(s, p).next)
             IN /\ r.values = <<ToData(s, p).value>> \o l.values
                /\ r.last = l.last /\ r.next = l.next
  <2>1. ToData(s, p).next \in 1..Len(s) + 1
    <3>1. ToData(s, p).next \in p..Len(s) + 1  BY ToDataType
    <3> QED  BY <3>1
  <2>2. IsOutcome(s, ToData(s, p).next, Loop(s, ToData(s, p).next))  BY <2>1, LoopType
  <2> QED  BY <2>2, <1>4, LoopBefore
<1> HIDE DEF r
<1>5. /\ r.values \in Seq(Value) /\ r.last \in p..Len(s) + 1 /\ r.next \in p..Len(s) + 1
      /\ r = [values |-> r.values, last |-> r.last, next |-> r.next]
  BY <1>2
<1> QED  BY <1>2, <1>3, <1>4, <1>5 DEF r

\* In a text that ends with another one, values are found as in that.
LEMMA ToDataShift ==
    ASSUME NEW s \in Seq(Char), NEW u \in Seq(Char), NEW p \in 1..Len(u) + 1
    PROVE  /\ Len(s) + p \in 1..Len(s \o u) + 1 /\ Len(s \o u) = Len(s) + Len(u)
           /\ ToData(s \o u, Len(s) + p).next = Len(s) + ToData(u, p).next
           /\ ToData(s \o u, Len(s) + p).failed <=> ToData(u, p).failed
           /\ ToData(s \o u, Len(s) + p).value = ToData(u, p).value
           /\ Ends(s \o u, Len(s) + p) <=> Ends(u, p)
<1> DEFINE t == s \o u
           x == Len(s)
           y == Len(u)
           q == x + p
           n == (y + 1) - p
           k == ToData(u, p).next
           f == ToData(t, q).next
<1>1. /\ t \in Seq(Char) /\ Len(t) = x + y
      /\ \A i \in 1..y : t[x + i] = u[i]
  BY ConcatFacts
<1>2. x \in Nat /\ y \in Nat /\ p \in 1..y + 1  OBVIOUS
<1>3. k \in p..y + 1  BY ToDataType
<1> HIDE DEF t, x, y, k, f
<1>4. /\ q \in 1..Len(t) + 1 /\ n \in Nat /\ p + n = y + 1 /\ q + n = Len(t) + 1
      /\ k <= p + n
  BY <1>1, <1>2, <1>3
<1>5. \A m \in 0..n - 1 : u[p + m] = t[q + m]
  <2> SUFFICES ASSUME NEW m \in 0..n - 1 PROVE u[p + m] = t[q + m]  OBVIOUS
  <2> DEFINE i == p + m
  <2>1. i \in 1..y /\ x + i = q + m  BY <1>2, <1>4
  <2> HIDE DEF i, q
  <2>2. t[x + i] = u[i]  BY <2>1, <1>1
  <2> QED  BY <2>1, <2>2 DEF i
<1> HIDE DEF q, n
<1>6. Common(u, p, t, q, n) /\ Within(ToData(u, p).next, p, t, q, n)
  BY <1>4, <1>5 DEF Common, Within, y, k
<1>7. /\ f - q = k - p
      /\ ToData(t, q).failed <=> ToData(u, p).failed
      /\ ToData(t, q).value = ToData(u, p).value
  BY <1>1, <1>4, <1>6, ToDataInCommon DEF f, k
<1>8. f \in Int
  <2>1. f \in q..Len(t) + 1  BY <1>1, <1>4, ToDataType DEF f
  <2> QED  BY <2>1, <1>4
<1>9. f = x + k  BY <1>2, <1>3, <1>7, <1>8 DEF q
<1>10. f = Len(t) + 1 <=> k = y + 1  BY <1>1, <1>2, <1>3, <1>9
<1>11. Ends(t, q) <=> Ends(u, p)  BY <1>7, <1>10 DEF Ends, f, k, y
<1> QED  BY <1>1, <1>4, <1>7, <1>9, <1>11 DEF t, q, x, y, f, k

Shifted(s, u, p) ==
    /\ Loop(s \o u, Len(s) + p).values = Loop(u, p).values
    /\ Loop(s \o u, Len(s) + p).last = Len(s) + Loop(u, p).last
    /\ Loop(s \o u, Len(s) + p).next = Len(s) + Loop(u, p).next

LEMMA LoopShift ==
    ASSUME NEW s \in Seq(Char), NEW u \in Seq(Char)
    PROVE  \A p \in 1..Len(u) + 1 : Shifted(s, u, p)
<1> DEFINE t == s \o u
           x == Len(s)
           n == Len(u)
           Bad == {k \in 0..n : ~ Shifted(s, u, (n + 1) - k)}
<1>1. n \in Nat /\ x \in Nat /\ t \in Seq(Char)  BY ConcatFacts
<1>2. SUFFICES Bad = {}
  <2> SUFFICES ASSUME NEW p \in 1..n + 1 PROVE Shifted(s, u, p)  OBVIOUS
  <2> DEFINE k == (n + 1) - p
  <2>1. k \in 0..n /\ (n + 1) - k = p  BY <1>1
  <2> HIDE DEF k
  <2>2. k \notin Bad  BY <1>2
  <2> QED  BY <2>1, <2>2
<1>3. SUFFICES ASSUME Bad # {} PROVE FALSE  OBVIOUS
<1>4. Bad \in SUBSET Nat  BY <1>1
<1> HIDE DEF Bad
<1>5. PICK k \in Bad : \A l \in Bad : k <= l  BY <1>3, <1>4, Smallest
<1> DEFINE p == (n + 1) - k
<1>6. k \in 0..n /\ ~ Shifted(s, u, p)  BY DEF Bad
<1>7. p \in 1..n + 1 /\ p \in Int /\ k = (n + 1) - p  BY <1>1, <1>6
<1> HIDE DEF p
<1>8. /\ x + p \in 1..Len(t) + 1
      /\ ToData(t, x + p).next = x + ToData(u, p).next
      /\ ToData(t, x + p).value = ToData(u, p).value
      /\ Ends(t, x + p) <=> Ends(u, p)
  BY <1>7, ToDataShift
<1>9. CASE Ends(u, p)
  <2>1. Loop(u, p).values = << >> /\ Loop(u, p).last = p /\ Loop(u, p).next = ToData(u, p).next
    BY <1>7, <1>9, LoopFacts
  <2>2. /\ Loop(t, x + p).values = << >> /\ Loop(t, x + p).last = x + p
        /\ Loop(t, x + p).next = ToData(t, x + p).next
    BY <1>1, <1>8, <1>9, LoopFacts
  <2>3. Shifted(s, u, p)  BY <2>1, <2>2, <1>8 DEF Shifted
  <2> QED  BY <2>3, <1>6
<1>10. CASE ~ Ends(u, p)
  <2> DEFINE q == ToData(u, p).next
             l == (n + 1) - q
  <2>1. q \in p..n + 1 /\ q > p  BY <1>7, <1>10, ToDataType DEF Ends
  <2>2. l \in 0..n /\ ~ (k <= l) /\ (n + 1) - l = q  BY <1>1, <1>7, <2>1
  <2>3. Shifted(s, u, q)
    <3> HIDE DEF q, l
    <3>1. l \notin Bad  BY <2>2, <1>5
    <3> QED  BY <2>2, <3>1 DEF Bad
  <2>4. /\ Loop(u, p).values = <<ToData(u, p).value>> \o Loop(u, q).values
        /\ Loop(u, p).last = Loop(u, q).last /\ Loop(u, p).next = Loop(u, q).next
    BY <1>7, <1>10, LoopFacts
  <2>5. /\ Loop(t, x + p).values = <<ToData(t, x + p).value>> \o Loop(t, ToData(t, x + p).next).values
        /\ Loop(t, x + p).last = Loop(t, ToData(t, x + p).next).last
        /\ Loop(t, x + p).next = Loop(t, ToData(t, x + p).next).next
    BY <1>1, <1>8, <1>10, LoopFacts
  <2>6. ToData(t, x + p).next = x + q  BY <1>8
  <2> HIDE DEF q
  <2>7. Shifted(s, u, p)  BY <2>3, <2>4, <2>5, <2>6, <1>8 DEF Shifted
  <2> QED  BY <2>7, <1>6
<1> QED  BY <1>9, <1>10

\* In a text that begins with another one, a value that ends within that is found as in that.
LEMMA ToDataPrefix ==
    ASSUME NEW s \in Seq(Char), NEW u \in Seq(Char), NEW p \in 1..Len(s) + 1
    PROVE  /\ p \in 1..Len(s \o u) + 1
           /\ ToData(s, p).next <= Len(s) =>
                  /\ ToData(s \o u, p).next = ToData(s, p).next
                  /\ ToData(s \o u, p).failed <=> ToData(s, p).failed
                  /\ ToData(s \o u, p).value = ToData(s, p).value
           /\ ToData(s, p).next = Len(s) + 1 => ToData(s \o u, p).next >= Len(s) + 1
<1> DEFINE t == s \o u
           x == Len(s)
           n == (x + 1) - p
           k == ToData(s, p).next
           f == ToData(t, p).next
<1>1. /\ t \in Seq(Char) /\ Len(t) = x + Len(u) /\ Len(u) \in Nat
      /\ \A i \in 1..x : t[i] = s[i]
  BY ConcatFacts
<1>2. x \in Nat /\ p \in 1..x + 1  OBVIOUS
<1>3. k \in p..x + 1  BY ToDataType
<1> HIDE DEF t, x
<1>4. /\ p \in 1..Len(t) + 1 /\ n \in Nat /\ p + n = x + 1 /\ x + 1 <= Len(t) + 1
  BY <1>1, <1>2
<1>5. f \in p..Len(t) + 1  BY <1>1, <1>4, ToDataType
<1>6. \A m \in 0..n - 1 : t[p + m] = s[p + m] /\ s[p + m] = t[p + m]
  <2> SUFFICES ASSUME NEW m \in 0..n - 1 PROVE t[p + m] = s[p + m]  OBVIOUS
  <2>1. p + m \in 1..x  BY <1>2, <1>4
  <2> QED  BY <2>1, <1>1
<1> HIDE DEF n, k, f
<1>7. Common(s, p, t, p, n) /\ Common(t, p, s, p, n)  <2>1. x = Len(s) /\ p + n <= Len(s) + 1 /\ p + n <= Len(t) + 1  BY <1>4 DEF x
  <2> QED  BY <2>1, <1>6, Zenon DEF Common
<1>8. ASSUME k <= x
      PROVE  /\ f = k
             /\ ToData(t, p).failed <=> ToData(s, p).failed
             /\ ToData(t, p).value = ToData(s, p).value
  <2>1. Within(ToData(s, p).next, p, t, p, n)  BY <1>8, <1>2, <1>3, <1>4 DEF Within, k
  <2>2. /\ f - p = k - p
        /\ ToData(t, p).failed <=> ToData(s, p).failed
        /\ ToData(t, p).value = ToData(s, p).value
    BY <2>1, <1>1, <1>4, <1>7, ToDataInCommon DEF f, k
  <2> QED  BY <2>2, <1>2, <1>3, <1>5
<1>9. ASSUME k = x + 1, ~ (f >= x + 1) PROVE FALSE
  <2>1. Within(ToData(t, p).next, p, s, p, n)  BY <1>9, <1>2, <1>4, <1>5 DEF Within, f
  <2>2. k - p = f - p
    BY <2>1, <1>1, <1>4, <1>7, ToDataInCommon DEF f, k
  <2> QED  BY <2>2, <1>9, <1>2, <1>3, <1>5
<1> QED  BY <1>4, <1>8, <1>9 DEF t, x, f, k

\* The loop goes over a text that begins with another one as over that, and then goes on from the
\* value that it stopped at.
GoesOn(s, u, p) ==
    LET l == Loop(s \o u, Loop(s, p).last)
    IN /\ Loop(s \o u, p).values = Loop(s, p).values \o l.values
       /\ Loop(s \o u, p).last = l.last /\ Loop(s \o u, p).next = l.next

LEMMA LoopGoesOn ==
    ASSUME NEW s \in Seq(Char), NEW u \in Seq(Char)
    PROVE  \A p \in 1..Len(s) + 1 : GoesOn(s, u, p)
<1> DEFINE t == s \o u
           n == Len(s)
           Bad == {k \in 0..n : ~ GoesOn(s, u, (n + 1) - k)}
<1>1. n \in Nat /\ t \in Seq(Char) /\ Len(t) = n + Len(u) /\ Len(u) \in Nat  BY ConcatFacts
<1>2. SUFFICES Bad = {}
  <2> SUFFICES ASSUME NEW p \in 1..n + 1 PROVE GoesOn(s, u, p)  OBVIOUS
  <2> DEFINE k == (n + 1) - p
  <2>1. k \in 0..n /\ (n + 1) - k = p  BY <1>1
  <2> HIDE DEF k
  <2>2. k \notin Bad  BY <1>2
  <2> QED  BY <2>1, <2>2
<1>3. SUFFICES ASSUME Bad # {} PROVE FALSE  OBVIOUS
<1>4. Bad \in SUBSET Nat  BY <1>1
<1> HIDE DEF Bad, t
<1>5. PICK k \in Bad : \A l \in Bad : k <= l  BY <1>3, <1>4, Smallest
<1> DEFINE p == (n + 1) - k
<1>6. k \in 0..n /\ ~ GoesOn(s, u, p)  BY DEF Bad
<1>7. p \in 1..n + 1 /\ p \in Int /\ k = (n + 1) - p  BY <1>1, <1>6
<1> HIDE DEF p
<1>8. p \in 1..Len(t) + 1  BY <1>1, <1>7
<1>9. CASE Ends(s, p)
  <2>1. Loop(s, p).values = << >> /\ Loop(s, p).last = p  BY <1>7, <1>9, LoopFacts
  <2>2. Loop(t, p).values \in Seq(Value)  BY <1>1, <1>8, LoopFacts
  <2>3. << >> \o Loop(t, p).values = Loop(t, p).values  BY <2>2, ConcatEmptySeq
  <2>4. GoesOn(s, u, p)  BY <2>1, <2>3 DEF GoesOn, t
  <2> QED  BY <2>4, <1>6
<1>10. CASE ~ Ends(s, p)
  <2> DEFINE q == ToData(s, p).next
             v == ToData(s, p).value
             l == (n + 1) - q
  <2>1. /\ q \in p..n + 1 /\ q > p /\ q # n + 1 /\ v \in Value
    BY <1>7, <1>10, ToDataType DEF Ends, Value
  <2>2. l \in 0..n /\ ~ (k <= l) /\ (n + 1) - l = q /\ q <= n /\ q \in 1..n + 1
    BY <1>1, <1>7, <2>1
  <2>3. GoesOn(s, u, q)
    <3> HIDE DEF q, l
    <3>1. l \notin Bad  BY <2>2, <1>5
    <3> QED  BY <2>2, <3>1 DEF Bad
  <2>4. /\ Loop(s, p).values = <<v>> \o Loop(s, q).values
        /\ Loop(s, p).last = Loop(s, q).last
    BY <1>7, <1>10, LoopFacts
  <2>5. ToData(t, p).next = q /\ ~ ToData(t, p).failed /\ ToData(t, p).value = v
    BY <2>2, <1>7, <1>10, ToDataPrefix DEF Ends, t
  <2>6. ~ Ends(t, p)
    <3> HIDE DEF q
    <3>1. q # Len(t) + 1  BY <2>2, <1>1
    <3> QED  BY <3>1, <2>5 DEF Ends
  <2>7. /\ Loop(t, p).values = <<v>> \o Loop(t, q).values
        /\ Loop(t, p).last = Loop(t, q).last /\ Loop(t, p).next = Loop(t, q).next
    <3> HIDE DEF q, v
    <3>1. /\ Loop(t, p).values = <<ToData(t, p).value>> \o Loop(t, ToData(t, p).next).values
          /\ Loop(t, p).last = Loop(t, ToData(t, p).next).last
          /\ Loop(t, p).next = Loop(t, ToData(t, p).next).next
      BY <2>6, <1>1, <1>8, LoopFacts
    <3> QED  BY <3>1, <2>5
  <2> HIDE DEF q, v
  <2> DEFINE z == Loop(s, q).last
             A == Loop(s, q).values
             B == Loop(t, z).values
  <2>8. A \in Seq(Value) /\ z \in q..n + 1  BY <2>2, LoopFacts
  <2>9. z \in 1..Len(t) + 1  BY <2>2, <2>8, <1>1
  <2>10. B \in Seq(Value)
    <3> HIDE DEF z
    <3> QED  BY <2>9, <1>1, LoopFacts
  <2>11. /\ Loop(t, q).values = A \o B
         /\ Loop(t, q).last = Loop(t, z).last /\ Loop(t, q).next = Loop(t, z).next
    BY <2>3 DEF GoesOn, t
  <2>12. Loop(s, p).values = <<v>> \o A /\ Loop(s, p).last = z  BY <2>4
  <2>13. /\ Loop(t, p).values = <<v>> \o (A \o B)
         /\ Loop(t, p).last = Loop(t, z).last /\ Loop(t, p).next = Loop(t, z).next
    BY <2>7, <2>11
  <2> HIDE DEF A, B
  <2>14. <<v>> \o (A \o B) = (<<v>> \o A) \o B
    <3>1. v \in Value /\ A \in Seq(Value) /\ B \in Seq(Value)  BY <2>1, <2>8, <2>10
    <3> QED  BY <3>1, ValueFirst, Zenon
  <2>15. GoesOn(s, u, p)  BY <2>12, <2>13, <2>14 DEF GoesOn, B, t
  <2> QED  BY <2>15, <1>6
<1> QED  BY <1>9, <1>10

-----------------------------------------------------------------------------
(* toDataPrefix(). *)

\* The object a value is converted from: the fragment from its first character that is not white
\* space, the text to its first white space, and white space.
IsJoined(f, text, a, w, c, J) ==
    /\ a \in 1..Len(f) /\ f[a] # Space /\ (\A m \in 1..a - 1 : f[m] = Space)
    /\ w \in 1..Len(text) + 1 /\ (\A m \in 1..w - 1 : text[m] # Space)
    /\ w <= Len(text) => text[w] = Space
    /\ c \in 1..Len(f) /\ a + c = Len(f) + 1
    /\ J \in Seq(Char) /\ Len(J) = c + w
    /\ \A m \in 1..c : J[m] = f[(a + m) - 1]
    /\ \A m \in 1..w - 1 : J[c + m] = text[m]
    /\ J[1] # Space /\ J[Len(J)] = Space
    /\ ToData(J, 1).next \in 1..Len(J)

LEMMA JoinedFacts ==
    ASSUME NEW f \in Seq(Char), ~ WhiteSpaceOnly(f), NEW text \in Seq(Char)
    PROVE  IsJoined(f, text, After({Space}, f, 1), After(Char \ {Space}, text, 1),
                    PrefixSize(f), Joined(f, text))
<1>0. SUFFICES ASSUME NEW a, a = After({Space}, f, 1), NEW w, w = After(Char \ {Space}, text, 1),
                      NEW c, c = PrefixSize(f), NEW J, J = Joined(f, text)
               PROVE  IsJoined(f, text, a, w, c, J)
  OBVIOUS
<1> DEFINE x == Len(f)
           y == Len(text)
<1>1. x \in Nat /\ y \in Nat  OBVIOUS
<1>2. IsAfter({Space}, f, 1, a)
  <2>1. 1 \in 1..Len(f) + 1  BY <1>1
  <2> QED  BY <2>1, <1>0, AfterFacts
<1>3. a \in 1..x + 1 /\ (\A m \in 1..a - 1 : f[m] = Space) /\ (a <= x => f[a] # Space)
  BY <1>2 DEF IsAfter
<1>4. a \in 1..x
  <2>1. PICK i \in 1..x : f[i] # Space  BY DEF WhiteSpaceOnly
  <2>2. i \notin 1..a - 1  BY <2>1, <1>3
  <2> QED  BY <2>1, <2>2, <1>1, <1>3
<1>5. IsAfter(Char \ {Space}, text, 1, w)
  <2>1. 1 \in 1..Len(text) + 1  BY <1>1
  <2> QED  BY <2>1, <1>0, AfterFacts
<1>6. /\ w \in 1..y + 1 /\ (\A m \in 1..w - 1 : text[m] \in Char \ {Space})
      /\ w <= y => text[w] \notin Char \ {Space}
  BY <1>5 DEF IsAfter
<1>7. \A m \in 1..y : text[m] \in Char  OBVIOUS
<1>8. w <= y => text[w] = Space  BY <1>1, <1>6, <1>7
<1>9. c \in 1..x /\ a + c = x + 1 /\ x - a + 1 = c  BY <1>0, <1>1, <1>4 DEF PrefixSize
<1> DEFINE A == SubSeq(f, a, x)
           B == SubSeq(text, 1, w - 1)
<1>10. A \in Seq(Char) /\ Len(A) = c /\ \A m \in 1..c : A[m] = f[a + m - 1]
  <2>1. a \in Nat \ {0} /\ x \in 0..Len(f) /\ a <= x + 1  BY <1>1, <1>4
  <2>2. /\ A \in Seq(Char) /\ (a <= x + 1 => Len(A) = x - a + 1)
        /\ \A m \in 1..x - a + 1 : A[m] = f[a + m - 1]
    <3> HIDE DEF x
    <3> USE DEF A
    <3>1. A \in Seq(Char)  BY <2>1, PartFacts
    <3>2. a <= x + 1 => Len(A) = x - a + 1  BY <2>1, PartFacts
    <3>3. \A m \in 1..x - a + 1 : A[m] = f[a + m - 1]  BY <2>1, PartFacts
    <3> QED  BY <3>1, <3>2, <3>3
  <2> QED  BY <2>1, <2>2, <1>9
<1>11. B \in Seq(Char) /\ Len(B) = w - 1 /\ \A m \in 1..w - 1 : B[m] = text[m]
  <2> DEFINE v == w - 1
  <2>1. 1 \in Nat \ {0} /\ v \in 0..Len(text) /\ 1 <= v + 1 /\ v - 1 + 1 = v  BY <1>1, <1>6
  <2> HIDE DEF v
  <2>2. /\ SubSeq(text, 1, v) \in Seq(Char) /\ (1 <= v + 1 => Len(SubSeq(text, 1, v)) = v - 1 + 1)
        /\ \A m \in 1..v - 1 + 1 : SubSeq(text, 1, v)[m] = text[1 + m - 1]
    BY <2>1, PartFacts
  <2>3. \A m \in 1..v : 1 + m - 1 = m  BY <2>1
  <2>4. SubSeq(text, 1, v) \in Seq(Char) /\ Len(SubSeq(text, 1, v)) = v
        /\ \A m \in 1..v : SubSeq(text, 1, v)[m] = text[m]
    BY <2>1, <2>2, <2>3
  <2> QED  BY <2>4 DEF v
<1>12. J = (A \o B) \o <<Space>>  BY <1>0 DEF Joined
<1>13. <<Space>> \in Seq(Char) /\ Len(<<Space>>) = 1 /\ <<Space>>[1] = Space  BY DEF Char
<1> HIDE DEF A, B, x, y
<1> DEFINE AB == A \o B
           sp == <<Space>>
<1>14. /\ AB \in Seq(Char) /\ Len(AB) = c + (w - 1)
       /\ \A m \in 1..c : AB[m] = A[m]
       /\ \A m \in 1..w - 1 : AB[c + m] = B[m]
  <2>1. A \in Seq(Char) /\ B \in Seq(Char) /\ Len(A) = c /\ Len(B) = w - 1  BY <1>10, <1>11
  <2>2. /\ AB \in Seq(Char) /\ Len(AB) = Len(A) + Len(B)
        /\ \A m \in 1..Len(A) : AB[m] = A[m]
        /\ \A m \in 1..Len(B) : AB[Len(A) + m] = B[m]
    <3>1. AB \in Seq(Char) /\ Len(AB) = Len(A) + Len(B)  BY <2>1, ConcatFacts
    <3>2. \A m \in 1..Len(A) : AB[m] = A[m]  BY <2>1, ConcatFacts
    <3>3. \A m \in 1..Len(B) : AB[Len(A) + m] = B[m]  BY <2>1, ConcatFacts
    <3> QED  BY <3>1, <3>2, <3>3
  <2> HIDE DEF AB
  <2> QED  BY <2>1, <2>2
<1> HIDE DEF AB, sp
<1>15. /\ J \in Seq(Char) /\ Len(J) = Len(AB) + Len(sp)
       /\ \A m \in 1..Len(AB) : J[m] = AB[m]
       /\ \A m \in 1..Len(sp) : J[Len(AB) + m] = sp[m]
  <2>1. AB \in Seq(Char) /\ sp \in Seq(Char) /\ J = AB \o sp  BY <1>12, <1>13, <1>14 DEF AB, sp
  <2>2. /\ AB \o sp \in Seq(Char) /\ Len(AB \o sp) = Len(AB) + Len(sp)
        /\ \A m \in 1..Len(AB) : (AB \o sp)[m] = AB[m]
        /\ \A m \in 1..Len(sp) : (AB \o sp)[Len(AB) + m] = sp[m]
    BY <2>1, ConcatFacts
  <2> QED  BY <2>1, <2>2
<1>16. Len(sp) = 1 /\ sp[1] = Space  BY <1>13 DEF sp
<1>17. Len(J) = c + w /\ J[Len(J)] = Space
  <2>1. Len(J) = Len(AB) + 1 /\ J[Len(AB) + 1] = Space  BY <1>15, <1>16
  <2>2. Len(AB) + 1 = c + w  BY <1>14, <1>9, <1>6
  <2> QED  BY <2>1, <2>2
<1>18. \A m \in 1..c : J[m] = f[(a + m) - 1]
  <2> SUFFICES ASSUME NEW m \in 1..c PROVE J[m] = f[(a + m) - 1]  OBVIOUS
  <2>1. m \in 1..Len(AB) /\ a + m - 1 = (a + m) - 1  BY <1>14, <1>9, <1>6, <1>4
  <2>2. J[m] = AB[m]  BY <2>1, <1>15
  <2>3. AB[m] = A[m]  BY <1>14
  <2>4. A[m] = f[a + m - 1]  BY <1>10
  <2> QED  BY <2>1, <2>2, <2>3, <2>4
<1>19. \A m \in 1..w - 1 : J[c + m] = text[m]
  <2> SUFFICES ASSUME NEW m \in 1..w - 1 PROVE J[c + m] = text[m]  OBVIOUS
  <2>1. c + m \in 1..Len(AB)  BY <1>14, <1>9, <1>6
  <2>2. J[c + m] = AB[c + m]  BY <2>1, <1>15
  <2>3. AB[c + m] = B[m]  BY <1>14
  <2> QED  BY <2>2, <2>3, <1>11
<1>20. J[1] # Space
  <2>1. 1 \in 1..c /\ (a + 1) - 1 = a  BY <1>9, <1>4, <1>1 DEF x
  <2>2. J[1] = f[(a + 1) - 1]  BY <2>1, <1>18
  <2>3. f[a] # Space  BY <1>3, <1>4
  <2> QED  BY <2>1, <2>2, <2>3
<1>21. ToData(J, 1).next \in 1..Len(J)
  <2>1. Len(J) \in Nat /\ Len(J) > 0 /\ 1 \in 1..Len(J) + 1 /\ 1 \in 1..Len(J)  BY <1>17, <1>9, <1>6, <1>1
  <2>2. ToData(J, 1).next \in 1..Len(J) + 1  BY <2>1, <1>15, ToDataType
  <2>3. ToData(J, 1).next # Len(J) + 1
    <3> SUFFICES ASSUME ToData(J, 1).next = Len(J) + 1 PROVE FALSE  OBVIOUS
    <3>1. \A m \in 1..Len(J) : J[m] = Space  BY <2>1, <1>15, <1>17, EndsWithSpace
    <3> QED  BY <3>1, <2>1, <1>20
  <2> QED  BY <2>1, <2>2, <2>3
<1>22. /\ a \in 1..Len(f) /\ w \in 1..Len(text) + 1 /\ c \in 1..Len(f) /\ a + c = Len(f) + 1
       /\ w <= Len(text) => text[w] = Space
  BY <1>4, <1>6, <1>8, <1>9 DEF x, y
<1>23. f[a] # Space /\ (\A m \in 1..a - 1 : f[m] = Space) /\ (\A m \in 1..w - 1 : text[m] # Space)
  <2>1. f[a] # Space  BY <1>3, <1>4
  <2>2. \A m \in 1..w - 1 : text[m] # Space  BY <1>6
  <2> QED  BY <2>1, <2>2, <1>3
<1> QED  BY <1>15, <1>17, <1>18, <1>19, <1>20, <1>21, <1>22, <1>23 DEF IsJoined

-----------------------------------------------------------------------------
(* A piece of text, when the variables have their types. *)

\* The fragment, and what comes of it and the text.
LEMMA FragmentFacts ==
    ASSUME TypeOK, fragment # 0
    PROVE  /\ Len(stack) \in Nat /\ Len(stack) > 0 /\ fragment = Len(stack)
           /\ stack[fragment] \in Seq(Char) /\ ~ WhiteSpaceOnly(stack[fragment])
<1>1. /\ stack \in Seq(Seq(Char)) /\ fragment = Len(stack) /\ ~ WhiteSpaceOnly(stack[fragment])
  BY DEF TypeOK
<1>2. Len(stack) \in Nat /\ Len(stack) > 0  BY <1>1
<1>3. stack[fragment] \in Seq(Char)  BY <1>1, <1>2
<1> QED  BY <1>1, <1>2, <1>3

LEMMA PieceFacts ==
    ASSUME NEW text \in Piece
    PROVE  text \in Seq(Char) /\ Len(text) \in Nat \ {0} /\ Last(text) = text[Len(text)]
<1>1. text \in Seq(Char) /\ text # << >>  BY TextAssumption
<1>2. Len(text) \in Nat \ {0}  BY <1>1, EmptySeq
<1> QED  BY <1>1, <1>2 DEF Last

LEMMA BegunFacts ==
    ASSUME TypeOK, NEW text \in Piece
    PROVE  /\ fragment = 0 => /\ Begun(text).stack = stack /\ Begun(text).values = << >>
                              /\ Begun(text).next = 1 /\ ~ Begun(text).failed
           /\ fragment # 0 => LET J == Joined(stack[fragment], text)
                              IN /\ Begun(text).stack = Append(stack, J)
                                 /\ Begun(text).values = <<ToData(J, 1).value>>
                                 /\ Begun(text).next = ToData(J, 1).next - PrefixSize(stack[fragment])
                                 /\ Begun(text).failed <=> ToData(J, 1).failed
                                 /\ J \in Seq(Char)
           /\ Begun(text).next \in Int /\ Begun(text).next <= Len(text) + 1
           /\ Begun(text).next = Len(text) + 1 => fragment # 0 /\ Last(text) # Space
           /\ Begun(text).values \in Seq(Value)
           /\ Begun(text).values = << >> => fragment = 0
           /\ Overrun(text) \in Nat /\ Begun(text).next + Overrun(text) >= 1
           /\ Begun(text).next >= 1 => Overrun(text) = 0
<1>1. text \in Seq(Char) /\ Len(text) \in Nat \ {0} /\ Last(text) = text[Len(text)]  BY PieceFacts
<1> DEFINE b == Begun(text)
<1>2. ASSUME fragment = 0
      PROVE  b.stack = stack /\ b.values = << >> /\ b.next = 1 /\ ~ b.failed
  <2>1. b = [stack |-> stack, values |-> << >>, next |-> 1, failed |-> FALSE]  BY <1>2 DEF Begun
  <2> QED  BY <2>1
<1>3. ASSUME fragment # 0
      PROVE  LET J == Joined(stack[fragment], text)
             IN /\ b.stack = Append(stack, J) /\ b.values = <<ToData(J, 1).value>>
                /\ b.next = ToData(J, 1).next - PrefixSize(stack[fragment])
                /\ b.failed <=> ToData(J, 1).failed
                /\ J \in Seq(Char)
                /\ b.next \in Int /\ b.next <= Len(text) + 1
                /\ b.next = Len(text) + 1 => Last(text) # Space
                /\ b.values \in Seq(Value)
  <2> DEFINE f == stack[fragment]
             J == Joined(f, text)
             d == ToData(J, 1)
             c == PrefixSize(f)
             a == After({Space}, f, 1)
             w == After(Char \ {Space}, text, 1)
             next == d.next
             value == d.value
             failed == d.failed
             under == Append(stack, J)
  <2>1. f \in Seq(Char) /\ ~ WhiteSpaceOnly(f)  BY <1>3, FragmentFacts
  <2>2. b = [stack |-> under, values |-> <<value>>, next |-> next - c, failed |-> failed]
    BY <1>3 DEF Begun
  <2>3. /\ w \in 1..Len(text) + 1 /\ (\A m \in 1..w - 1 : text[m] # Space)
        /\ c \in 1..Len(f) /\ J \in Seq(Char) /\ Len(J) = c + w
        /\ d.next \in 1..Len(J)
    <3> HIDE DEF f
    <3>1. IsJoined(f, text, a, w, c, J)  BY <2>1, <1>1, JoinedFacts
    <3> HIDE DEF a, w, c, J
    <3> QED  BY <3>1 DEF IsJoined
  <2>4. value \in Value
    <3> HIDE DEF J
    <3>1. 1 \in 1..Len(J) + 1  BY <2>3
    <3> QED  BY <2>3, <3>1, ToDataType DEF Value
  <2>5. next \in 1..c + w  BY <2>3
  <2> HIDE DEF b, f, J, c, w, next, value, failed, under
  <2>6. b.stack = under /\ b.values = <<value>> /\ b.next = next - c  BY <2>2
  <2>7. b.failed = failed  BY <2>2
  <2>8. b.failed <=> failed  BY <2>7, Zenon
  <2>9. next - c \in Int /\ next - c <= w /\ w <= Len(text) + 1
    BY <2>3, <2>5, <1>1
  <2>10. ASSUME next - c = Len(text) + 1 PROVE Last(text) # Space
    <3>1. w = Len(text) + 1  BY <2>9, <2>10, <2>3, <1>1
    <3>2. Len(text) \in 1..w - 1  BY <3>1, <1>1
    <3> QED  BY <3>2, <2>3, <1>1
  <2>11. b.next \in Int /\ b.next <= Len(text) + 1
    <3>1. w \in Int /\ Len(text) \in Int  BY <2>3, <1>1
    <3> QED  BY <3>1, <2>6, <2>9
  <2>12. b.next = Len(text) + 1 => Last(text) # Space  BY <2>6, <2>10
  <2>13. b.values \in Seq(Value)  BY <2>6, <2>4
  <2>14. J \in Seq(Char)  BY <2>3
  <2> QED  BY <2>6, <2>8, <2>11, <2>12, <2>13, <2>14 DEF f, J, c, w, next, value, failed, under
<1>4. <<ToData(Joined(stack[fragment], text), 1).value>> # << >>  OBVIOUS
<1> HIDE DEF b
<1>5. b.next \in Int /\ b.next <= Len(text) + 1  BY <1>1, <1>2, <1>3
<1>6. Overrun(text) = IF b.next < 1 THEN 1 - b.next ELSE 0  BY DEF Overrun, b
<1>7. Overrun(text) \in Nat /\ b.next + Overrun(text) >= 1 /\ (b.next >= 1 => Overrun(text) = 0)
  BY <1>5, <1>6
<1>8. b.next = Len(text) + 1 => fragment # 0  BY <1>1, <1>2
<1>9. b.values = << >> => fragment = 0  BY <1>3, <1>4
<1>10. b.values \in Seq(Value)
  <2>1. CASE fragment = 0
    <3>1. b.values = << >>  BY <1>2, <2>1
    <3> QED  BY <3>1
  <2>2. CASE fragment # 0  BY <1>3, <2>2
  <2> QED  BY <2>1, <2>2
<1> QED  BY <1>2, <1>3, <1>5, <1>7, <1>8, <1>9, <1>10 DEF b

\* The text, and what is read before it.
LEMMA ReadFacts ==
    ASSUME TypeOK, NEW text \in Piece, NEW before \in [1..Overrun(text) -> Char],
           NEW read, read = before \o text
    PROVE  /\ read \in Seq(Char) /\ Len(read) = Overrun(text) + Len(text)
           /\ Len(read) \in Nat \ {0} /\ read[Len(read)] = Last(text)
           /\ Overrun(text) = 0 => read = text
<1>1. text \in Seq(Char) /\ Len(text) \in Nat \ {0} /\ Last(text) = text[Len(text)]  BY PieceFacts
<1>2. Overrun(text) \in Nat  BY BegunFacts
<1>3. before \in Seq(Char) /\ Len(before) = Overrun(text)
  <2> DEFINE n == Overrun(text)
  <2>1. n \in Nat /\ before \in [1..n -> Char]  BY <1>2
  <2> HIDE DEF n
  <2>2. before \in Seq(Char) /\ Len(before) = n  BY <2>1
  <2> QED  BY <2>2 DEF n
<1>4. /\ read \in Seq(Char) /\ Len(read) = Len(before) + Len(text)
      /\ \A i \in 1..Len(text) : read[Len(before) + i] = text[i]
  <2>1. text \in Seq(Char) /\ before \in Seq(Char)  BY <1>1, <1>3
  <2>2. read \in Seq(Char) /\ Len(read) = Len(before) + Len(text)  BY <2>1, ConcatFacts
  <2>3. \A i \in 1..Len(text) : (before \o text)[Len(before) + i] = text[i]
    BY <2>1, ConcatFacts
  <2> QED  BY <2>2, <2>3
<1>5. Len(read) = Overrun(text) + Len(text) /\ read[Len(read)] = Last(text)
  BY <1>1, <1>3, <1>4
<1>6. ASSUME Overrun(text) = 0 PROVE read = text
  <2>1. before = << >>  BY <1>3, <1>6, EmptySeq
  <2> QED  BY <2>1, <1>1, ConcatEmptySeq
<1> QED  BY <1>1, <1>2, <1>4, <1>5, <1>6

\* What the loop makes of them.
LEMMA ConvertedFacts ==
    ASSUME TypeOK, NEW text \in Piece, NEW before \in [1..Overrun(text) -> Char],
           NEW read, read = before \o text
    PROVE  /\ Converted(text, read).values \in Seq(Value)
           /\ Converted(text, read).last \in 1..Len(read) + 1
           /\ Rest(text, read) \in Seq(Char)
           /\ ReachesEnd(text, read) /\ Last(text) = Space => WhiteSpaceOnly(Rest(text, read))
<1> DEFINE c == Converted(text, read)
           b == Begun(text)
           p == b.next + Overrun(text)
           l == Loop(read, p)
<1>1. /\ read \in Seq(Char) /\ Len(read) = Overrun(text) + Len(text)
      /\ Len(read) \in Nat \ {0} /\ read[Len(read)] = Last(text)
  BY ReadFacts
<1>2. /\ b.next \in Int /\ b.next <= Len(text) + 1 /\ b.values \in Seq(Value)
      /\ Overrun(text) \in Nat /\ p >= 1
      /\ b.next = Len(text) + 1 => Last(text) # Space
  BY BegunFacts
<1>3. Len(text) \in Nat  BY PieceFacts
<1>4. p \in 1..Len(read) + 1  BY <1>1, <1>2, <1>3
<1>5. CASE b.next = Len(text) + 1
  <2>1. c = [values |-> << >>, last |-> 1, next |-> Len(text) + 1]  BY <1>5 DEF Converted
  <2>2. c.values \in Seq(Value) /\ c.last = 1  BY <2>1
  <2> QED
    <3>1. Rest(text, read) \in Seq(Char)
      <4>1. Rest(text, read) = SubSeq(read, 1, Len(read))  BY <2>2 DEF Rest
      <4> QED  BY <4>1, <1>1, SubSeqFull
    <3>2. 1 \in 1..Len(read) + 1  BY <1>1
    <3> QED  BY <3>1, <3>2, <2>2, <1>5, <1>2
<1>6. CASE b.next # Len(text) + 1
  <2>1. c = [l EXCEPT !.values = b.values \o @]  BY <1>6 DEF Converted
  <2>2. /\ l.values \in Seq(Value) /\ l.last \in p..Len(read) + 1 /\ l.next \in p..Len(read) + 1
        /\ Ends(read, l.last) /\ l.next = ToData(read, l.last).next
        /\ l = [values |-> l.values, last |-> l.last, next |-> l.next]
    <3> HIDE DEF p
    <3> QED  BY <1>1, <1>4, LoopFacts
  <2>3. c.values = b.values \o l.values /\ c.last = l.last /\ c.next = l.next
    <3> HIDE DEF l, b
    <3> DEFINE v == l.values
               x == l.last
               n == l.next
    <3>1. l = [values |-> v, last |-> x, next |-> n]  BY <2>2
    <3> HIDE DEF v, x, n
    <3>2. l.values = v  BY <3>1
    <3>3. c = [values |-> b.values \o v, last |-> x, next |-> n]  BY <2>1, <3>1
    <3> HIDE DEF c
    <3>4. c.values = b.values \o v /\ c.last = x /\ c.next = n  BY <3>3
    <3> QED  BY <3>4 DEF v, x, n
  <2> HIDE DEF c, l, b
  <2>4. c.values \in Seq(Value)  BY <2>2, <2>3, <1>2
  <2>5. c.last \in 1..Len(read) + 1 /\ c.last \in Nat \ {0} /\ Len(read) \in 0..Len(read)
    BY <2>2, <2>3, <1>1, <1>4
  <2>6. Rest(text, read) = SubSeq(read, c.last, Len(read))  BY DEF Rest, c
  <2>7. Rest(text, read) \in Seq(Char)
    <3> DEFINE x == c.last
               n == Len(read)
    <3>1. x \in Nat \ {0} /\ n \in 0..Len(read)  BY <2>5
    <3> HIDE DEF x, n
    <3>2. SubSeq(read, x, n) \in Seq(Char)  BY <3>1, <1>1, PartFacts
    <3> QED  BY <3>2, <2>6 DEF x, n
  <2>8. ASSUME ReachesEnd(text, read), Last(text) = Space PROVE WhiteSpaceOnly(Rest(text, read))
    <3> DEFINE x == c.last
               n == Len(read)
               R == SubSeq(read, x, n)
    <3>1. c.next = Len(read) + 1  BY <2>8 DEF ReachesEnd, c
    <3>2. ToData(read, c.last).next = Len(read) + 1  BY <3>1, <2>2, <2>3
    <3>3. \A m \in x..n : read[m] = Space
      <4> HIDE DEF x
      <4>1. x \in 1..Len(read) + 1 /\ ToData(read, x).next = Len(read) + 1
        BY <3>2, <2>5 DEF x
      <4>2. read \in Seq(Char) /\ Len(read) > 0 /\ read[Len(read)] = Space  BY <2>8, <1>1
      <4> QED  BY <4>1, <4>2, EndsWithSpace
    <3>4. x \in Nat \ {0} /\ n \in 0..Len(read) /\ n \in Nat /\ x <= n + 1  BY <2>5, <1>1
    <3> HIDE DEF x, n
    <3>r. read \in Seq(Char)  BY <1>1
    <3>5. x <= n + 1 => Len(R) = n - x + 1  BY <3>r, <3>4, PartFacts
    <3>6. \A i \in 1..n - x + 1 : R[i] = read[x + i - 1]
      <4>1. x \in Nat \ {0} /\ n \in 0..Len(read)  BY <3>4
      <4> QED  BY <3>r, <4>1, PartFacts
    <3> HIDE DEF R
    <3>7. \A i \in 1..Len(R) : R[i] = Space
      <4> SUFFICES ASSUME NEW i \in 1..Len(R) PROVE R[i] = Space  OBVIOUS
      <4>1. i \in 1..n - x + 1 /\ x + i - 1 \in x..n  BY <3>4, <3>5
      <4> QED  BY <4>1, <3>6, <3>3
    <3> QED  BY <3>7, <2>6 DEF WhiteSpaceOnly, R, x, n
  <2> QED  BY <2>4, <2>5, <2>7, <2>8 DEF c
<1> QED  BY <1>5, <1>6

-----------------------------------------------------------------------------
(* The stack. *)

LEMMA AppendFacts ==
    ASSUME NEW S, NEW s \in Seq(S), NEW e \in S
    PROVE  /\ Append(s, e) \in Seq(S) /\ Len(Append(s, e)) = Len(s) + 1
           /\ \A i \in 1..Len(s) : Append(s, e)[i] = s[i]
           /\ Append(s, e)[Len(s) + 1] = e
  OBVIOUS

LEMMA FrontOfAppend ==
    ASSUME NEW S, NEW s \in Seq(S), NEW e \in S
    PROVE  Front(Append(s, e)) = s /\ Last(Append(s, e)) = e
<1> DEFINE a == Append(s, e)
<1>1. /\ a \in Seq(S) /\ Len(a) = Len(s) + 1
      /\ (\A i \in 1..Len(s) : a[i] = s[i]) /\ a[Len(s) + 1] = e
  OBVIOUS
<1>2. Len(s) \in Nat  OBVIOUS
<1> HIDE DEF a
<1>3. Front(a) \in Seq(S) /\ Len(Front(a)) = Len(a) - 1
  <2>1. Len(a) > 0  BY <1>1, <1>2
  <2>2. Front(a) \in Seq(S)  BY <2>1, <1>1, FrontFacts
  <2>3. Len(Front(a)) = Len(a) - 1  BY <2>1, <1>1, FrontFacts
  <2> QED  BY <2>2, <2>3
<1>4. \A i \in 1..Len(a) - 1 : Front(a)[i] = a[i]
  <2>1. Len(a) > 0  BY <1>1, <1>2
  <2> QED  BY <2>1, <1>1, FrontFacts
<1>5. Len(Front(a)) = Len(s) /\ \A i \in 1..Len(Front(a)) : Front(a)[i] = s[i]
  <2>1. Len(Front(a)) = Len(s) /\ Len(a) - 1 = Len(s)  BY <1>1, <1>2, <1>3
  <2> QED  BY <2>1, <1>4, <1>1
<1>6. Front(a) = s
  <2> DEFINE t == Front(a)
  <2>1. t \in Seq(S) /\ Len(t) = Len(s) /\ \A i \in 1..Len(t) : t[i] = s[i]  BY <1>3, <1>5
  <2> HIDE DEF t
  <2>2. t = s  BY <2>1, SeqEqual
  <2> QED  BY <2>2 DEF t
<1>7. Last(a) = e  BY <1>1 DEF Last
<1> QED  BY <1>6, <1>7 DEF a

\* What is on the stack below the fragment.
Under == IF fragment = 0 THEN stack ELSE Front(stack)

\* A new fragment on top of s.
Puts(s) == \E o \in Seq(Char) : /\ ~ WhiteSpaceOnly(o)
                                /\ stack' = Append(s, o) /\ fragment' = Len(stack')

\* What a step does to the stack: nothing is left of the fragment, or there is a new one, on what
\* is on the stack, or on that and the object that a value was converted from.
Drops == stack' = Under /\ fragment' = 0

Keeps == \/ Puts(stack)
         \/ fragment # 0 /\ \E J \in Seq(Char) : Puts(Append(stack, J))

LEMMA ClearedDrops ==
    ASSUME TypeOK, NEW text \in Piece, Cleared(Begun(text).stack)
    PROVE  Drops
<1>1. CASE fragment = 0
  <2>1. stack' = stack  BY <1>1, BegunFacts DEF Cleared
  <2> QED  BY <2>1, <1>1 DEF Drops, Under, Cleared
<1>2. CASE fragment # 0
  <2> DEFINE J == Joined(stack[fragment], text)
  <2>1. Begun(text).stack = Append(stack, J) /\ J \in Seq(Char)  BY <1>2, BegunFacts
  <2> HIDE DEF J
  <2>2. stack \in Seq(Seq(Char))  BY DEF TypeOK
  <2>3. Front(Append(stack, J)) = stack  BY <2>1, <2>2, FrontOfAppend
  <2>4. stack' = Front(Front(Append(stack, J)))  BY <2>1, <1>2 DEF Cleared
  <2> QED  BY <2>3, <2>4, <1>2 DEF Drops, Under, Cleared
<1> QED  BY <1>1, <1>2

LEMMA NewFragmentKeeps ==
    ASSUME TypeOK, NEW text \in Piece, NEW before \in [1..Overrun(text) -> Char],
           NEW read, read = before \o text, NewFragment(text, read)
    PROVE  Keeps
<1> DEFINE o == Rest(text, read)
<1>1. o \in Seq(Char) /\ ~ WhiteSpaceOnly(o)  BY ConvertedFacts DEF NewFragment
<1>2. stack' = Append(Begun(text).stack, o) /\ fragment' = Len(stack')  BY DEF NewFragment
<1> HIDE DEF o
<1>3. CASE fragment = 0
  <2>1. Begun(text).stack = stack  BY <1>3, BegunFacts
  <2> QED  BY <2>1, <1>1, <1>2 DEF Keeps, Puts
<1>4. CASE fragment # 0
  <2> DEFINE J == Joined(stack[fragment], text)
  <2>1. Begun(text).stack = Append(stack, J) /\ J \in Seq(Char)  BY <1>4, BegunFacts
  <2> HIDE DEF J
  <2>2. Puts(Append(stack, J))  BY <2>1, <1>1, <1>2 DEF Puts
  <2> QED  BY <2>1, <2>2, <1>4 DEF Keeps
<1> QED  BY <1>3, <1>4

LEMMA LongerFragmentKeeps ==
    ASSUME TypeOK, NEW text \in Piece, NEW before \in [1..Overrun(text) -> Char],
           NEW read, read = before \o text, LongerFragment(text, read)
    PROVE  fragment # 0 /\ Keeps
<1>1. fragment # 0  BY DEF LongerFragment, Reuses
<1> DEFINE J == Joined(stack[fragment], text)
           R == Rest(text, read)
           kept == Len(stack[fragment]) - 1
<1>2. Begun(text).stack = Append(stack, J) /\ J \in Seq(Char)  BY <1>1, BegunFacts
<1>3. R \in Seq(Char) /\ ~ WhiteSpaceOnly(R)  BY ConvertedFacts DEF LongerFragment
<1>4. stack \in Seq(Seq(Char))  BY DEF TypeOK
<1>5. Front(Append(stack, J)) = stack /\ Last(Append(stack, J)) = J
  <2> HIDE DEF J
  <2> QED  BY <1>2, <1>4, FrontOfAppend
<1>6. kept \in Nat
  <2>1. stack[fragment] \in Seq(Char) /\ ~ WhiteSpaceOnly(stack[fragment])  BY <1>1, FragmentFacts
  <2>2. Len(stack[fragment]) \in Nat /\ Len(stack[fragment]) # 0
    BY <2>1 DEF WhiteSpaceOnly
  <2> QED  BY <2>2
<1>7. PICK unwritten \in [Len(J) + 1..kept -> Char] :
          stack' = Append(stack, [i \in 1..kept |-> IF i <= Len(J) THEN J[i] ELSE unwritten[i]] \o R)
  BY <1>1, <1>2, <1>5 DEF LongerFragment
<1> DEFINE A == [i \in 1..kept |-> IF i <= Len(J) THEN J[i] ELSE unwritten[i]]
<1> HIDE DEF J, R, kept
<1>8. A \in Seq(Char) /\ Len(A) = kept
  <2>1. Len(J) \in Nat  BY <1>2
  <2>2. \A i \in 1..kept : A[i] \in Char
    <3> SUFFICES ASSUME NEW i \in 1..kept PROVE A[i] \in Char  OBVIOUS
    <3>1. CASE i <= Len(J)
      <4>1. i \in 1..Len(J)  BY <3>1, <2>1
      <4> QED  BY <4>1, <3>1, <1>2
    <3>2. CASE ~ (i <= Len(J))
      <4>1. i \in Len(J) + 1..kept  BY <3>2, <2>1, <1>6
      <4> QED  BY <4>1, <3>2, <1>7
    <3> QED  BY <3>1, <3>2
  <2>3. A \in [1..kept -> Char]
    <3>1. A = [i \in 1..kept |-> A[i]]  OBVIOUS
    <3> HIDE DEF A
    <3> QED  BY <3>1, <2>2
  <2> HIDE DEF A
  <2> QED  BY <2>3, <1>6
<1> HIDE DEF A
<1>9. A \o R \in Seq(Char)  BY <1>8, <1>3, ConcatFacts
<1>10. ~ WhiteSpaceOnly(A \o R)
  <2>1. PICK i \in 1..Len(R) : R[i] # Space  BY <1>3 DEF WhiteSpaceOnly
  <2>2. \A j \in 1..Len(R) : (A \o R)[Len(A) + j] = R[j]  BY <1>8, <1>3, ConcatFacts
  <2>3. Len(A \o R) = Len(A) + Len(R)  BY <1>8, <1>3, ConcatFacts
  <2>4. Len(A) \in Nat /\ Len(R) \in Nat  BY <1>3, <1>6, <1>8
  <2> DEFINE k == Len(A) + i
             c == A \o R
  <2>5. k \in 1..Len(c) /\ c[k] # Space  BY <2>1, <2>2, <2>3, <2>4
  <2> HIDE DEF k, c
  <2>6. ~ WhiteSpaceOnly(c)  BY <2>5 DEF WhiteSpaceOnly
  <2> QED  BY <2>6 DEF c
<1>11. stack' = Append(stack, A \o R) /\ fragment' = Len(stack')
  BY <1>7 DEF A, LongerFragment
<1> DEFINE o == A \o R
<1>12. o \in Seq(Char) /\ ~ WhiteSpaceOnly(o) /\ stack' = Append(stack, o)  BY <1>9, <1>10, <1>11
<1> HIDE DEF o
<1> QED  BY <1>1, <1>11, <1>12 DEF Keeps, Puts

\* All that a step can do to the stack; a new fragment does not come from a text that ends with
\* white space.
LEMMA StackStep ==
    ASSUME TypeOK, [Next]_vars
    PROVE  \/ UNCHANGED vars
           \/ Drops /\ pieces' = pieces
           \/ Drops /\ \E text \in Piece : pieces' = Append(pieces, text)
           \/ Keeps /\ \E text \in Piece : /\ pieces' = Append(pieces, text)
                                           /\ Last(text) # Space
                                           /\ fragment = 0 => Puts(stack)
<1>1. CASE UNCHANGED vars  BY <1>1
<1>2. ASSUME NEW goOn \in BOOLEAN, NEW text \in Piece, TextData(text, goOn)
      PROVE  \/ Drops /\ pieces' = Append(pieces, text)
             \/ Keeps /\ pieces' = Append(pieces, text) /\ Last(text) # Space
                /\ (fragment = 0 => Puts(stack))
  <2>1. pieces' = Append(pieces, text)  BY <1>2 DEF TextData
  <2>2. CASE FragmentFails(text, goOn)
    <3>1. Drops  BY <2>2, ClearedDrops DEF FragmentFails
    <3> QED  BY <2>1, <3>1
  <2>3. ASSUME NEW before \in [1..Overrun(text) -> Char], NEW read, read = before \o text,
               LoopFails(text, read, goOn) \/ NothingUnfinished(text, read)
        PROVE  Drops
    BY <2>3, ClearedDrops DEF LoopFails, NothingUnfinished
  <2>4. ASSUME NEW before \in [1..Overrun(text) -> Char], NEW read, read = before \o text,
               NewFragment(text, read) \/ LongerFragment(text, read)
        PROVE  Keeps /\ Last(text) # Space /\ (fragment = 0 => Puts(stack))
    <3>1. Keeps  BY <2>4, NewFragmentKeeps, LongerFragmentKeeps
    <3>2. Last(text) # Space
      <4>1. ReachesEnd(text, read) /\ ~ WhiteSpaceOnly(Rest(text, read))
        BY <2>4 DEF NewFragment, LongerFragment
      <4> QED  BY <4>1, <2>4, ConvertedFacts
    <3> QED  BY <3>1, <3>2 DEF Keeps
  <2>5. \/ FragmentFails(text, goOn)
        \/ \E before \in [1..Overrun(text) -> Char] :
              \/ LoopFails(text, before \o text, goOn)
              \/ NothingUnfinished(text, before \o text)
              \/ NewFragment(text, before \o text)
              \/ LongerFragment(text, before \o text)
    BY <1>2 DEF TextData
  <2> QED  BY <2>1, <2>2, <2>3, <2>4, <2>5
<1>3. ASSUME NEW goOn \in BOOLEAN, DataEnd(goOn)
      PROVE  Drops /\ pieces' = pieces
  BY <1>3 DEF DataEnd, EndsWith, Drops, Under
<1> QED  BY <1>1, <1>2, <1>3 DEF Next

\* The objects of the enclosing elements, with the fragment above.
EnclosedBelow(s) == /\ s \in Seq(Seq(Char)) /\ Len(s) >= Len(Enclosing)
                    /\ \A i \in 1..Len(Enclosing) : s[i] = Enclosing[i]

LEMMA EnclosedAppend ==
    ASSUME NEW s, EnclosedBelow(s), NEW o \in Seq(Char)
    PROVE  EnclosedBelow(Append(s, o))
<1>1. /\ s \in Seq(Seq(Char)) /\ Len(s) >= Len(Enclosing)
      /\ \A i \in 1..Len(Enclosing) : s[i] = Enclosing[i]
  BY DEF EnclosedBelow
<1>2. Len(s) \in Nat /\ Len(Enclosing) \in Nat  BY <1>1, TextAssumption
<1> DEFINE a == Append(s, o)
<1>3. /\ a \in Seq(Seq(Char)) /\ Len(a) = Len(s) + 1
      /\ \A i \in 1..Len(s) : a[i] = s[i]
  BY <1>1
<1> HIDE DEF a
<1>4. \A i \in 1..Len(Enclosing) : i \in 1..Len(s)  BY <1>1, <1>2
<1>5. EnclosedBelow(a)  BY <1>1, <1>2, <1>3, <1>4 DEF EnclosedBelow
<1> QED  BY <1>5 DEF a

LEMMA EnclosedFront ==
    ASSUME NEW s, EnclosedBelow(s), Len(s) > Len(Enclosing)
    PROVE  EnclosedBelow(Front(s))
<1>1. /\ s \in Seq(Seq(Char)) /\ Len(s) >= Len(Enclosing)
      /\ \A i \in 1..Len(Enclosing) : s[i] = Enclosing[i]
  BY DEF EnclosedBelow
<1>2. Len(s) \in Nat /\ Len(Enclosing) \in Nat /\ Len(s) > 0  BY <1>1, TextAssumption
<1> DEFINE f == Front(s)
<1>3. f \in Seq(Seq(Char))  BY <1>1, <1>2, FrontFacts
<1>4. Len(f) = Len(s) - 1  BY <1>1, <1>2, FrontFacts
<1>5. \A i \in 1..Len(s) - 1 : f[i] = s[i]  BY <1>1, <1>2, FrontFacts
<1> HIDE DEF f
<1>6. \A i \in 1..Len(Enclosing) : i \in 1..Len(s) - 1  BY <1>1, <1>2
<1>7. EnclosedBelow(f)  BY <1>1, <1>2, <1>3, <1>4, <1>5, <1>6 DEF EnclosedBelow
<1> QED  BY <1>7 DEF f

Enclosed == /\ TypeOK
            /\ EnclosedBelow(stack)
            /\ fragment # 0 => Len(stack) > Len(Enclosing)

LEMMA StackStepEnclosed ==
    ASSUME Enclosed, Drops \/ Keeps
    PROVE  /\ EnclosedBelow(stack')
           /\ fragment' # 0 => Len(stack') > Len(Enclosing)
           /\ fragment' = 0 \/ (fragment' = Len(stack') /\ ~ WhiteSpaceOnly(stack'[fragment']))
<1>1. /\ TypeOK /\ EnclosedBelow(stack) /\ (fragment # 0 => Len(stack) > Len(Enclosing))
      /\ Len(Enclosing) \in Nat
  BY TextAssumption DEF Enclosed
<1>2. ASSUME Drops
      PROVE  /\ EnclosedBelow(stack') /\ fragment' = 0
  BY <1>1, <1>2, EnclosedFront DEF Drops, Under
<1>3. ASSUME NEW s, EnclosedBelow(s), Puts(s)
      PROVE  /\ EnclosedBelow(stack') /\ Len(stack') > Len(Enclosing)
             /\ fragment' = Len(stack') /\ ~ WhiteSpaceOnly(stack'[fragment'])
  <2>1. PICK o \in Seq(Char) : /\ ~ WhiteSpaceOnly(o)
                               /\ stack' = Append(s, o) /\ fragment' = Len(stack')
    BY <1>3 DEF Puts
  <2>2. EnclosedBelow(stack')  BY <1>3, <2>1, EnclosedAppend
  <2>3. s \in Seq(Seq(Char)) /\ Len(s) >= Len(Enclosing) /\ Len(s) \in Nat
    BY <1>3 DEF EnclosedBelow
  <2>4. Len(stack') = Len(s) + 1 /\ stack'[Len(s) + 1] = o
    <3>1. Len(Append(s, o)) = Len(s) + 1 /\ Append(s, o)[Len(s) + 1] = o  BY <2>3
    <3> QED  BY <3>1, <2>1
  <2> QED  BY <2>1, <2>2, <2>3, <2>4, <1>1
<1>4. ASSUME Keeps
      PROVE  /\ EnclosedBelow(stack') /\ Len(stack') > Len(Enclosing)
             /\ fragment' = Len(stack') /\ ~ WhiteSpaceOnly(stack'[fragment'])
  <2>1. CASE Puts(stack)  BY <2>1, <1>1, <1>3
  <2>2. CASE fragment # 0 /\ \E J \in Seq(Char) : Puts(Append(stack, J))
    <3>1. PICK J \in Seq(Char) : Puts(Append(stack, J))  BY <2>2
    <3>2. EnclosedBelow(Append(stack, J))  BY <1>1, EnclosedAppend
    <3> QED  BY <3>1, <3>2, <1>3
  <2> QED  BY <2>1, <2>2, <1>4 DEF Keeps
<1> QED  BY <1>2, <1>4

\* The other variables.
Valued == delivered \in Seq(Value) /\ errors \in Nat /\ element \in {"open", "ended", "aborted"}

LEMMA ValuedStep ==
    ASSUME TypeOK, [Next]_vars
    PROVE  Valued'
<1>1. delivered \in Seq(Value) /\ errors \in Nat /\ element \in {"open", "ended", "aborted"}
  BY DEF TypeOK, Value
<1>2. CASE UNCHANGED vars  BY <1>1, <1>2 DEF vars, Valued
<1>3. ASSUME NEW goOn \in BOOLEAN, NEW text \in Piece, TextData(text, goOn)
      PROVE  Valued'
  <2>1. ASSUME NEW b PROVE Failed(b) => errors' \in Nat /\ element' \in {"open", "ended", "aborted"}
    BY <1>1 DEF Failed
  <2>2. Went => errors' \in Nat /\ element' \in {"open", "ended", "aborted"}  BY <1>1 DEF Went
  <2>3. CASE FragmentFails(text, goOn)  BY <2>1, <2>3, <1>1 DEF FragmentFails, Valued
  <2>4. ASSUME NEW before \in [1..Overrun(text) -> Char], NEW read, read = before \o text,
               \/ LoopFails(text, read, goOn) \/ NothingUnfinished(text, read)
               \/ NewFragment(text, read) \/ LongerFragment(text, read)
        PROVE  Valued'
    <3> DEFINE v == Converted(text, read).values
    <3>1. v \in Seq(Value)  BY <2>4, ConvertedFacts
    <3> HIDE DEF v
    <3>2. delivered \o v \in Seq(Value)  BY <3>1, <1>1, ConcatFacts
    <3>3. CASE LoopFails(text, read, goOn)
      <4> DEFINE n == (Len(v) \div BufferSize) * BufferSize
      <4>1. n \in 0..Len(v) /\ 1 \in Nat \ {0}
        <5>1. Len(v) \in Nat /\ BufferSize \in Nat \ {0}  BY <3>1, TextAssumption
        <5>2. ASSUME NEW x \in Nat, NEW B \in Nat \ {0} PROVE (x \div B) * B \in 0..x  OBVIOUS
        <5> QED  BY <5>1, <5>2
      <4> HIDE DEF n
      <4>2. SubSeq(v, 1, n) \in Seq(Value)  BY <4>1, <3>1, PartFacts
      <4>3. delivered' = delivered \o SubSeq(v, 1, n)  BY <3>3 DEF LoopFails, v, n
      <4>4. delivered' \in Seq(Value)  BY <4>2, <4>3, <1>1, ConcatFacts
      <4> QED  BY <4>4, <3>3, <2>1 DEF LoopFails, Valued
    <3>4. CASE NothingUnfinished(text, read)
      BY <3>2, <3>4, <2>2 DEF NothingUnfinished, Valued, v
    <3>5. CASE NewFragment(text, read)  BY <3>2, <3>5, <2>2 DEF NewFragment, Valued, v
    <3>6. CASE LongerFragment(text, read)  BY <3>6, <2>2, <1>1 DEF LongerFragment, Valued
    <3> QED  BY <2>4, <3>3, <3>4, <3>5, <3>6
  <2>5. \/ FragmentFails(text, goOn)
        \/ \E before \in [1..Overrun(text) -> Char] :
              \/ LoopFails(text, before \o text, goOn)
              \/ NothingUnfinished(text, before \o text)
              \/ NewFragment(text, before \o text)
              \/ LongerFragment(text, before \o text)
    BY <1>3 DEF TextData
  <2> QED  BY <2>3, <2>4, <2>5
<1>4. ASSUME NEW goOn \in BOOLEAN, DataEnd(goOn) PROVE Valued'
  <2>1. CASE fragment = 0  BY <1>1, <1>4, <2>1 DEF DataEnd, Valued
  <2>2. CASE fragment # 0
    <3> DEFINE f == stack[fragment]
               d == ToData(f, 1)
               v == d.value
    <3>1. f \in Seq(Char)  BY <2>2, FragmentFacts
    <3>2. v \in Value
      <4> HIDE DEF f
      <4>1. 1 \in 1..Len(f) + 1  BY <3>1
      <4> QED  BY <3>1, <4>1, ToDataType DEF Value
    <3>3. delivered' = delivered \/ delivered' = Append(delivered, v)
      BY <1>4, <2>2 DEF DataEnd, EndsWith
    <3> HIDE DEF v
    <3>4. delivered' \in Seq(Value)  BY <3>2, <3>3, <1>1
    <3>5. errors' \in Nat /\ element' \in {"open", "ended", "aborted"}
      BY <1>1, <1>4, <2>2 DEF DataEnd
    <3> QED  BY <3>4, <3>5 DEF Valued
  <2> QED  BY <2>1, <2>2
<1> QED  BY <1>2, <1>3, <1>4 DEF Next

LEMMA EnclosedInit == Init => Enclosed
<1> SUFFICES ASSUME Init PROVE Enclosed  OBVIOUS
<1>1. /\ stack = Enclosing /\ fragment = 0 /\ delivered = << >> /\ pieces = << >> /\ errors = 0
      /\ element = "open"
  BY DEF Init
<1>2. Enclosing \in Seq(Seq(Char)) /\ Len(Enclosing) \in Nat  BY TextAssumption
<1>3. TypeOK  BY <1>1, <1>2 DEF TypeOK
<1> QED  BY <1>1, <1>2, <1>3 DEF Enclosed, EnclosedBelow

LEMMA EnclosedStep == Enclosed /\ [Next]_vars => Enclosed'
<1> SUFFICES ASSUME Enclosed, [Next]_vars PROVE Enclosed'  OBVIOUS
<1>1. TypeOK  BY DEF Enclosed
<1>2. CASE UNCHANGED vars
  BY <1>2 DEF vars, Enclosed, TypeOK
<1>3. CASE Drops \/ Keeps
  <2>1. /\ EnclosedBelow(stack')
        /\ fragment' # 0 => Len(stack') > Len(Enclosing)
        /\ fragment' = 0 \/ (fragment' = Len(stack') /\ ~ WhiteSpaceOnly(stack'[fragment']))
    BY <1>3, StackStepEnclosed
  <2>2. delivered' \in Seq(Value) /\ errors' \in Nat /\ element' \in {"open", "ended", "aborted"}
    BY <1>1, ValuedStep DEF Valued
  <2>3. pieces' \in Seq(Piece)
    <3>1. pieces \in Seq(Piece)  BY <1>1 DEF TypeOK
    <3>2. \/ pieces' = pieces
          \/ \E text \in Piece : pieces' = Append(pieces, text)
      BY <1>1, StackStep DEF vars
    <3> QED  BY <3>1, <3>2
  <2>4. stack' \in Seq(Seq(Char))  BY <2>1 DEF EnclosedBelow
  <2>5. TypeOK'  BY <2>1, <2>2, <2>3, <2>4 DEF TypeOK, Value
  <2> QED  BY <2>1, <2>5 DEF Enclosed
<1> QED  BY <1>1, <1>2, <1>3, StackStep

LEMMA AlwaysEnclosed == Spec => []Enclosed
  BY EnclosedInit, EnclosedStep, PTL DEF Spec

\* The variables have their types: in particular, whatever the pieces are, the fragment is the
\* object that the next deleteObject() deletes, and there is a value in it to be finished.
THEOREM TypesAreRight == Spec => []TypeOK
<1>1. Enclosed => TypeOK  BY DEF Enclosed
<1> QED  BY <1>1, AlwaysEnclosed, PTL

\* Whatever the pieces are, and whatever is in memory that was not written, the deletes of
\* characterData2Data() and dataEnd() never reach an object of an enclosing element.
THEOREM EnclosingAlwaysKept == Spec => []EnclosingKept
<1>1. Enclosed => EnclosingKept
  <2> SUFFICES ASSUME Enclosed PROVE EnclosingKept  OBVIOUS
  <2> DEFINE n == Len(Enclosing)
  <2>1. /\ stack \in Seq(Seq(Char)) /\ Len(stack) >= n
        /\ \A i \in 1..n : stack[i] = Enclosing[i]
    BY DEF Enclosed, EnclosedBelow
  <2>2. Enclosing \in Seq(Seq(Char)) /\ n \in Nat /\ Len(stack) \in Nat  BY <2>1, TextAssumption
  <2>3. SubSeq(Enclosing, 1, n) = Enclosing  BY <2>2, SubSeqFull
  <2> DEFINE t == SubSeq(stack, 1, n)
  <2>4. 1 \in Nat \ {0} /\ n \in 0..Len(stack) /\ 1 <= n + 1 /\ n - 1 + 1 = n  BY <2>1, <2>2
  <2>5. t \in Seq(Seq(Char)) /\ Len(t) = n /\ \A i \in 1..n : t[i] = stack[i]
    <3> HIDE DEF n
    <3>1. t \in Seq(Seq(Char))  BY <2>1, <2>4, PartFacts
    <3>2. 1 <= n + 1 => Len(t) = n - 1 + 1  BY <2>1, <2>4, PartFacts
    <3>3. \A i \in 1..n - 1 + 1 : t[i] = stack[1 + i - 1]  BY <2>1, <2>4, PartFacts
    <3> HIDE DEF t
    <3>4. \A i \in 1..n : 1 + i - 1 = i  BY <2>4
    <3> QED  BY <3>1, <3>2, <3>3, <3>4, <2>4
  <2> HIDE DEF t
  <2>6. t = Enclosing  BY <2>1, <2>2, <2>5, SeqEqual
  <2> QED  BY <2>1, <2>3, <2>6 DEF t, EnclosingKept, IsPrefix
<1> QED  BY <1>1, AlwaysEnclosed, PTL

-----------------------------------------------------------------------------
(* Nothing is left behind. *)

\* No piece begins and ends within values.
NoneWithin(s) ==
    \A i \in 2..Len(s) : Last(s[i - 1]) = Space \/ Last(s[i]) = Space

\* The fragment, if there is one, is the only object on the stack of the element; it is of a piece
\* that ends within a value.
Tidy ==
    NoneWithin(pieces) =>
        /\ Under = Enclosing
        /\ fragment # 0 => pieces # << >> /\ Last(Last(pieces)) # Space

LEMMA NoneWithinBefore ==
    ASSUME NEW s \in Seq(Piece), NEW text \in Piece, NoneWithin(Append(s, text))
    PROVE  /\ NoneWithin(s)
           /\ s # << >> => Last(Last(s)) = Space \/ Last(text) = Space
<1> DEFINE a == Append(s, text)
<1>1. /\ Len(s) \in Nat /\ Len(a) = Len(s) + 1 /\ a[Len(s) + 1] = text
      /\ \A i \in 1..Len(s) : a[i] = s[i]
  OBVIOUS
<1>2. \A i \in 2..Len(a) : Last(a[i - 1]) = Space \/ Last(a[i]) = Space  BY DEF NoneWithin
<1>3. s # << >> => Len(s) \in Nat \ {0}  BY EmptySeq
<1> HIDE DEF a
<1>4. NoneWithin(s)
  <2> SUFFICES ASSUME NEW i \in 2..Len(s) PROVE Last(s[i - 1]) = Space \/ Last(s[i]) = Space
    BY DEF NoneWithin
  <2>1. i \in 2..Len(a) /\ i - 1 \in 1..Len(s) /\ i \in 1..Len(s)  BY <1>1
  <2>2. a[i - 1] = s[i - 1] /\ a[i] = s[i]  BY <2>1, <1>1
  <2> QED  BY <2>1, <2>2, <1>2
<1>5. ASSUME s # << >> PROVE Last(Last(s)) = Space \/ Last(text) = Space
  <2> DEFINE n == Len(s) + 1
  <2>1. n \in 2..Len(a) /\ n - 1 = Len(s) /\ Len(s) \in 1..Len(s)  BY <1>1, <1>3, <1>5
  <2>2. Last(a[n - 1]) = Space \/ Last(a[n]) = Space
    <3> HIDE DEF n
    <3> QED  BY <2>1, <1>2
  <2>3. a[n - 1] = s[Len(s)] /\ a[n] = text  BY <2>1, <1>1
  <2>4. s[Len(s)] = Last(s)  BY DEF Last
  <2> QED  BY <2>2, <2>3, <2>4
<1> QED  BY <1>4, <1>5

LEMMA TidyStep == Enclosed /\ Tidy /\ [Next]_vars => Tidy'
<1> SUFFICES ASSUME Enclosed, Tidy, [Next]_vars, NoneWithin(pieces)'
             PROVE  /\ Under' = Enclosing
                    /\ fragment' # 0 => pieces' # << >> /\ Last(Last(pieces')) # Space
  BY DEF Tidy
<1>1. TypeOK /\ stack \in Seq(Seq(Char)) /\ pieces \in Seq(Piece)  BY DEF Enclosed, TypeOK
<1>2. CASE UNCHANGED vars
  BY <1>2 DEF Tidy, vars, Under, NoneWithin
<1>3. ASSUME Drops, NoneWithin(pieces) PROVE Under' = Enclosing /\ fragment' = 0
  BY <1>3 DEF Drops, Tidy, Under
<1>4. CASE Drops /\ pieces' = pieces  BY <1>4, <1>3 DEF NoneWithin
<1>5. ASSUME NEW text \in Piece, pieces' = Append(pieces, text)
      PROVE  /\ NoneWithin(pieces) /\ pieces' # << >> /\ Last(pieces') = text
             /\ pieces # << >> => Last(Last(pieces)) = Space \/ Last(text) = Space
  <2>1. NoneWithin(Append(pieces, text))  BY <1>5 DEF NoneWithin
  <2>2. Len(Append(pieces, text)) # 0 /\ Last(Append(pieces, text)) = text
    BY <1>1 DEF Last
  <2> QED  BY <1>1, <1>5, <2>1, <2>2, NoneWithinBefore
<1>6. CASE Drops /\ \E text \in Piece : pieces' = Append(pieces, text)
  BY <1>3, <1>5, <1>6
<1>7. CASE Keeps /\ \E text \in Piece : /\ pieces' = Append(pieces, text)
                                        /\ Last(text) # Space
                                        /\ fragment = 0 => Puts(stack)
  <2>1. PICK text \in Piece : /\ pieces' = Append(pieces, text) /\ Last(text) # Space
                              /\ fragment = 0 => Puts(stack)
    BY <1>7
  <2>2. NoneWithin(pieces) /\ pieces' # << >> /\ Last(pieces') = text  BY <2>1, <1>5
  <2>3. fragment = 0  BY <2>1, <2>2, <1>5 DEF Tidy
  <2>4. stack = Enclosing  BY <2>2, <2>3 DEF Tidy, Under
  <2>5. PICK o \in Seq(Char) : stack' = Append(stack, o) /\ fragment' = Len(stack')
    BY <2>1, <2>3 DEF Puts
  <2>6. Front(stack') = Enclosing  BY <2>4, <2>5, <1>1, FrontOfAppend
  <2>7. Len(stack') # 0  BY <2>5, <1>1
  <2>8. Under' = Enclosing  BY <2>5, <2>6, <2>7 DEF Under
  <2> QED  BY <2>1, <2>2, <2>8
<1> QED  BY <1>1, <1>2, <1>4, <1>6, <1>7, StackStep

\* If no piece begins and ends within values, the stack is, whenever no value is unfinished, the
\* one that the element began with, for text of any length in any such pieces.
THEOREM NothingIsLeftBehind == Spec => []NothingLeftBehind
<1>1. Init => Tidy  BY DEF Init, Tidy, Under
<1>2. Tidy => NothingLeftBehind  BY DEF Tidy, NothingLeftBehind, NoneWithin, Under
<1> QED  BY <1>1, <1>2, TidyStep, AlwaysEnclosed, PTL DEF Spec

-----------------------------------------------------------------------------
(* The text that the pieces are of. *)

IsFlat(P, m, g) == g = [i \in 1..m |-> IF i = 1 THEN P[i] ELSE g[i - 1] \o P[i]]

LEMMA FlatExists ==
    ASSUME NEW P \in Seq(Seq(Char))
    PROVE  \E g : IsFlat(P, Len(P), g)
<1> DEFINE n == Len(P)
           None == {m \in 0..n : ~ \E g : IsFlat(P, m, g)}
<1>1. n \in Nat  OBVIOUS
<1>2. SUFFICES ASSUME None # {} PROVE FALSE
  <2>1. n \in 0..n  BY <1>1
  <2> QED  BY <2>1
<1>3. None \in SUBSET Nat  BY <1>1
<1> HIDE DEF None
<1>4. PICK m \in None : \A l \in None : m <= l  BY <1>2, <1>3, Smallest
<1>5. m \in 0..n /\ ~ \E g : IsFlat(P, m, g)  BY DEF None
<1> HIDE DEF n
<1>6. CASE m = 0
  <2> DEFINE e == [i \in 1..0 |-> P[i]]
  <2>1. \A i \in 1..0 : FALSE  OBVIOUS
  <2>2. e = [i \in 1..0 |-> IF i = 1 THEN P[i] ELSE e[i - 1] \o P[i]]  BY <2>1
  <2> HIDE DEF e
  <2>3. IsFlat(P, 0, e)  BY <2>2 DEF IsFlat
  <2> QED  BY <2>3, <1>5, <1>6
<1>7. CASE m # 0
  <2>1. m - 1 \in 0..n /\ ~ (m <= m - 1) /\ m \in Nat  BY <1>1, <1>5, <1>7
  <2>2. m - 1 \notin None  BY <2>1, <1>4
  <2>3. PICK g : IsFlat(P, m - 1, g)  BY <2>1, <2>2 DEF None
  <2> DEFINE f == [i \in 1..m |-> IF i = m THEN (IF i = 1 THEN P[i] ELSE g[i - 1] \o P[i]) ELSE g[i]]
  <2>4. \A i \in 1..m - 1 : g[i] = IF i = 1 THEN P[i] ELSE g[i - 1] \o P[i]
    BY <2>3 DEF IsFlat
  <2>5. \A i \in 1..m - 1 : i \in 1..m /\ i # m  BY <2>1
  <2>6. f = [i \in 1..m |-> f[i]]  OBVIOUS
  <2>7. \A i \in 1..m - 1 : f[i] = g[i]  BY <2>5
  <2>8. f[m] = IF m = 1 THEN P[m] ELSE g[m - 1] \o P[m]  BY <2>1, <1>7
  <2> HIDE DEF f
  <2>9. ASSUME NEW i \in 1..m PROVE f[i] = IF i = 1 THEN P[i] ELSE f[i - 1] \o P[i]
    <3>1. CASE i = 1 /\ i = m  BY <3>1, <2>8
    <3>2. CASE i = 1 /\ i # m
      <4>1. i \in 1..m - 1  BY <3>2, <2>1
      <4> QED  BY <4>1, <3>2, <2>4, <2>7
    <3>3. CASE i # 1 /\ i = m
      <4>1. m - 1 \in 1..m - 1  BY <3>3, <2>1
      <4>2. f[m - 1] = g[m - 1]  BY <4>1, <2>7
      <4>3. f[m] = g[m - 1] \o P[m]  BY <3>3, <2>8
      <4> QED  BY <3>3, <4>2, <4>3
    <3>4. CASE i # 1 /\ i # m
      <4>1. i \in 1..m - 1 /\ i - 1 \in 1..m - 1  BY <3>4, <2>1
      <4>2. f[i - 1] = g[i - 1] /\ f[i] = g[i]  BY <4>1, <2>7
      <4>3. g[i] = g[i - 1] \o P[i]  BY <4>1, <3>4, <2>4
      <4> QED  BY <3>4, <4>2, <4>3
    <3> QED  BY <3>1, <3>2, <3>3, <3>4
  <2>10. f = [i \in 1..m |-> IF i = 1 THEN P[i] ELSE f[i - 1] \o P[i]]  BY <2>6, <2>9, Zenon
  <2>11. IsFlat(P, m, f)  BY <2>10 DEF IsFlat
  <2> QED  BY <2>11, <1>5
<1> QED  BY <1>6, <1>7

LEMMA FlatFacts ==
    ASSUME NEW P \in Seq(Seq(Char)), Len(P) # 0
    PROVE  \E f : /\ FlattenSeq(P) = f[Len(P)]
                  /\ f[1] = P[1] /\ f[1] \in Seq(Char)
                  /\ \A i \in 2..Len(P) : f[i] = f[i - 1] \o P[i]
                  /\ \A i \in 1..Len(P) : f[i] \in Seq(Char)
<1> DEFINE n == Len(P)
           Body(g) == [i \in 1..n |-> IF i = 1 THEN P[i] ELSE g[i - 1] \o P[i]]
           f == CHOOSE g : g = Body(g)
<1>1. FlattenSeq(P) = f[n]  BY DEF FlattenSeq
<1>2. \E g : g = Body(g)  BY FlatExists DEF IsFlat
<1> HIDE DEF Body
<1>3. f = Body(f)  BY <1>2
<1> HIDE DEF f
<1>4. n \in Nat /\ n # 0  OBVIOUS
<1> HIDE DEF n
<1>5. \A i \in 1..n : f[i] = IF i = 1 THEN P[i] ELSE f[i - 1] \o P[i]  BY <1>3 DEF Body
<1>6. f[1] = P[1] /\ P[1] \in Seq(Char)
  <2>1. 1 \in 1..n  BY <1>4
  <2>2. P[1] \in Seq(Char)  BY <2>1 DEF n
  <2> QED  BY <2>1, <2>2, <1>5
<1>7. \A i \in 2..n : f[i] = f[i - 1] \o P[i]
  <2> SUFFICES ASSUME NEW i \in 2..n PROVE f[i] = f[i - 1] \o P[i]  OBVIOUS
  <2>1. i \in 1..n /\ i # 1  BY <1>4
  <2> QED  BY <2>1, <1>5
<1>8. \A i \in 1..n : f[i] \in Seq(Char)
  <2> DEFINE Bad == {i \in 1..n : f[i] \notin Seq(Char)}
  <2>1. SUFFICES ASSUME Bad # {} PROVE FALSE  OBVIOUS
  <2>2. Bad \in SUBSET Nat  BY <1>4
  <2> HIDE DEF Bad
  <2>3. PICK m \in Bad : \A l \in Bad : m <= l  BY <2>1, <2>2, Smallest
  <2>4. m \in 1..n /\ f[m] \notin Seq(Char)  BY DEF Bad
  <2>5. m # 1  BY <2>4, <1>6
  <2>6. m \in 2..n /\ m - 1 \in 1..n /\ ~ (m <= m - 1)  BY <1>4, <2>4, <2>5
  <2>7. m - 1 \notin Bad  BY <2>6, <2>3
  <2>8. f[m - 1] \in Seq(Char)  BY <2>6, <2>7 DEF Bad
  <2>9. P[m] \in Seq(Char)  BY <2>4 DEF n
  <2>10. f[m - 1] \o P[m] \in Seq(Char)  BY <2>8, <2>9, ConcatFacts
  <2>11. f[m] = f[m - 1] \o P[m]  BY <2>6, <1>7
  <2> QED  BY <2>4, <2>10, <2>11
<1> QED  BY <1>1, <1>6, <1>7, <1>8 DEF n

LEMMA TextOfPieces ==
    ASSUME NEW P \in Seq(Seq(Char)), NEW t \in Seq(Char)
    PROVE  FlattenSeq(P) \in Seq(Char) /\ FlattenSeq(Append(P, t)) = FlattenSeq(P) \o t
<1> DEFINE n == Len(P)
           Q == Append(P, t)
<1>1. n \in Nat /\ Q \in Seq(Seq(Char)) /\ Len(Q) = n + 1  OBVIOUS
<1>2. (\A i \in 1..n : Q[i] = P[i]) /\ Q[n + 1] = t  OBVIOUS
<1> HIDE DEF Q
<1>3. PICK f : /\ FlattenSeq(Q) = f[n + 1]
               /\ f[1] = Q[1]
               /\ \A i \in 2..n + 1 : f[i] = f[i - 1] \o Q[i]
  <2>1. Len(Q) # 0  BY <1>1
  <2>2. \E f : /\ FlattenSeq(Q) = f[Len(Q)] /\ f[1] = Q[1]
               /\ \A i \in 2..Len(Q) : f[i] = f[i - 1] \o Q[i]
    BY <2>1, <1>1, FlatFacts
  <2> QED  BY <2>2, <1>1
<1>4. CASE n = 0
  <2>1. P = << >>  BY <1>4, EmptySeq
  <2>2. FlattenSeq(P) = << >>  BY <2>1 DEF FlattenSeq
  <2>3. FlattenSeq(Q) = t  BY <1>2, <1>3, <1>4
  <2>4. << >> \o t = t /\ << >> \in Seq(Char)  BY ConcatEmptySeq
  <2> QED  BY <2>2, <2>3, <2>4 DEF Q
<1>5. CASE n # 0
  <2>1. PICK e : /\ FlattenSeq(P) = e[n]
                 /\ e[1] = P[1]
                 /\ \A i \in 2..n : e[i] = e[i - 1] \o P[i]
                 /\ \A i \in 1..n : e[i] \in Seq(Char)
    BY <1>5, FlatFacts
  <2>2. n \in 1..n /\ n + 1 \in 2..n + 1 /\ (n + 1) - 1 = n  BY <1>1, <1>5
  <2>3. \A i \in 1..n : e[i] = f[i]
    <3> DEFINE Bad == {i \in 1..n : e[i] # f[i]}
    <3>1. SUFFICES ASSUME Bad # {} PROVE FALSE  OBVIOUS
    <3>2. Bad \in SUBSET Nat  BY <1>1
    <3> HIDE DEF Bad, n
    <3>3. PICK m \in Bad : \A l \in Bad : m <= l  BY <3>1, <3>2, Smallest
    <3>4. m \in 1..n /\ e[m] # f[m]  BY DEF Bad
    <3>5. m # 1
      <4>1. 1 \in 1..n => Q[1] = P[1]  BY <1>2
      <4> QED  BY <4>1, <3>4, <1>1, <1>3, <2>1
    <3>6. m \in 2..n /\ m \in 2..n + 1 /\ m - 1 \in 1..n /\ ~ (m <= m - 1)  BY <1>1, <3>4, <3>5
    <3>7. e[m - 1] = f[m - 1]
      <4>1. m - 1 \notin Bad  BY <3>6, <3>3
      <4> QED  BY <4>1, <3>6 DEF Bad
    <3>8. e[m] = e[m - 1] \o P[m]  BY <3>6, <2>1
    <3>9. f[m] = f[m - 1] \o Q[m]  BY <3>6, <1>3
    <3>10. Q[m] = P[m]  BY <3>4, <1>2
    <3> QED  BY <3>4, <3>7, <3>8, <3>9, <3>10
  <2>4. f[n + 1] = f[n] \o t
    <3> DEFINE k == n + 1
    <3>1. k \in 2..n + 1 /\ k - 1 = n /\ Q[k] = t  BY <2>2, <1>2
    <3> HIDE DEF k
    <3>2. f[k] = f[k - 1] \o Q[k]  BY <3>1, <1>3
    <3> QED  BY <3>1, <3>2 DEF k
  <2>5. f[n] = e[n] /\ e[n] \in Seq(Char)  BY <2>1, <2>2, <2>3
  <2> QED  BY <2>1, <2>4, <2>5, <1>3 DEF Q
<1> QED  BY <1>4, <1>5

-----------------------------------------------------------------------------
(* Pieces do not matter: the values delivered, and the fragment, are what *)
(* the loop makes of the whole text.                                      *)

\* T ends with F, and all before F is what the values vs were made of, and white space.
Behind(T, F, vs) ==
    \E s \in Seq(Char) :
        /\ T = s \o F
        /\ Loop(T, 1).values = vs /\ Loop(T, 1).next = Len(T) + 1
        /\ Loop(T, 1).last \in 1..Len(s) + 1
        /\ \A m \in Loop(T, 1).last..Len(s) : s[m] = Space

\* The values of nothing.
LEMMA NoValues == ToData(<< >>, 1).failed /\ Values(<< >>) = << >>
<1> DEFINE e == << >>
<1>1. e \in Seq(Char) /\ Len(e) = 0 /\ 1 \in 1..Len(e) + 1  OBVIOUS
<1> HIDE DEF e
<1>2. /\ Start(e, 1) \in 1..Len(e) + 1
      /\ \/ FirstDigit(e, 1) = Start(e, 1)
         \/ FirstDigit(e, 1) = Start(e, 1) + 1 /\ Start(e, 1) <= Len(e)
      /\ ToData(e, 1).next \in FirstDigit(e, 1)..Len(e) + 1
      /\ ToData(e, 1).failed <=> ToData(e, 1).next = FirstDigit(e, 1)
  BY <1>1, ToDataFacts
<1>3. ToData(e, 1).failed  BY <1>1, <1>2
<1>4. Ends(e, 1)  BY <1>3 DEF Ends
<1>5. Loop(e, 1).values = << >> /\ Loop(e, 1).last = 1  BY <1>1, <1>4, LoopFacts
<1>6. Values(e) = << >>  BY <1>3, <1>5 DEF Values
<1> QED  BY <1>3, <1>6 DEF e

\* The fragment's value is the last of the text.
LEMMA BehindValues ==
    ASSUME NEW T \in Seq(Char), NEW F \in Seq(Char), NEW vs \in Seq(Value), Behind(T, F, vs)
    PROVE  /\ ToData(F, 1).next = Len(F) + 1
           /\ Values(F) = IF ToData(F, 1).failed THEN << >> ELSE <<ToData(F, 1).value>>
           /\ Values(T) = IF ToData(F, 1).failed THEN vs ELSE Append(vs, ToData(F, 1).value)
           /\ Values(T) = vs \o Values(F)
<1> DEFINE q == Loop(T, 1).last
<1>1. PICK s \in Seq(Char) :
          /\ T = s \o F
          /\ Loop(T, 1).values = vs /\ Loop(T, 1).next = Len(T) + 1
          /\ q \in 1..Len(s) + 1
          /\ \A m \in q..Len(s) : s[m] = Space
  BY DEF Behind
<1>2. Len(s) \in Nat /\ Len(F) \in Nat /\ Len(T) \in Nat  OBVIOUS
<1>3. Len(T) = Len(s) + Len(F) /\ \A i \in 1..Len(s) : T[i] = s[i]  BY <1>1, ConcatFacts
<1>4. Loop(T, 1).next = ToData(T, q).next
  <2>1. 1 \in 1..Len(T) + 1  BY <1>2
  <2> QED  BY <2>1, LoopFacts
<1> DEFINE r == Len(s) + 1
           d == ToData(F, 1)
<1> HIDE DEF q
<1>5. q \in 1..Len(T) + 1 /\ r \in q..Len(T) + 1  BY <1>1, <1>2, <1>3
<1>6. \A m \in q..r - 1 : T[m] = Space
  <2> SUFFICES ASSUME NEW m \in q..r - 1 PROVE T[m] = Space  OBVIOUS
  <2>1. m \in q..Len(s) /\ m \in 1..Len(s)  BY <1>1, <1>2
  <2> QED  BY <2>1, <1>1, <1>3
<1>7. ToData(T, q) = ToData(T, r)  BY <1>5, <1>6, SpacesSkipped
<1>8. 1 \in 1..Len(F) + 1  BY <1>2
<1>9. /\ ToData(T, r).next = Len(s) + d.next
      /\ ToData(T, r).failed <=> d.failed
      /\ ToData(T, r).value = d.value
  BY <1>1, <1>8, ToDataShift
<1>10. d.next = Len(F) + 1
  <2>1. d.next \in 1..Len(F) + 1  BY <1>8, ToDataType
  <2>2. Len(s) + d.next = Len(T) + 1  BY <1>1, <1>4, <1>7, <1>9
  <2> HIDE DEF d
  <2> QED  BY <2>1, <2>2, <1>2, <1>3
<1>11. Loop(F, 1).values = << >> /\ Loop(F, 1).last = 1
  <2>1. Ends(F, 1)  BY <1>10 DEF Ends
  <2> QED  BY <2>1, <1>8, LoopFacts
<1>12. d.value \in Value  BY <1>8, ToDataType DEF Value
<1>13. Values(F) = IF d.failed THEN << >> ELSE Append(<< >>, d.value)  BY <1>11 DEF Values
<1>14. Values(T) = IF d.failed THEN vs ELSE Append(vs, d.value)
  BY <1>1, <1>7, <1>9 DEF Values, q
<1>15. Append(<< >>, d.value) = <<d.value>> /\ Append(vs, d.value) = vs \o <<d.value>>
  <2> DEFINE v == d.value
  <2> HIDE DEF v
  <2>1. v \in Value  BY <1>12 DEF v
  <2> HIDE DEF Value
  <2>2. Append(<< >>, v) = <<v>>  BY <2>1
  <2>3. Append(vs, v) = vs \o <<v>>  BY <2>1
  <2> QED  BY <2>2, <2>3 DEF v
<1>16. vs \o << >> = vs  BY ConcatEmptySeq
<1> HIDE DEF d
<1>17. CASE d.failed
  <2>1. Values(F) = << >> /\ Values(T) = vs  BY <1>13, <1>14, <1>17
  <2> QED  BY <2>1, <1>10, <1>16, <1>17 DEF d
<1>18. CASE ~ d.failed
  <2>1. Values(F) = <<d.value>> /\ Values(T) = vs \o <<d.value>>  BY <1>13, <1>14, <1>15, <1>18
  <2> QED  BY <2>1, <1>10, <1>15, <1>18 DEF d
<1> QED  BY <1>17, <1>18

Joins(s, t, u) == (s \o t) \o u = s \o (t \o u)

LEMMA ConcatJoins ==
    ASSUME NEW s \in Seq(Char), NEW t \in Seq(Char), NEW u \in Seq(Char)
    PROVE  Joins(s, t, u)
  BY ConcatAssociative DEF Joins

\* The rest of a piece that the loop stops at is behind the values of all the text.
LEMMA BehindRest ==
    ASSUME NEW T \in Seq(Char), NEW u \in Seq(Char), NEW z \in 1..Len(u) + 1, NEW vs,
           NEW l, l = Loop(u, z), l.next = Len(u) + 1,
           NEW R, R = SubSeq(u, l.last, Len(u)),
           NEW L, L = Loop(T \o u, 1),
           L.values = vs, L.next = Len(T) + l.next,
           \/ L.last = Len(T) + l.last
           \/ /\ L.last \in 1..Len(T) + 1 /\ l.last = 1
              /\ \A m \in L.last..Len(T) : T[m] = Space
    PROVE  /\ R \in Seq(Char) /\ Behind(T \o u, R, vs)
           /\ WhiteSpaceOnly(R) => Behind(T \o u, << >>, vs)
<1> DEFINE n == Len(u)
           x == Len(T)
           p == l.last - 1
           A == SubSeq(u, 1, p)
           s == T \o A
           t == T \o u
<1>1. n \in Nat /\ x \in Nat  OBVIOUS
<1>2. l.last \in 1..n + 1
  <2>1. l.last \in z..n + 1  BY LoopFacts
  <2> QED  BY <2>1, <1>1
<1>3. p \in 0..n /\ p \in Nat /\ l.last = p + 1  BY <1>1, <1>2
<1>4. t \in Seq(Char) /\ Len(t) = x + n  BY ConcatFacts
<1> HIDE DEF p
<1>5. A \in Seq(Char) /\ Len(A) = p /\ \A i \in 1..p : A[i] = u[i]
  <2>1. 1 \in Nat \ {0} /\ p \in 0..Len(u) /\ 1 <= p + 1 /\ p - 1 + 1 = p  BY <1>3
  <2>2. A \in Seq(Char)  BY <2>1, PartFacts
  <2>3. 1 <= p + 1 => Len(A) = p - 1 + 1  BY <2>1, PartFacts
  <2>4. \A i \in 1..p - 1 + 1 : A[i] = u[1 + i - 1]  BY <2>1, PartFacts
  <2> HIDE DEF A
  <2>5. \A i \in 1..p : 1 + i - 1 = i  BY <2>1
  <2> QED  BY <2>1, <2>2, <2>3, <2>4, <2>5
<1>6. R \in Seq(Char) /\ Len(R) = n - p /\ \A i \in 1..n - p : R[i] = u[p + i]
  <2> DEFINE k == p + 1
  <2>1. k \in Nat \ {0} /\ n \in 0..Len(u) /\ k <= n + 1 /\ n - k + 1 = n - p  BY <1>1, <1>3
  <2>2. R = SubSeq(u, k, n)  BY <1>3
  <2> HIDE DEF k, n
  <2>3. R \in Seq(Char)  BY <2>1, <2>2, PartFacts
  <2>4. k <= n + 1 => Len(SubSeq(u, k, n)) = n - k + 1  BY <2>1, PartFacts
  <2>5. \A i \in 1..n - k + 1 : SubSeq(u, k, n)[i] = u[k + i - 1]  BY <2>1, PartFacts
  <2>6. \A i \in 1..n - p : k + i - 1 = p + i  BY <2>1, <1>3 DEF k
  <2> QED  BY <2>1, <2>2, <2>3, <2>4, <2>5, <2>6
<1>7. u = A \o R
  <2> HIDE DEF A, n
  <2> DEFINE c == A \o R
  <2>0. A \in Seq(Char) /\ R \in Seq(Char)  BY <1>5, <1>6
  <2>1. c \in Seq(Char) /\ Len(c) = Len(A) + Len(R)  BY <2>0, CharConcat
  <2>2. \A i \in 1..Len(A) : c[i] = A[i]  BY <2>0, CharConcat
  <2>3. \A i \in 1..Len(R) : c[Len(A) + i] = R[i]  BY <2>0, CharConcat
  <2> HIDE DEF c
  <2>4. Len(c) = n  BY <2>1, <1>1, <1>3, <1>5, <1>6
  <2>5. \A i \in 1..n : c[i] = u[i]
    <3> SUFFICES ASSUME NEW i \in 1..n PROVE c[i] = u[i]  OBVIOUS
    <3>1. CASE i <= p
      <4>1. i \in 1..p  BY <3>1, <1>3
      <4> QED  BY <4>1, <2>2, <1>5
    <3>2. CASE ~ (i <= p)
      <4> DEFINE j == i - p
      <4>1. j \in 1..n - p /\ p + j = i  BY <3>2, <1>1, <1>3
      <4> HIDE DEF j
      <4>2. c[Len(A) + j] = R[j]  BY <4>1, <2>3, <1>6
      <4> QED  BY <4>1, <4>2, <1>5, <1>6
    <3> QED  BY <3>1, <3>2
  <2>6. Len(u) = n  BY DEF n
  <2>7. c = u  BY <2>1, <2>4, <2>5, <2>6, SeqEqual
  <2> QED  BY <2>7 DEF c
<1> HIDE DEF A
<1>8. t = s \o R
  <2>1. A \in Seq(Char) /\ R \in Seq(Char)  BY <1>5, <1>6
  <2>2. Joins(T, A, R)  BY <2>1, ConcatJoins
  <2> QED  BY <2>2, <1>7 DEF Joins
<1>9. s \in Seq(Char) /\ Len(s) = x + p
  <2>1. s \in Seq(Char)  BY <1>5, ConcatFacts
  <2>2. Len(s) = x + Len(A)  BY <1>5, ConcatFacts
  <2> QED  BY <2>1, <2>2, <1>5
<1>10. \A i \in 1..x : s[i] = T[i]  BY <1>5, ConcatFacts
<1> HIDE DEF x, n, s
<1>11. L.last \in 1..Len(s) + 1 /\ \A m \in L.last..Len(s) : s[m] = Space
  <2>1. CASE L.last = x + l.last
    <3>1. L.last = Len(s) + 1 /\ L.last \in Nat /\ Len(s) \in Nat  BY <2>1, <1>1, <1>3, <1>9
    <3>2. \A m \in L.last..Len(s) : FALSE  BY <3>1
    <3> QED  BY <3>1, <3>2, <1>1, <1>3, <1>9
  <2>2. CASE /\ L.last \in 1..x + 1 /\ l.last = 1
             /\ \A m \in L.last..x : T[m] = Space
    <3>1. p = 0 /\ Len(s) = x  BY <2>2, <1>1, <1>3, <1>9
    <3>2. \A m \in L.last..x : m \in 1..x  BY <2>2, <1>1
    <3> QED  BY <2>2, <3>1, <3>2, <1>10
  <2> QED  BY <2>1, <2>2 DEF x
<1>12. L.next = Len(t) + 1  BY <1>1, <1>4 DEF n, x
<1> HIDE DEF t
<1>13. Loop(t, 1) = L  BY DEF t
<1>14. Behind(t, R, vs)  BY <1>8, <1>9, <1>11, <1>12, <1>13 DEF Behind
<1>15. ASSUME WhiteSpaceOnly(R) PROVE Behind(t, << >>, vs)
  <2>1. t = t \o << >>  BY <1>4, ConcatEmptySeq
  <2>2. Len(t) = Len(s) + Len(R)  BY <1>8, <1>9, <1>6, ConcatFacts
  <2>3. \A i \in 1..Len(s) : t[i] = s[i]  BY <1>8, <1>9, <1>6, ConcatFacts
  <2>4. \A i \in 1..Len(R) : t[Len(s) + i] = R[i]
    <3>1. s \in Seq(Char) /\ R \in Seq(Char)  BY <1>9, <1>6
    <3>2. \A i \in 1..Len(R) : (s \o R)[Len(s) + i] = R[i]  BY <3>1, ConcatFacts
    <3> QED  BY <3>2, <1>8
  <2>5. Len(s) \in Nat /\ Len(R) \in Nat  BY <1>6, <1>9
  <2>6. L.last \in 1..Len(t) + 1 /\ L.last \in Nat
    <3> DEFINE k == L.last
               a == Len(s)
               b == Len(R)
               e == Len(t)
    <3>1. k \in 1..a + 1 /\ e = a + b /\ a \in Nat /\ b \in Nat  BY <1>11, <2>2, <2>5
    <3> HIDE DEF k, a, b, e
    <3>2. k \in 1..e + 1 /\ k \in Nat  BY <3>1
    <3> QED  BY <3>2 DEF k, e
  <2>7. \A m \in L.last..Len(t) : t[m] = Space
    <3> SUFFICES ASSUME NEW m \in L.last..Len(t) PROVE t[m] = Space  OBVIOUS
    <3>1. CASE m <= Len(s)
      <4>1. m \in L.last..Len(s) /\ m \in 1..Len(s)  BY <3>1, <2>5, <1>11
      <4> QED  BY <4>1, <2>3, <1>11
    <3>2. CASE ~ (m <= Len(s))
      <4> DEFINE i == m - Len(s)
      <4>1. i \in 1..Len(R) /\ Len(s) + i = m
        <5> DEFINE a == Len(s)
                   b == Len(R)
                   e == Len(t)
        <5>1. e = a + b /\ a \in Nat /\ b \in Nat /\ m \in Int /\ m <= e /\ ~ (m <= a)
          <6>1. m \in Int /\ m <= Len(t)  OBVIOUS
          <6> QED  BY <6>1, <3>2, <2>2, <2>5
        <5> HIDE DEF a, b, e
        <5>2. m - a \in 1..b /\ a + (m - a) = m  BY <5>1
        <5> QED  BY <5>2 DEF a, b
      <4> HIDE DEF i
      <4>2. t[Len(s) + i] = R[i] /\ R[i] = Space  BY <4>1, <2>4, <1>15 DEF WhiteSpaceOnly
      <4> QED  BY <4>1, <4>2
    <3> QED  BY <3>1, <3>2
  <2> QED  BY <2>1, <2>6, <2>7, <1>4, <1>12, <1>13 DEF Behind
<1> QED  BY <1>6, <1>14, <1>15 DEF t

\* A piece after a text with no value unfinished.
LEMMA BehindPiece ==
    ASSUME NEW T \in Seq(Char), NEW u \in Seq(Char), NEW vs \in Seq(Value), Behind(T, << >>, vs),
           NEW l, l = Loop(u, 1), l.next = Len(u) + 1,
           NEW R, R = SubSeq(u, l.last, Len(u))
    PROVE  /\ R \in Seq(Char) /\ Behind(T \o u, R, vs \o l.values)
           /\ WhiteSpaceOnly(R) => Behind(T \o u, << >>, vs \o l.values)
<1> DEFINE t == T \o u
           x == Len(T)
           q == Loop(T, 1).last
           L == Loop(t, 1)
           lq == Loop(t, q)
           r == x + 1
<1>1. /\ Loop(T, 1).values = vs /\ q \in 1..x + 1
      /\ \A m \in q..x : T[m] = Space
  <2>1. PICK s \in Seq(Char) :
            /\ T = s \o << >>
            /\ Loop(T, 1).values = vs
            /\ Loop(T, 1).last \in 1..Len(s) + 1
            /\ \A m \in Loop(T, 1).last..Len(s) : s[m] = Space
    BY DEF Behind
  <2>2. T = s  BY <2>1, ConcatEmptySeq
  <2> QED  BY <2>1, <2>2
<1>2. x \in Nat /\ Len(u) \in Nat /\ t \in Seq(Char) /\ Len(t) = x + Len(u)  BY ConcatFacts
<1>3. \A i \in 1..x : t[i] = T[i]  BY ConcatFacts
<1>4. 1 \in 1..Len(T) + 1 /\ 1 \in 1..Len(u) + 1  BY <1>2
<1>5. L.values = vs \o lq.values /\ L.last = lq.last /\ L.next = lq.next
  <2>1. GoesOn(T, u, 1)  BY <1>4, LoopGoesOn
  <2> QED  BY <2>1, <1>1 DEF GoesOn
<1> HIDE DEF q, L, lq
<1>6. q \in 1..Len(t) + 1 /\ r \in q..Len(t) + 1 /\ r \in 1..Len(t) + 1  BY <1>1, <1>2
<1>7. \A m \in q..r - 1 : t[m] = Space
  <2> SUFFICES ASSUME NEW m \in q..r - 1 PROVE t[m] = Space  OBVIOUS
  <2>1. m \in q..x /\ m \in 1..x  BY <1>1, <1>2
  <2> QED  BY <2>1, <1>1, <1>3
<1> HIDE DEF t
<1>8. ToData(t, q) = ToData(t, r)  BY <1>2, <1>6, <1>7, SpacesSkipped
<1>9. ToData(t, r).next = x + ToData(u, 1).next /\ (Ends(t, r) <=> Ends(u, 1))
  BY <1>4, ToDataShift DEF t
<1>10. Ends(t, q) <=> Ends(t, r)  BY <1>8 DEF Ends
<1>11. Shifted(T, u, 1)  BY <1>4, LoopShift
<1>12. l.values \in Seq(Value)  BY <1>4, LoopFacts
<1>13. /\ lq.values = l.values /\ lq.next = x + l.next
       /\ \/ lq.last = x + l.last
          \/ lq.last = q /\ l.last = 1
  <2>1. CASE Ends(u, 1)
    <3>1. l.values = << >> /\ l.last = 1 /\ l.next = ToData(u, 1).next  BY <2>1, <1>4, LoopFacts
    <3>2. lq.values = << >> /\ lq.last = q /\ lq.next = ToData(t, q).next
      BY <2>1, <1>2, <1>6, <1>9, <1>10, LoopFacts DEF lq
    <3> QED  BY <3>1, <3>2, <1>8, <1>9
  <2>2. CASE ~ Ends(u, 1)
    <3> DEFINE k == ToData(t, q).next
    <3>1. /\ lq.values = <<ToData(t, q).value>> \o Loop(t, k).values
          /\ lq.last = Loop(t, k).last /\ lq.next = Loop(t, k).next
      BY <2>2, <1>2, <1>6, <1>9, <1>10, LoopFacts DEF lq
    <3>2. /\ Loop(t, r).values = <<ToData(t, r).value>> \o Loop(t, ToData(t, r).next).values
          /\ Loop(t, r).last = Loop(t, ToData(t, r).next).last
          /\ Loop(t, r).next = Loop(t, ToData(t, r).next).next
      BY <2>2, <1>2, <1>6, <1>9, LoopFacts
    <3>3. /\ lq.values = Loop(t, r).values /\ lq.last = Loop(t, r).last
          /\ lq.next = Loop(t, r).next
      BY <3>1, <3>2, <1>8
    <3>4. /\ Loop(t, r).values = l.values /\ Loop(t, r).last = x + l.last
          /\ Loop(t, r).next = x + l.next
      BY <1>11 DEF Shifted, t
    <3> QED  BY <3>3, <3>4
  <2> QED  BY <2>1, <2>2
<1> DEFINE ws == vs \o l.values
<1>14. /\ L.values = ws /\ L.next = x + l.next
       /\ \/ L.last = x + l.last
          \/ /\ L.last \in 1..x + 1 /\ l.last = 1
             /\ \A m \in L.last..x : T[m] = Space
  BY <1>1, <1>5, <1>13
<1>15. L = Loop(T \o u, 1)  BY DEF L, t
<1> HIDE DEF ws, L, x
<1>16. /\ R \in Seq(Char) /\ Behind(T \o u, R, ws)
       /\ WhiteSpaceOnly(R) => Behind(T \o u, << >>, ws)
  BY <1>4, <1>14, <1>15, BehindRest DEF x
<1> QED  BY <1>16 DEF ws

\* What toDataPrefix() finds is what the loop finds in all the text.
LEMMA PrefixFound ==
    ASSUME NEW T \in Seq(Char), NEW u \in Seq(Char), NEW F \in Seq(Char), NEW vs,
           ~ WhiteSpaceOnly(F), Behind(T, F, vs),
           NEW J, J = Joined(F, u), NEW z, z = ToData(J, 1).next - PrefixSize(F),
           NEW q, q = Loop(T, 1).last
    PROVE  /\ ToData(T \o u, q).next = Len(T) + z /\ z \in 1..Len(u) + 1
           /\ ToData(T \o u, q).failed <=> ToData(J, 1).failed
           /\ ToData(T \o u, q).value = ToData(J, 1).value
<1> DEFINE t == T \o u
           G == F \o u
           a == After({Space}, F, 1)
           w == After(Char \ {Space}, u, 1)
           c == PrefixSize(F)
           k == ToData(J, 1).next
<1>1. PICK s \in Seq(Char) :
          /\ T = s \o F
          /\ Loop(T, 1).next = Len(T) + 1
          /\ q \in 1..Len(s) + 1
          /\ \A m \in q..Len(s) : s[m] = Space
  BY DEF Behind
<1>2. IsJoined(F, u, a, w, c, J)  BY JoinedFacts
<1> HIDE DEF a, w, c, k
<1>3. /\ a \in 1..Len(F) /\ (\A m \in 1..a - 1 : F[m] = Space)
      /\ w \in 1..Len(u) + 1 /\ (w <= Len(u) => u[w] = Space)
      /\ c \in 1..Len(F) /\ a + c = Len(F) + 1
      /\ J \in Seq(Char) /\ Len(J) = c + w
      /\ \A m \in 1..c : J[m] = F[(a + m) - 1]
      /\ \A m \in 1..w - 1 : J[c + m] = u[m]
      /\ J[Len(J)] = Space
      /\ k \in 1..Len(J)
  BY <1>2 DEF IsJoined, k
<1>4. Len(s) \in Nat /\ Len(F) \in Nat /\ Len(u) \in Nat  OBVIOUS
<1>5. /\ G \in Seq(Char) /\ Len(G) = Len(F) + Len(u)
      /\ \A i \in 1..Len(F) : G[i] = F[i]
  BY ConcatFacts
<1>6. \A i \in 1..Len(u) : G[Len(F) + i] = u[i]  BY ConcatFacts
<1>7. Len(T) = Len(s) + Len(F)  BY <1>1, ConcatFacts
<1>8. t = s \o G
  <2>1. Joins(s, F, u)  BY ConcatJoins
  <2> QED  BY <2>1, <1>1 DEF Joins
<1> HIDE DEF G
\* What J and G have in common.
<1>20. PICK n \in Nat : \/ w <= Len(u) /\ n = c + w
                        \/ w = Len(u) + 1 /\ n = (c + w) - 1
  <2> DEFINE y == Len(u)
  <2>1. y \in Nat /\ w \in 1..y + 1 /\ c \in Nat  BY <1>3, <1>4
  <2> HIDE DEF y
  <2>2. CASE w <= y
    <3>1. c + w \in Nat  BY <2>1
    <3> QED  BY <2>2, <3>1 DEF y
  <2>3. CASE w = y + 1
    <3>1. (c + w) - 1 \in Nat  BY <2>1
    <3> QED  BY <2>3, <3>1 DEF y
  <2> QED  BY <2>1, <2>2, <2>3
<1>21. /\ a \in Int /\ c \in Int /\ w \in Int /\ k \in Int
       /\ 1 <= a /\ 1 <= c /\ 1 <= w /\ 1 <= k /\ k <= Len(J)
       /\ a + c = Len(F) + 1 /\ w <= Len(u) + 1
       /\ Len(J) = c + w /\ Len(G) = Len(F) + Len(u)
  BY <1>3, <1>5
<1>9. /\ ToData(G, a).next - a = k - 1
      /\ (ToData(G, a).failed <=> ToData(J, 1).failed)
      /\ ToData(G, a).value = ToData(J, 1).value
  <2>1. /\ (c + w) - 1 <= n /\ n <= c + w
        /\ n = c + w => w <= Len(u)
        /\ 1 + n <= Len(J) + 1 /\ a + n <= Len(G) + 1
        /\ k < 1 + n \/ (k <= 1 + n /\ a + n = Len(G) + 1)
    <3> DEFINE y == Len(u)
               fl == Len(F)
               jl == Len(J)
               gl == Len(G)
    <3>1. /\ y \in Nat /\ fl \in Nat /\ jl \in Nat /\ gl \in Nat
          /\ a \in Int /\ c \in Int /\ w \in Int /\ k \in Int
          /\ 1 <= a /\ 1 <= c /\ 1 <= w /\ 1 <= k /\ k <= jl
          /\ a + c = fl + 1 /\ w <= y + 1
          /\ jl = c + w /\ gl = fl + y
      BY <1>4, <1>5, <1>21
    <3>2. \/ w <= y /\ n = c + w
          \/ w = y + 1 /\ n = (c + w) - 1
      BY <1>20
    <3> HIDE DEF y, fl, jl, gl
    <3>3. /\ (c + w) - 1 <= n /\ n <= c + w
          /\ n = c + w => w <= y
          /\ 1 + n <= jl + 1 /\ a + n <= gl + 1
          /\ k < 1 + n \/ (k <= 1 + n /\ a + n = gl + 1)
      BY <3>1, <3>2
    <3> QED  BY <3>3 DEF y, jl, gl
  <2>2. 1 \in 1..Len(J) + 1 /\ a \in 1..Len(G) + 1
    <3> DEFINE jl == Len(J)
               gl == Len(G)
    <3>1. n \in Nat /\ jl \in Nat /\ gl \in Nat /\ a \in Int /\ 1 <= a /\ a + n <= gl + 1
      BY <1>3, <1>5, <1>21, <2>1
    <3> HIDE DEF jl, gl
    <3>2. 1 \in 1..jl + 1 /\ a \in 1..gl + 1  BY <3>1
    <3> QED  BY <3>2 DEF jl, gl
  <2>4. ASSUME NEW m \in 0..n - 1 PROVE J[1 + m] = G[a + m]
    <3>0. m \in Nat /\ m + 1 <= n /\ n <= c + w /\ n \in Nat  BY <2>1
    <3>1. CASE m < c
      <4>1. 1 + m \in 1..c /\ (a + (1 + m)) - 1 = a + m /\ a + m \in 1..Len(F)
        BY <3>0, <3>1, <1>21, <1>4
      <4>2. J[1 + m] = F[(a + (1 + m)) - 1]  BY <4>1, <1>3
      <4>3. G[a + m] = F[a + m]  BY <4>1, <1>5
      <4> QED  BY <4>1, <4>2, <4>3
    <3>2. CASE c <= m
      <4> DEFINE i == (m + 1) - c
      <4>1. i \in 1..w /\ c + i = 1 + m /\ Len(F) + i = a + m
        <5> DEFINE fl == Len(F)
        <5>1. /\ fl \in Nat /\ m \in Nat /\ a \in Int /\ c \in Int /\ w \in Int
              /\ m + 1 <= c + w /\ c <= m /\ a + c = fl + 1
          BY <3>0, <3>2, <1>21, <1>4
        <5> HIDE DEF fl
        <5>2. i \in 1..w /\ c + i = 1 + m /\ fl + i = a + m  BY <5>1
        <5> QED  BY <5>2 DEF fl
      <4> HIDE DEF i
      <4>2. CASE i < w
        <5> DEFINE y == Len(u)
        <5>4. y \in Nat /\ w <= y + 1  BY <1>4, <1>21
        <5> HIDE DEF y
        <5>5. i \in 1..w - 1 /\ i \in 1..y  BY <4>1, <4>2, <1>21, <5>4
        <5>1. i \in 1..w - 1 /\ i \in 1..Len(u)  BY <5>5 DEF y
        <5>2. J[c + i] = u[i]  BY <5>1, <1>3
        <5>3. G[Len(F) + i] = u[i]  BY <5>1, <1>6
        <5> QED  BY <4>1, <5>2, <5>3
      <4>3. CASE i = w
        <5>1. n = c + w /\ 1 + m = Len(J)  BY <3>0, <4>1, <4>3, <1>21
        <5>2. w \in 1..Len(u)  BY <5>1, <2>1, <1>21, <1>4
        <5>3. u[w] = Space  BY <5>2, <1>3
        <5>4. G[Len(F) + w] = u[w]  BY <5>2, <1>6
        <5>5. J[1 + m] = Space  BY <5>1, <1>3
        <5> QED  BY <4>1, <4>3, <5>3, <5>4, <5>5
      <4> QED  BY <4>1, <4>2, <4>3, <1>21
    <3>3. m \in Int /\ c \in Int  BY <3>0, <1>21
    <3> QED  BY <3>1, <3>2, <3>3
  <2>5. Common(J, 1, G, a, n)  BY <2>1, <2>4 DEF Common
  <2>6. Within(ToData(J, 1).next, 1, G, a, n)  BY <2>1 DEF Within, k
  <2> DEFINE X == ToData(J, 1)
             Y == ToData(G, a)
  <2>8. J \in Seq(Char) /\ G \in Seq(Char)  BY <1>3, <1>5
  <2>7. /\ Y.next - a = X.next - 1
        /\ Y.failed <=> X.failed
        /\ Y.value = X.value
    BY <2>2, <2>5, <2>6, <2>8, ToDataInCommon
  <2> QED  BY <2>7 DEF k
<1>10. ToData(G, 1) = ToData(G, a)
  <2>1. 1 \in 1..Len(G) + 1 /\ a \in 1..Len(G) + 1  BY <1>3, <1>4, <1>5
  <2>2. \A m \in 1..a - 1 : G[m] = Space
    <3> SUFFICES ASSUME NEW m \in 1..a - 1 PROVE G[m] = Space  OBVIOUS
    <3>1. m \in 1..Len(F)  BY <1>3, <1>4
    <3> QED  BY <3>1, <1>3, <1>5
  <2> QED  BY <2>1, <2>2, <1>5, SpacesSkipped
<1> DEFINE r == Len(s) + 1
<1>11. 1 \in 1..Len(G) + 1  BY <1>4, <1>5
<1>12. /\ r \in 1..Len(t) + 1 /\ Len(t) = Len(s) + Len(G)
       /\ ToData(t, r).next = Len(s) + ToData(G, 1).next
       /\ ToData(t, r).failed <=> ToData(G, 1).failed
       /\ ToData(t, r).value = ToData(G, 1).value
  <2>1. G \in Seq(Char)  BY <1>5
  <2> DEFINE v == s \o G
  <2>2. /\ r \in 1..Len(v) + 1 /\ Len(v) = Len(s) + Len(G)
        /\ ToData(v, r).next = Len(s) + ToData(G, 1).next
        /\ ToData(v, r).failed <=> ToData(G, 1).failed
        /\ ToData(v, r).value = ToData(G, 1).value
    BY <1>11, <2>1, ToDataShift
  <2>3. t = v  BY <1>8
  <2> HIDE DEF v, t
  <2> QED  BY <2>2, <2>3
<1>13. \A i \in 1..Len(s) : t[i] = s[i]  BY <1>5, <1>8, ConcatFacts
<1>14. t \in Seq(Char)  BY ConcatFacts
<1> HIDE DEF t
<1>15. q \in 1..Len(t) + 1 /\ r \in q..Len(t) + 1  BY <1>1, <1>4, <1>12
<1>16. \A m \in q..r - 1 : t[m] = Space
  <2> SUFFICES ASSUME NEW m \in q..r - 1 PROVE t[m] = Space  OBVIOUS
  <2>1. m \in q..Len(s) /\ m \in 1..Len(s)  BY <1>1, <1>4
  <2> QED  BY <2>1, <1>1, <1>13
<1>17. ToData(t, q) = ToData(t, r)  BY <1>14, <1>15, <1>16, SpacesSkipped
<1> DEFINE X == ToData(t, q).next
           x == Len(T)
           y == Len(u)
           zz == k - c
<1>24. z = zz  BY DEF k, c
<1>18. X = x + zz
  <2> DEFINE g == ToData(G, a).next
             e == Len(s)
             fl == Len(F)
  <2>1. g - a = k - 1 /\ X = e + g /\ zz = k - c /\ x = e + fl
    BY <1>7, <1>9, <1>10, <1>12, <1>17 DEF k, c
  <2>2. a \in 1..Len(G) + 1 /\ G \in Seq(Char)
    <3> DEFINE gl == Len(G)
    <3>1. gl = Len(F) + Len(u) /\ a + c = Len(F) + 1 /\ 1 <= c /\ 1 <= a /\ c \in Int /\ a \in Int
      BY <1>21
    <3> HIDE DEF gl
    <3>2. a \in 1..gl + 1  BY <3>1, <1>4
    <3> QED  BY <3>2, <1>5 DEF gl
  <2>3. g \in Int
    <3>1. g \in a..Len(G) + 1  BY <2>2, ToDataType
    <3> QED  BY <3>1
  <2>4. a \in Int /\ c \in Int /\ k \in Int /\ a + c = fl + 1 /\ e \in Int /\ fl \in Int
    BY <1>4, <1>21
  <2> HIDE DEF g, e, fl, X, x, zz
  <2> QED  BY <2>1, <2>3, <2>4
<1>19. zz \in 1..y + 1
  <2>1. 1 \in 1..Len(T) + 1 /\ x \in Nat  OBVIOUS
  <2>2. Loop(T, 1).next = ToData(T, q).next  BY <2>1, LoopFacts
  <2>3. q \in 1..Len(T) + 1  BY <1>1, <1>4, <1>7
  <2>4. ToData(T, q).next = Len(T) + 1  BY <2>2, <1>1
  <2>5. X >= x + 1  BY <2>3, <2>4, ToDataPrefix DEF t
  <2>6. /\ k \in Int /\ c \in Int /\ k <= c + w /\ w \in Int /\ w <= Len(u) + 1
        /\ Len(u) \in Nat
    BY <1>4, <1>21
  <2>7. zz = k - c  OBVIOUS
  <2> HIDE DEF X, x, y, zz
  <2>8. y \in Nat /\ w <= y + 1  BY <2>6 DEF y
  <2> QED  BY <2>1, <2>5, <2>6, <2>7, <2>8, <1>18
<1> HIDE DEF X, x, y, zz
<1>22. /\ ToData(t, q).failed <=> ToData(J, 1).failed
       /\ ToData(t, q).value = ToData(J, 1).value
  BY <1>9, <1>10, <1>12, <1>17
<1>23. ToData(t, q).next = Len(T) + z  BY <1>18, <1>24 DEF X, x
<1> QED  BY <1>19, <1>22, <1>23, <1>24 DEF t, y

\* A piece in which the fragment's value ends.
LEMMA FragmentEnds ==
    ASSUME NEW T \in Seq(Char), NEW u \in Seq(Char), NEW F \in Seq(Char), NEW vs \in Seq(Value),
           ~ WhiteSpaceOnly(F), Behind(T, F, vs),
           NEW J, J = Joined(F, u), ~ ToData(J, 1).failed,
           NEW z, z = ToData(J, 1).next - PrefixSize(F), z <= Len(u),
           NEW l, l = Loop(u, z), l.next = Len(u) + 1,
           NEW R, R = SubSeq(u, l.last, Len(u)),
           NEW ws, ws = <<ToData(J, 1).value>> \o l.values
    PROVE  /\ R \in Seq(Char) /\ Behind(T \o u, R, vs \o ws)
           /\ WhiteSpaceOnly(R) => Behind(T \o u, << >>, vs \o ws)
<1> DEFINE t == T \o u
           x == Len(T)
           q == Loop(T, 1).last
           L == Loop(t, 1)
           lq == Loop(t, q)
           y == Len(u)
<1>1. /\ ToData(t, q).next = x + z /\ z \in 1..y + 1
      /\ ToData(t, q).failed <=> ToData(J, 1).failed
      /\ ToData(t, q).value = ToData(J, 1).value
  BY PrefixFound
<1>2. x \in Nat /\ y \in Nat /\ t \in Seq(Char) /\ Len(t) = x + y  BY ConcatFacts
<1>3. 1 \in 1..Len(T) + 1  OBVIOUS
<1>4. q \in 1..Len(T) + 1 /\ Loop(T, 1).values = vs
  <2>1. Loop(T, 1).last \in 1..Len(T) + 1  BY <1>3, LoopFacts
  <2> QED  BY <2>1 DEF Behind
<1>5. L.values = vs \o lq.values /\ L.last = lq.last /\ L.next = lq.next
  <2>1. GoesOn(T, u, 1)  BY <1>3, LoopGoesOn
  <2> QED  BY <2>1, <1>4 DEF GoesOn
<1>6. Shifted(T, u, z)  BY <1>1, LoopShift
<1> DEFINE k == ToData(t, q).next
           v == ToData(t, q).value
           lk == Loop(t, k)
<1>7. /\ lk.values = l.values /\ lk.last = x + l.last /\ lk.next = x + l.next
  BY <1>1, <1>6 DEF Shifted
<1>8. k # Len(t) + 1
  <2> DEFINE e == z
  <2> HIDE DEF x, y, k, e
  <2>1. e \in 1..y + 1 /\ k = x + e /\ e <= y  BY <1>1 DEF k, x, y, e
  <2> DEFINE n == Len(t)
  <2>2. n = x + y  BY <1>2
  <2> HIDE DEF n
  <2>3. k # n + 1  BY <2>1, <2>2, <1>2
  <2> QED  BY <2>3 DEF n
<1> HIDE DEF t, q, L, lk
<1>9. q \in 1..Len(t) + 1
  <2> DEFINE n == Len(t)
  <2>1. n = x + y /\ q \in 1..x + 1  BY <1>2, <1>4
  <2> HIDE DEF n, x, y
  <2>2. q \in 1..n + 1  BY <2>1, <1>2
  <2> QED  BY <2>2 DEF n
<1>10. ~ Ends(t, q)  BY <1>1, <1>8 DEF Ends
<1>11. lq.values = <<v>> \o lk.values /\ lq.last = lk.last /\ lq.next = lk.next
  <2>1. t \in Seq(Char)  BY <1>2
  <2>2. lq.values = <<v>> \o Loop(t, k).values  BY <2>1, <1>9, <1>10, LoopFacts
  <2>3. lq.last = Loop(t, k).last  BY <2>1, <1>9, <1>10, LoopFacts
  <2>4. lq.next = Loop(t, k).next  BY <2>1, <1>9, <1>10, LoopFacts
  <2> QED  BY <2>2, <2>3, <2>4 DEF lk
<1> HIDE DEF v, lq, k, x, y
<1>12. v = ToData(J, 1).value  BY <1>1 DEF v
<1>13. L.values = vs \o ws /\ L.last = x + l.last /\ L.next = x + l.next
  <2>1. lq.values = ws  BY <1>7, <1>11, <1>12
  <2> QED  BY <2>1, <1>5, <1>7, <1>11
<1>14. L = Loop(T \o u, 1)  BY DEF L, t
<1>15. z \in 1..Len(u) + 1  BY <1>1 DEF y
<1> DEFINE vw == vs \o ws
<1>16. L.values = vw /\ L.last = Len(T) + l.last /\ L.next = Len(T) + l.next  BY <1>13 DEF x
<1> HIDE DEF vw, L
<1>17. /\ R \in Seq(Char) /\ Behind(T \o u, R, vw)
       /\ WhiteSpaceOnly(R) => Behind(T \o u, << >>, vw)
  BY <1>14, <1>15, <1>16, BehindRest
<1> QED  BY <1>17 DEF vw

\* A piece in which it does not end is all digits, after a digit or a sign.
LEMMA FragmentGoesOn ==
    ASSUME NEW F \in Seq(Char), NEW u \in Seq(Char), u # << >>, ~ WhiteSpaceOnly(F),
           NEW J, J = Joined(F, u),
           ToData(J, 1).next - PrefixSize(F) = Len(u) + 1
    PROVE  /\ \A i \in 1..Len(u) : u[i] \in Digit
           /\ F[Len(F)] \in Digit \union {Sign}
<1> DEFINE a == After({Space}, F, 1)
           w == After(Char \ {Space}, u, 1)
           c == PrefixSize(F)
           k == ToData(J, 1).next
           y == Len(u)
           f == Len(F)
           n == Len(J)
<1>1. IsJoined(F, u, a, w, c, J)  BY JoinedFacts
<1> HIDE DEF a, w, c, k
<1>2. /\ a \in 1..f /\ w \in 1..y + 1
      /\ c \in 1..f /\ a + c = f + 1
      /\ J \in Seq(Char) /\ n = c + w
      /\ \A m \in 1..c : J[m] = F[(a + m) - 1]
      /\ \A m \in 1..w - 1 : J[c + m] = u[m]
      /\ J[1] # Space
      /\ k \in 1..n
  BY <1>1 DEF IsJoined, k
<1>3. y \in Nat \ {0} /\ f \in Nat  BY EmptySeq
<1>4. k - c = y + 1  BY DEF k, c
<1> HIDE DEF y, f
<1>5. w = y + 1 /\ k = c + w /\ n = k  BY <1>2, <1>3, <1>4
<1> DEFINE i == Start(J, 1)
           j == FirstDigit(J, 1)
<1>6. /\ i \in 1..Len(J) + 1 /\ \A m \in 1..i - 1 : J[m] = Space
      /\ i <= Len(J) => J[i] # Space
      /\ \/ j = i /\ (i <= Len(J) => J[i] # Sign)
         \/ j = i + 1 /\ i <= Len(J) /\ J[i] = Sign
      /\ \A m \in j..k - 1 : J[m] \in Digit
  <2>1. 1 \in 1..Len(J) + 1 /\ J \in Seq(Char)  BY <1>2
  <2>2. i \in 1..Len(J) + 1 /\ \A m \in 1..i - 1 : J[m] = Space  BY <2>1, ToDataFacts
  <2>3. i <= Len(J) => J[i] # Space  BY <2>1, ToDataFacts
  <2>4. \/ j = i /\ (i <= Len(J) => J[i] # Sign)
        \/ j = i + 1 /\ i <= Len(J) /\ J[i] = Sign
    BY <2>1, ToDataFacts
  <2>5. \A m \in j..ToData(J, 1).next - 1 : J[m] \in Digit  BY <2>1, ToDataFacts
  <2> QED  BY <2>2, <2>3, <2>4, <2>5 DEF k
<1> HIDE DEF i, j
<1>7. i = 1
  <2>1. i \in Nat \ {0}  BY <1>6
  <2>2. CASE i > 1
    <3>1. 1 \in 1..i - 1  BY <2>1, <2>2
    <3> QED  BY <3>1, <1>2, <1>6
  <2> QED  BY <2>1, <2>2
<1>8. j \in {1, 2} /\ (j = 2 => J[1] = Sign)  BY <1>6, <1>7
<1> HIDE DEF n
<1>9. \A m \in 1..k - 1 : J[m] \in Digit \union {Sign} /\ (m >= 2 => J[m] \in Digit)
  <2> SUFFICES ASSUME NEW m \in 1..k - 1
               PROVE  J[m] \in Digit \union {Sign} /\ (m >= 2 => J[m] \in Digit)
    OBVIOUS
  <2>1. k \in Int /\ m \in Int  BY <1>2, <1>5
  <2>2. CASE m >= j
    <3>1. m \in j..k - 1  BY <2>1, <2>2, <1>8
    <3> QED  BY <3>1, <1>6
  <2>3. CASE m < j
    <3>1. m = 1 /\ j = 2  BY <2>1, <2>3, <1>8
    <3> QED  BY <3>1, <1>8
  <2> QED  BY <2>1, <2>2, <2>3, <1>8
<1>10. ASSUME NEW m \in 1..y PROVE u[m] \in Digit
  <2> DEFINE e == c + m
  <2>1. m \in 1..w - 1 /\ e \in 1..k - 1 /\ e >= 2 /\ m \in Int  BY <1>2, <1>3, <1>5
  <2>2. J[e] = u[m]  BY <2>1, <1>2
  <2> HIDE DEF e
  <2> QED  BY <2>1, <2>2, <1>9
<1>11. F[f] \in Digit \union {Sign}
  <2>1. c \in 1..k - 1 /\ c \in 1..c /\ (a + c) - 1 = f  BY <1>2, <1>3, <1>5
  <2>2. J[c] = F[f]  BY <2>1, <1>2
  <2> QED  BY <2>1, <2>2, <1>9
<1> QED  BY <1>10, <1>11 DEF y, f

\* What the loop makes of a piece that does not end within the fragment's value.
LEMMA ConvertedFrom ==
    ASSUME TypeOK, NEW text \in Piece, NEW before \in [1..Overrun(text) -> Char],
           NEW read, read = before \o text,
           NEW z, z = Begun(text).next, z \in 1..Len(text),
           NEW l, l = Loop(text, z), ReachesEnd(text, read)
    PROVE  /\ Converted(text, read).values = Begun(text).values \o l.values
           /\ Rest(text, read) = SubSeq(text, l.last, Len(text))
           /\ l.next = Len(text) + 1
<1> DEFINE c == Converted(text, read)
           b == Begun(text)
           o == Overrun(text)
<1>1. text \in Seq(Char) /\ Len(text) \in Nat \ {0}  BY PieceFacts
<1>2. o = 0
  <2>1. z \in Int /\ z >= 1  OBVIOUS
  <2> QED  BY <2>1, BegunFacts
<1>3. read = text  BY <1>2, ReadFacts
<1>4. z + o = z /\ z # Len(text) + 1 /\ z \in 1..Len(text) + 1
  <2> DEFINE y == Len(text)
             e == z
  <2>1. y \in Nat /\ e \in 1..y /\ o = 0  BY <1>1, <1>2
  <2> HIDE DEF y, e, o
  <2>2. e + o = e /\ e # y + 1 /\ e \in 1..y + 1  BY <2>1
  <2> QED  BY <2>2 DEF e, y
<1>5. c = [l EXCEPT !.values = b.values \o @]  BY <1>3, <1>4 DEF Converted
<1>6. l = [values |-> l.values, last |-> l.last, next |-> l.next]  BY <1>1, <1>4, LoopFacts
<1> HIDE DEF b, c
<1>7. c.values = b.values \o l.values /\ c.last = l.last /\ c.next = l.next
  <2> DEFINE h == l
             v == h.values
             x == h.last
             n == h.next
  <2>1. h = [values |-> v, last |-> x, next |-> n]  BY <1>6
  <2>4. c = [h EXCEPT !.values = b.values \o @]  BY <1>5
  <2> HIDE DEF v, x, n, h
  <2>5. h.values = v  BY <2>1
  <2>6. c = [h EXCEPT !.values = b.values \o v]  BY <2>4, <2>5
  <2>2. c = [values |-> b.values \o v, last |-> x, next |-> n]  BY <2>1, <2>6
  <2>3. c.values = b.values \o v /\ c.last = x /\ c.next = n  BY <2>2
  <2> QED  BY <2>3 DEF v, x, n, h
<1>8. c.next = Len(text) + 1  BY <1>3 DEF ReachesEnd, c
<1>9. Rest(text, read) = SubSeq(text, c.last, Len(text))  BY <1>3 DEF Rest, c
<1> QED  BY <1>7, <1>8, <1>9 DEF b, c

\* The unfinished rest of the pieces.
Unfinished == IF fragment = 0 THEN << >> ELSE stack[fragment]

\* The text t is within the number that the text s ends with.
GoesOnFrom(s, t) == /\ s[Len(s)] \in Digit \union {Sign}
                    /\ \A k \in 1..Len(t) : t[k] \in Digit

\* A piece, unless it is swallowed, leaves the values and the fragment of the text with it.
LEMMA PieceConverted ==
    ASSUME TypeOK, NEW text \in Piece, NEW before \in [1..Overrun(text) -> Char],
           NEW read, read = before \o text, ReachesEnd(text, read),
           NEW T \in Seq(Char), Behind(T, Unfinished, delivered),
           fragment # 0 => ~ GoesOnFrom(stack[fragment], text),
           NEW R, R = Rest(text, read), NEW ws, ws = Converted(text, read).values
    PROVE  /\ R \in Seq(Char) /\ Behind(T \o text, R, delivered \o ws)
           /\ WhiteSpaceOnly(R) => Behind(T \o text, << >>, delivered \o ws)
           /\ ~ Reuses(text, read)
<1>1. text \in Seq(Char) /\ Len(text) \in Nat \ {0}  BY PieceFacts
<1>2. delivered \in Seq(Value)  BY DEF TypeOK, Value
<1> DEFINE z == Begun(text).next
           l == Loop(text, z)
<1>3. CASE fragment = 0
  <2>1. z = 1 /\ Begun(text).values = << >> /\ 1 \in 1..Len(text)  BY <1>1, <1>3, BegunFacts
  <2>2. ws = << >> \o l.values /\ R = SubSeq(text, l.last, Len(text)) /\ l.next = Len(text) + 1
    BY <2>1, ConvertedFrom
  <2>3. Behind(T, << >>, delivered)  BY <1>3 DEF Unfinished
  <2>4. l.values \in Seq(Value)
    <3>1. 1 \in 1..Len(text) + 1  BY <1>1
    <3> QED  BY <1>1, <2>1, <3>1, LoopFacts
  <2>5. ws = l.values  BY <2>2, <2>4, ConcatEmptySeq
  <2>6. /\ R \in Seq(Char) /\ Behind(T \o text, R, delivered \o l.values)
        /\ WhiteSpaceOnly(R) => Behind(T \o text, << >>, delivered \o l.values)
    BY <1>1, <1>2, <2>1, <2>2, <2>3, BehindPiece
  <2>7. ~ Reuses(text, read)  BY <1>3 DEF Reuses
  <2> QED  BY <2>5, <2>6, <2>7
<1>4. CASE fragment # 0
  <2> DEFINE F == stack[fragment]
             J == Joined(F, text)
  <2>1. F \in Seq(Char) /\ ~ WhiteSpaceOnly(F)  BY <1>4, FragmentFacts
  <2>2. /\ Begun(text).values = <<ToData(J, 1).value>>
        /\ z = ToData(J, 1).next - PrefixSize(F)
        /\ Begun(text).failed <=> ToData(J, 1).failed
    BY <1>4, BegunFacts
  <2>3. ~ ToData(J, 1).failed  BY <2>2 DEF ReachesEnd
  <2>4. Behind(T, F, delivered)  BY <1>4 DEF Unfinished
  <2> HIDE DEF F, J
  <2>5. z \in 1..Len(text) + 1
    <3>1. ToData(J, 1).next - PrefixSize(F) \in 1..Len(text) + 1
      BY <1>1, <2>1, <2>4, PrefixFound DEF J
    <3> QED  BY <2>2, <3>1
  <2>6. z # Len(text) + 1
    <3> SUFFICES ASSUME z = Len(text) + 1 PROVE FALSE  OBVIOUS
    <3>1. text # << >>  BY <1>1
    <3>2. GoesOnFrom(F, text)  BY <1>1, <2>1, <2>2, <3>1, FragmentGoesOn DEF J, GoesOnFrom
    <3> QED  BY <3>2, <1>4 DEF F
  <2>7. z \in 1..Len(text) /\ z <= Len(text)
    <3> DEFINE y == Len(text)
               e == z
    <3>1. y \in Nat /\ e \in 1..y + 1 /\ e # y + 1  BY <1>1, <2>5, <2>6
    <3> HIDE DEF y, e
    <3>2. e \in 1..y /\ e <= y  BY <3>1
    <3> QED  BY <3>2 DEF y, e
  <2>8. /\ ws = <<ToData(J, 1).value>> \o l.values
        /\ R = SubSeq(text, l.last, Len(text)) /\ l.next = Len(text) + 1
    <3>1. /\ Converted(text, read).values = Begun(text).values \o l.values
          /\ Rest(text, read) = SubSeq(text, l.last, Len(text)) /\ l.next = Len(text) + 1
      BY <2>7, ConvertedFrom
    <3> HIDE DEF l
    <3> QED  BY <2>2, <3>1
  <2>9. /\ R \in Seq(Char) /\ Behind(T \o text, R, delivered \o ws)
        /\ WhiteSpaceOnly(R) => Behind(T \o text, << >>, delivered \o ws)
    BY <1>1, <1>2, <2>1, <2>2, <2>3, <2>4, <2>7, <2>8, FragmentEnds DEF J
  <2>10. ws # << >>
    <3>1. l.values \in Seq(Value)  BY <1>1, <2>5, LoopFacts
    <3>2. ToData(J, 1).value \in Value
      <4>1. J \in Seq(Char)  BY <1>4, BegunFacts DEF J, F
      <4>2. 1 \in 1..Len(J) + 1  BY <4>1
      <4> QED  BY <4>1, <4>2, ToDataType DEF Value
    <3> DEFINE v == ToData(J, 1).value
               m == l.values
    <3> HIDE DEF v, m
    <3>3. Len(<<v>> \o m) # 0  BY <3>1, <3>2 DEF v, m
    <3> QED  BY <3>3, <2>8 DEF v, m
  <2>11. ~ Reuses(text, read)  BY <2>10 DEF Reuses
  <2> QED  BY <2>9, <2>11
<1> QED  BY <1>3, <1>4

\* No piece is swallowed by a number that began before it.
NoneSwallowed(s) ==
    \A i \in 1..Len(s) : ~ /\ i > 1 /\ Last(s[i - 1]) \in Digit \union {Sign}
                           /\ \A k \in 1..Len(s[i]) : s[i][k] \in Digit

LEMMA NoneSwallowedBefore ==
    ASSUME NEW s \in Seq(Piece), NEW text \in Piece, NoneSwallowed(Append(s, text))
    PROVE  /\ NoneSwallowed(s)
           /\ s # << >> => ~ GoesOnFrom(Last(s), text)
<1> DEFINE a == Append(s, text)
<1>1. /\ Len(s) \in Nat /\ Len(a) = Len(s) + 1 /\ a[Len(s) + 1] = text
      /\ \A i \in 1..Len(s) : a[i] = s[i]
  OBVIOUS
<1>2. \A i \in 1..Len(a) : ~ /\ i > 1 /\ Last(a[i - 1]) \in Digit \union {Sign}
                             /\ \A k \in 1..Len(a[i]) : a[i][k] \in Digit
  BY DEF NoneSwallowed
<1>3. s # << >> => Len(s) \in Nat \ {0}  BY EmptySeq
<1> HIDE DEF a
<1>4. NoneSwallowed(s)
  <2> SUFFICES ASSUME NEW i \in 1..Len(s), i > 1, Last(s[i - 1]) \in Digit \union {Sign},
                      \A k \in 1..Len(s[i]) : s[i][k] \in Digit
               PROVE  FALSE
    BY DEF NoneSwallowed
  <2>1. i \in 1..Len(a) /\ i - 1 \in 1..Len(s) /\ i \in 1..Len(s)  BY <1>1
  <2>2. a[i - 1] = s[i - 1] /\ a[i] = s[i]  BY <2>1, <1>1
  <2> QED  BY <2>1, <2>2, <1>2
<1>5. ASSUME s # << >>, GoesOnFrom(Last(s), text) PROVE FALSE
  <2> DEFINE n == Len(s) + 1
  <2>1. n \in 1..Len(a) /\ n > 1 /\ n - 1 = Len(s) /\ Len(s) \in 1..Len(s)  BY <1>1, <1>3, <1>5
  <2>2. a[n - 1] = Last(s) /\ a[n] = text  BY <2>1, <1>1 DEF Last
  <2>3. Last(Last(s)) \in Digit \union {Sign} /\ \A k \in 1..Len(text) : text[k] \in Digit
    BY <1>5 DEF GoesOnFrom, Last
  <2> HIDE DEF n
  <2> QED  BY <2>1, <2>2, <2>3, <1>2
<1> QED  BY <1>4, <1>5

Text == FlattenSeq(pieces)

\* The text ends as its last piece does.
EndsWithPiece == IF pieces = << >> THEN Text = << >>
                 ELSE Text # << >> /\ Text[Len(Text)] = Last(Last(pieces))

\* While the element is open, the values delivered are what the loop makes of the text before the
\* fragment; at its end, they are those of all the text.
Faithful ==
    errors = 0 /\ NoneSwallowed(pieces) =>
        \/ element = "open" /\ Behind(Text, Unfinished, delivered)
        \/ element = "ended" /\ fragment = 0 /\ delivered = Values(Text)

LEMMA EndsWithPieceStep ==
    ASSUME TypeOK, EndsWithPiece, NEW text \in Piece, pieces' = Append(pieces, text)
    PROVE  Text \in Seq(Char) /\ Text' = Text \o text /\ EndsWithPiece'
<1>1. text \in Seq(Char) /\ Len(text) \in Nat \ {0} /\ Last(text) = text[Len(text)]  BY PieceFacts
<1>2. pieces \in Seq(Piece)  BY DEF TypeOK
<1>3. pieces \in Seq(Seq(Char))
  <2>1. pieces \in [1..Len(pieces) -> Piece] /\ Len(pieces) \in Nat  BY <1>2
  <2>2. \A i \in 1..Len(pieces) : pieces[i] \in Seq(Char)  BY <2>1, PieceFacts
  <2> QED  BY <2>1, <2>2, <1>2
<1>4. Text \in Seq(Char) /\ Text' = Text \o text  BY <1>1, <1>3, TextOfPieces DEF Text
<1>5. pieces' # << >> /\ Last(pieces') = text
  <2>1. Len(Append(pieces, text)) # 0 /\ Last(Append(pieces, text)) = text  BY <1>2 DEF Last
  <2>2. Append(pieces, text) # << >>  BY <2>1
  <2>3. pieces' = Append(pieces, text)  OBVIOUS
  <2> QED  BY <2>1, <2>2, <2>3
<1>6. Text' # << >> /\ (Text')[Len(Text')] = text[Len(text)]
  <2> DEFINE t == Text
             v == t \o text
             x == Len(t)
             y == Len(text)
  <2>1. t \in Seq(Char) /\ x \in Nat /\ y \in Nat \ {0}  BY <1>1, <1>4
  <2>2. v \in Seq(Char) /\ Len(v) = x + y  BY <2>1, <1>1, ConcatFacts
  <2>3. \A i \in 1..y : v[x + i] = text[i]  BY <2>1, <1>1, ConcatFacts
  <2> HIDE DEF v, x, y
  <2>4. y \in 1..y /\ Len(v) # 0  BY <2>1, <2>2
  <2>5. v # << >> /\ v[Len(v)] = text[y]  BY <2>2, <2>3, <2>4
  <2> QED  BY <2>5, <1>4 DEF v, y
<1> QED  BY <1>1, <1>4, <1>5, <1>6 DEF EndsWithPiece

\* The fragment ends as the text does.
LEMMA FragmentEndsText ==
    ASSUME NEW T \in Seq(Char), NEW F \in Seq(Char), NEW vs, Behind(T, F, vs), F # << >>
    PROVE  T # << >> /\ T[Len(T)] = F[Len(F)]
<1>1. PICK s \in Seq(Char) : T = s \o F  BY DEF Behind
<1> DEFINE v == s \o F
           x == Len(s)
           y == Len(F)
<1>2. x \in Nat /\ y \in Nat \ {0}  BY EmptySeq
<1>3. v \in Seq(Char) /\ Len(v) = x + y  BY ConcatFacts
<1>4. \A i \in 1..y : v[x + i] = F[i]  BY ConcatFacts
<1> HIDE DEF v, x, y
<1>5. y \in 1..y /\ Len(v) # 0  BY <1>2, <1>3
<1>6. v # << >> /\ v[Len(v)] = F[y]  BY <1>3, <1>4, <1>5
<1> QED  BY <1>1, <1>6 DEF v, y

LEMMA FaithfulInit == Init => EndsWithPiece /\ Faithful
<1> SUFFICES ASSUME Init PROVE EndsWithPiece /\ Faithful  OBVIOUS
<1> DEFINE e == << >>
<1>1. pieces = e /\ delivered = e /\ fragment = 0 /\ element = "open"  BY DEF Init
<1>2. e \in Seq(Char) /\ Len(e) = 0 /\ 1 \in 1..Len(e) + 1  OBVIOUS
<1>3. Text = e  BY <1>1, <1>2 DEF Text, FlattenSeq
<1>4. Unfinished = e  BY <1>1 DEF Unfinished
<1>5. e = e \o e  BY <1>2, ConcatEmptySeq
<1>6. ToData(e, 1).failed  BY NoValues
<1> HIDE DEF e
<1>7. Ends(e, 1)  BY <1>6 DEF Ends
<1>8. Loop(e, 1).values = e /\ Loop(e, 1).last = 1 /\ Loop(e, 1).next = ToData(e, 1).next
  BY <1>2, <1>7, LoopFacts DEF e
<1>9. Loop(e, 1).next = 1
  <2>1. Loop(e, 1).next \in 1..Len(e) + 1  BY <1>2, LoopFacts
  <2> QED  BY <2>1, <1>2
<1>10. Behind(e, e, e)
  <2>1. \A m \in Loop(e, 1).last..Len(e) : e[m] = Space  BY <1>2, <1>8
  <2>2. Loop(e, 1).next = Len(e) + 1 /\ Loop(e, 1).last \in 1..Len(e) + 1
    BY <1>2, <1>8, <1>9
  <2>3. /\ e \in Seq(Char) /\ e = e \o e /\ Loop(e, 1).values = e
        /\ Loop(e, 1).next = Len(e) + 1 /\ Loop(e, 1).last \in 1..Len(e) + 1
        /\ \A m \in Loop(e, 1).last..Len(e) : e[m] = Space
    BY <1>2, <1>5, <1>8, <2>1, <2>2
  <2> QED  BY <2>3, Zenon DEF Behind
<1> QED  BY <1>1, <1>3, <1>4, <1>10 DEF EndsWithPiece, Faithful, e

LEMMA FaithfulPiece ==
    ASSUME Enclosed, EndsWithPiece, Faithful, NEW goOn \in BOOLEAN, NEW text \in Piece,
           TextData(text, goOn)
    PROVE  EndsWithPiece' /\ Faithful'
<1>1. TypeOK /\ pieces \in Seq(Piece) /\ stack \in Seq(Seq(Char)) /\ errors \in Nat
  BY DEF Enclosed, TypeOK
<1>2. element = "open" /\ pieces' = Append(pieces, text)  BY DEF TextData
<1>3. Text \in Seq(Char) /\ Text' = Text \o text /\ EndsWithPiece'
  BY <1>1, <1>2, EndsWithPieceStep
<1>4. SUFFICES ASSUME errors' = 0, NoneSwallowed(pieces')
               PROVE  element' = "open" /\ Behind(Text', Unfinished', delivered')
  BY <1>3 DEF Faithful
<1>5. NoneSwallowed(pieces) /\ (pieces # << >> => ~ GoesOnFrom(Last(pieces), text))
  <2>1. NoneSwallowed(Append(pieces, text))  BY <1>2, <1>4
  <2> QED  BY <2>1, <1>1, NoneSwallowedBefore
<1>6. ~ Failed(goOn)  BY <1>1, <1>4 DEF Failed
<1>7. ~ FragmentFails(text, goOn)  BY <1>6 DEF FragmentFails
<1>8. PICK before \in [1..Overrun(text) -> Char] :
          \/ NothingUnfinished(text, before \o text)
          \/ NewFragment(text, before \o text)
          \/ LongerFragment(text, before \o text)
  BY <1>6, <1>7 DEF TextData, LoopFails
<1> DEFINE read == before \o text
           R == Rest(text, read)
           ws == Converted(text, read).values
<1>9. ReachesEnd(text, read) /\ errors' = errors /\ element' = element
  BY <1>8 DEF NothingUnfinished, NewFragment, LongerFragment, Went
<1>10. Behind(Text, Unfinished, delivered)  BY <1>2, <1>4, <1>5, <1>9 DEF Faithful
<1>11. fragment # 0 => ~ GoesOnFrom(stack[fragment], text)
  <2> SUFFICES ASSUME fragment # 0 PROVE ~ GoesOnFrom(stack[fragment], text)  OBVIOUS
  <2> DEFINE F == stack[fragment]
  <2>1. F \in Seq(Char) /\ ~ WhiteSpaceOnly(F)  BY <1>1, FragmentFacts
  <2>2. F # << >>  BY <2>1 DEF WhiteSpaceOnly
  <2>3. Behind(Text, F, delivered)  BY <1>10 DEF Unfinished
  <2> HIDE DEF F
  <2>4. Text # << >> /\ Text[Len(Text)] = F[Len(F)]  BY <1>3, <2>1, <2>2, <2>3, FragmentEndsText
  <2>5. pieces # << >> /\ F[Len(F)] = Last(Last(pieces))  BY <2>4 DEF EndsWithPiece
  <2>6. ~ GoesOnFrom(Last(pieces), text)  BY <2>5, <1>5
  <2>7. ~ GoesOnFrom(F, text)  BY <2>5, <2>6 DEF GoesOnFrom, Last
  <2> QED  BY <2>7 DEF F
<1>12. /\ R \in Seq(Char) /\ Behind(Text \o text, R, delivered \o ws)
       /\ WhiteSpaceOnly(R) => Behind(Text \o text, << >>, delivered \o ws)
       /\ ~ Reuses(text, read)
  <2> DEFINE T == Text
  <2>1. T \in Seq(Char) /\ Behind(T, Unfinished, delivered)  BY <1>3, <1>10
  <2> HIDE DEF T
  <2>2. /\ R \in Seq(Char) /\ Behind(T \o text, R, delivered \o ws)
        /\ WhiteSpaceOnly(R) => Behind(T \o text, << >>, delivered \o ws)
        /\ ~ Reuses(text, read)
    BY <2>1, <1>1, <1>9, <1>11, PieceConverted
  <2> QED  BY <2>2 DEF T
<1>13. CASE NothingUnfinished(text, read)
  <2>1. WhiteSpaceOnly(R) /\ delivered' = delivered \o ws /\ fragment' = 0
    BY <1>13 DEF NothingUnfinished, Cleared
  <2>2. Unfinished' = << >>  BY <2>1 DEF Unfinished
  <2> QED  BY <2>1, <2>2, <1>2, <1>3, <1>9, <1>12
<1>14. CASE NewFragment(text, read)
  <2>1. /\ delivered' = delivered \o ws /\ stack' = Append(Begun(text).stack, R)
        /\ fragment' = Len(stack')
    BY <1>14 DEF NewFragment
  <2>2. Begun(text).stack \in Seq(Seq(Char))
    <3>1. CASE fragment = 0  BY <3>1, <1>1, BegunFacts
    <3>2. CASE fragment # 0
      <4> DEFINE J == Joined(stack[fragment], text)
      <4>1. Begun(text).stack = Append(stack, J) /\ J \in Seq(Char)  BY <3>2, <1>1, BegunFacts
      <4> HIDE DEF J
      <4> QED  BY <4>1, <1>1
    <3> QED  BY <3>1, <3>2
  <2>3. Unfinished' = R
    <3> DEFINE b == Begun(text).stack
    <3> HIDE DEF b, R
    <3>1. /\ Len(Append(b, R)) = Len(b) + 1 /\ Append(b, R)[Len(b) + 1] = R /\ Len(b) \in Nat
      BY <2>2, <1>12 DEF b
    <3>2. stack' = Append(b, R)  BY <2>1 DEF b
    <3>3. fragment' # 0 /\ stack'[fragment'] = R  BY <2>1, <3>1, <3>2
    <3> QED  BY <3>3 DEF Unfinished
  <2> QED  BY <2>1, <2>3, <1>2, <1>3, <1>9, <1>12
<1>15. ~ LongerFragment(text, read)  BY <1>12 DEF LongerFragment
<1> QED  BY <1>8, <1>13, <1>14, <1>15

\* What Faithful says of the values of the text.
LEMMA FaithfulValues ==
    ASSUME TypeOK, Text \in Seq(Char), Behind(Text, Unfinished, delivered)
    PROVE  /\ Values(Text) = delivered \o Values(Unfinished)
           /\ fragment = 0 => Values(Text) = delivered
           /\ fragment # 0 => LET d == ToData(stack[fragment], 1)
                              IN /\ d.next = Len(stack[fragment]) + 1
                                 /\ d.failed => Values(Text) = delivered
                                 /\ ~ d.failed => Values(Text) = Append(delivered, d.value)
<1> DEFINE T == Text
           F == Unfinished
<1>1. T \in Seq(Char) /\ Behind(T, F, delivered)  OBVIOUS
<1>2. delivered \in Seq(Value)  BY DEF TypeOK, Value
<1>3. F \in Seq(Char)
  <2>1. CASE fragment = 0  BY <2>1 DEF Unfinished
  <2>2. CASE fragment # 0  BY <2>2, FragmentFacts DEF Unfinished
  <2> QED  BY <2>1, <2>2
<1> DEFINE d == ToData(F, 1)
<1> HIDE DEF F, T
<1>4. /\ d.next = Len(F) + 1
      /\ d.failed => Values(T) = delivered
      /\ ~ d.failed => Values(T) = Append(delivered, d.value)
      /\ Values(T) = delivered \o Values(F)
  BY <1>1, <1>2, <1>3, BehindValues
<1>5. fragment = 0 => d.failed  BY NoValues DEF F, Unfinished
<1>6. fragment # 0 => F = stack[fragment]  BY DEF F, Unfinished
<1>7. Values(Text) = delivered \o Values(Unfinished)  BY <1>4 DEF T, F
<1>8. fragment = 0 => Values(Text) = delivered  BY <1>4, <1>5 DEF T
<1>9. ASSUME fragment # 0
      PROVE  LET e == ToData(stack[fragment], 1)
             IN /\ e.next = Len(stack[fragment]) + 1
                /\ e.failed => Values(Text) = delivered
                /\ ~ e.failed => Values(Text) = Append(delivered, e.value)
  BY <1>4, <1>6, <1>9 DEF T
<1> QED  BY <1>7, <1>8, <1>9

LEMMA TextType == TypeOK => Text \in Seq(Char)
<1> SUFFICES ASSUME TypeOK PROVE Text \in Seq(Char)  OBVIOUS
<1>1. pieces \in Seq(Piece)  BY DEF TypeOK
<1>2. pieces \in [1..Len(pieces) -> Piece] /\ Len(pieces) \in Nat  BY <1>1
<1>3. \A i \in 1..Len(pieces) : pieces[i] \in Seq(Char)  BY <1>2, PieceFacts
<1>4. pieces \in Seq(Seq(Char))  BY <1>1, <1>2, <1>3
<1>5. << >> \in Seq(Char)  OBVIOUS
<1> QED  BY <1>4, <1>5, TextOfPieces DEF Text

LEMMA FaithfulEnd ==
    ASSUME Enclosed, EndsWithPiece, Faithful, NEW goOn \in BOOLEAN, DataEnd(goOn)
    PROVE  EndsWithPiece' /\ Faithful'
<1>1. TypeOK /\ errors \in Nat /\ pieces' = pieces /\ element = "open" /\ Text \in Seq(Char)
  BY TextType DEF Enclosed, TypeOK, DataEnd
<1>2. Text' = Text /\ EndsWithPiece'  BY <1>1 DEF Text, EndsWithPiece
<1>3. SUFFICES ASSUME errors' = 0, NoneSwallowed(pieces)
               PROVE  element' = "ended" /\ fragment' = 0 /\ delivered' = Values(Text)
  BY <1>1, <1>2 DEF Faithful
<1>4. CASE fragment = 0
  <2>1. element' = "ended" /\ fragment' = 0 /\ delivered' = delivered /\ errors' = errors
    BY <1>4 DEF DataEnd
  <2>2. Behind(Text, Unfinished, delivered)  BY <2>1, <1>1, <1>3 DEF Faithful
  <2>3. Values(Text) = delivered  BY <2>2, <1>1, <1>4, FaithfulValues
  <2> QED  BY <2>1, <2>3
<1>5. CASE fragment # 0
  <2> DEFINE d == ToData(stack[fragment], 1)
             reported == d.failed /\ d.next <= Len(stack[fragment])
  <2>1. /\ fragment' = 0
        /\ delivered' = IF d.failed THEN delivered ELSE Append(delivered, d.value)
        /\ errors' = IF reported THEN errors + 1 ELSE errors
        /\ element' = IF reported /\ ~ goOn THEN "aborted" ELSE "ended"
    BY <1>5 DEF DataEnd, EndsWith
  <2> HIDE DEF reported
  <2>2. ~ reported /\ errors = 0  BY <2>1, <1>1, <1>3
  <2>3. Behind(Text, Unfinished, delivered)  BY <2>2, <1>1, <1>3 DEF Faithful
  <2>4. /\ d.failed => Values(Text) = delivered
        /\ ~ d.failed => Values(Text) = Append(delivered, d.value)
    BY <2>3, <1>1, <1>5, FaithfulValues
  <2> QED  BY <2>1, <2>2, <2>4
<1> QED  BY <1>4, <1>5

LEMMA FaithfulStep == Enclosed /\ EndsWithPiece /\ Faithful /\ [Next]_vars => (EndsWithPiece /\ Faithful)'
<1> SUFFICES ASSUME Enclosed, EndsWithPiece, Faithful, [Next]_vars
             PROVE  EndsWithPiece' /\ Faithful'
  OBVIOUS
<1>1. CASE UNCHANGED vars
  BY <1>1 DEF vars, EndsWithPiece, Faithful, Text, Unfinished
<1>2. CASE Next  BY <1>2, FaithfulPiece, FaithfulEnd DEF Next
<1> QED  BY <1>1, <1>2

LEMMA FaithfulKnown == Enclosed /\ Faithful => PiecesDoNotMatter
<1> SUFFICES ASSUME Enclosed, Faithful, errors = 0, \A i \in 1..Len(pieces) : ~ Swallowed(i)
             PROVE  Known = Values(Text)
  BY DEF PiecesDoNotMatter, Text
<1>1. TypeOK /\ delivered \in Seq(Value) /\ Text \in Seq(Char)
  BY TextType DEF Enclosed, TypeOK, Value
<1>2. NoneSwallowed(pieces)  BY DEF NoneSwallowed, Swallowed
<1>3. CASE element = "open" /\ Behind(Text, Unfinished, delivered)
  <2>1. Values(Text) = delivered \o Values(Unfinished)  BY <1>1, <1>3, FaithfulValues
  <2>2. fragment = 0 => Values(Unfinished) = << >>  BY NoValues DEF Unfinished
  <2>3. fragment # 0 => Unfinished = stack[fragment]  BY DEF Unfinished
  <2> QED  BY <2>1, <2>2, <2>3 DEF Known
<1>4. CASE fragment = 0 /\ delivered = Values(Text)
  <2>1. Known = delivered \o << >>  BY <1>4 DEF Known
  <2>2. delivered \o << >> = delivered  BY <1>1, ConcatEmptySeq
  <2> QED  BY <2>1, <2>2, <1>4
<1> QED  BY <1>2, <1>3, <1>4 DEF Faithful

\* However the reader splits the text of an element, the values delivered, with those in the
\* fragment, are the values of the whole text: for text of any length, any number of pieces, and
\* batches of any size, as long as no value fails and no piece is swallowed by a number.
THEOREM PiecesNeverMatter == Spec => []PiecesDoNotMatter
<1>1. Spec => [](EndsWithPiece /\ Faithful)
  BY FaithfulInit, FaithfulStep, AlwaysEnclosed, PTL DEF Spec
<1> QED  BY <1>1, FaithfulKnown, AlwaysEnclosed, PTL
=============================================================================
