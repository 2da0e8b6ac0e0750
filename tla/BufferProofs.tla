---------------------------- MODULE BufferProofs ----------------------------
(***************************************************************************)
(* Buffering cannot be seen.  The file and the buffer together (Content)   *)
(* are what an unbuffered writer would have written; every call either     *)
(* moves bytes along, from the caller through the buffer to the file       *)
(* (Moved), or is a jump, which comes after everything was moved.          *)
(***************************************************************************)
EXTENDS Buffer, SequenceTheorems, TLAPS

-----------------------------------------------------------------------------
(* Sequences, and writing into a file: Put *)

\* A concatenation, without case distinction.
LEMMA ConcatFacts ==
    ASSUME NEW S, NEW s \in Seq(S), NEW t \in Seq(S)
    PROVE  /\ s \o t \in Seq(S) /\ Len(s \o t) = Len(s) + Len(t)
           /\ \A i \in 1 .. Len(s) : (s \o t)[i] = s[i]
           /\ \A i \in Len(s) + 1 .. Len(s) + Len(t) : (s \o t)[i] = t[i - Len(s)]
<1> DEFINE c == s \o t
<1>1. /\ c \in Seq(S) /\ Len(c) = Len(s) + Len(t)
      /\ \A i \in 1 .. Len(s) + Len(t) : c[i] = IF i <= Len(s) THEN s[i] ELSE t[i - Len(s)]
  BY ConcatProperties
<1>2. Len(s) \in Nat /\ Len(t) \in Nat  OBVIOUS
<1> HIDE DEF c
<1>3. \A i \in 1 .. Len(s) : c[i] = s[i]  BY <1>1, <1>2
<1>4. \A i \in Len(s) + 1 .. Len(s) + Len(t) : c[i] = t[i - Len(s)]  BY <1>1, <1>2
<1> QED  BY <1>1, <1>3, <1>4 DEF c

\* A part of a sequence, or an empty one.
LEMMA SubSeqFacts ==
    ASSUME NEW S, NEW s \in Seq(S), NEW m \in Nat \ {0}, NEW n \in 0 .. Len(s)
    PROVE  /\ SubSeq(s, m, n) \in Seq(S)
           /\ m <= n => Len(SubSeq(s, m, n)) = n - m + 1
           /\ m > n => Len(SubSeq(s, m, n)) = 0 /\ SubSeq(s, m, n) = << >>
           /\ \A i \in 1 .. n - m + 1 : SubSeq(s, m, n)[i] = s[m + i - 1]
<1>1. Len(s) \in Nat /\ m \in Int /\ n \in Int  OBVIOUS
<1>2. \A i \in m .. n : s[i] \in S  BY <1>1
<1>3. /\ SubSeq(s, m, n) \in Seq(S)
      /\ Len(SubSeq(s, m, n)) = IF m <= n THEN n - m + 1 ELSE 0
      /\ \A i \in 1 .. n - m + 1 : SubSeq(s, m, n)[i] = s[m + i - 1]
  BY <1>1, <1>2, SubSeqProperties
<1>4. m <= n => Len(SubSeq(s, m, n)) = n - m + 1  BY <1>3
<1>5. m > n => Len(SubSeq(s, m, n)) = 0  BY <1>1, <1>3
<1>6. m > n => SubSeq(s, m, n) = << >>  BY <1>1, SubSeqEmpty
<1> QED  BY <1>3, <1>4, <1>5, <1>6

\* What Put makes: the old bytes with new ones over them.
LEMMA PutProperties ==
    ASSUME NEW S, NEW c \in Seq(S), NEW s \in Seq(S), NEW p \in 0 .. Len(c)
    PROVE  /\ File!Put(c, p, s) \in Seq(S)
           /\ p + Len(s) > Len(c) => Len(File!Put(c, p, s)) = p + Len(s)
           /\ p + Len(s) <= Len(c) => Len(File!Put(c, p, s)) = Len(c)
           /\ \A i \in p + 1 .. p + Len(s) : File!Put(c, p, s)[i] = s[i - p]
           /\ \A i \in 1 .. Len(c) :
                 i <= p \/ i > p + Len(s) => File!Put(c, p, s)[i] = c[i]
<1> DEFINE a == SubSeq(c, 1, p)
           b == SubSeq(c, p + Len(s) + 1, Len(c))
           h == a \o s
           d == h \o b
<1>1. Len(c) \in Nat /\ Len(s) \in Nat /\ p \in Nat  OBVIOUS
<1>2. a \in Seq(S) /\ Len(a) = p /\ \A i \in 1 .. p : a[i] = c[i]
  <2>1. 1 \in Nat \ {0} /\ p = p - 1 + 1  BY <1>1
  <2>2. /\ a \in Seq(S) /\ (1 <= p => Len(a) = p - 1 + 1) /\ (1 > p => Len(a) = 0)
        /\ \A i \in 1 .. p - 1 + 1 : a[i] = c[1 + i - 1]
    BY <2>1, SubSeqFacts
  <2>3. Len(a) = p  BY <1>1, <2>2
  <2> HIDE DEF a
  <2> QED  BY <1>1, <2>2, <2>3
<1>3. /\ b \in Seq(S)
      /\ p + Len(s) < Len(c) => Len(b) = Len(c) - (p + Len(s))
      /\ p + Len(s) >= Len(c) => Len(b) = 0
      /\ \A i \in 1 .. Len(c) - (p + Len(s)) : b[i] = c[(p + Len(s)) + i]
  <2>1. p + Len(s) + 1 \in Nat \ {0} /\ Len(c) \in 0 .. Len(c)  BY <1>1
  <2>2. /\ b \in Seq(S)
        /\ p + Len(s) + 1 <= Len(c) => Len(b) = Len(c) - (p + Len(s) + 1) + 1
        /\ p + Len(s) + 1 > Len(c) => Len(b) = 0
        /\ \A i \in 1 .. Len(c) - (p + Len(s) + 1) + 1 : b[i] = c[(p + Len(s) + 1) + i - 1]
    BY <2>1, SubSeqFacts
  <2> HIDE DEF b
  <2> QED  BY <1>1, <2>2
<1> HIDE DEF a, b
<1>4. /\ h \in Seq(S) /\ Len(h) = p + Len(s)
      /\ \A i \in 1 .. p : h[i] = c[i]
      /\ \A i \in p + 1 .. p + Len(s) : h[i] = s[i - p]
  <2>1. /\ h \in Seq(S) /\ Len(h) = Len(a) + Len(s)
        /\ \A i \in 1 .. Len(a) : h[i] = a[i]
        /\ \A i \in Len(a) + 1 .. Len(a) + Len(s) : h[i] = s[i - Len(a)]
    <3>1. a \in Seq(S)  BY <1>2
    <3> QED  BY <3>1, ConcatFacts
  <2> HIDE DEF h
  <2> QED  BY <1>2, <2>1
<1>5. d = File!Put(c, p, s)  BY DEF File!Put, a, b
<1> HIDE DEF h
<1>6. /\ d \in Seq(S) /\ Len(d) = p + Len(s) + Len(b)
      /\ \A i \in 1 .. p + Len(s) : d[i] = h[i]
      /\ \A i \in p + Len(s) + 1 .. p + Len(s) + Len(b) : d[i] = b[i - (p + Len(s))]
  <2>1. /\ d \in Seq(S) /\ Len(d) = Len(h) + Len(b)
        /\ \A i \in 1 .. Len(h) : d[i] = h[i]
        /\ \A i \in Len(h) + 1 .. Len(h) + Len(b) : d[i] = b[i - Len(h)]
    BY <1>3, <1>4, ConcatFacts
  <2> HIDE DEF d
  <2> QED  BY <1>4, <2>1
<1> HIDE DEF d
<1>7. /\ p + Len(s) > Len(c) => Len(d) = p + Len(s)
      /\ p + Len(s) <= Len(c) => Len(d) = Len(c)
  <2>1. /\ p + Len(s) < Len(c) => Len(b) = Len(c) - (p + Len(s))
        /\ p + Len(s) >= Len(c) => Len(b) = 0
    BY <1>3
  <2>2. Len(d) = p + Len(s) + Len(b)  BY <1>6
  <2> QED  BY <1>1, <2>1, <2>2
<1>8. \A i \in p + 1 .. p + Len(s) : d[i] = s[i - p]  BY <1>1, <1>4, <1>6
<1>9. ASSUME NEW i \in 1 .. Len(c), i <= p \/ i > p + Len(s) PROVE d[i] = c[i]
  <2>1. CASE i <= p  BY <1>1, <1>4, <1>6, <2>1
  <2>2. CASE i > p + Len(s)
    <3>1. /\ i - (p + Len(s)) \in 1 .. Len(c) - (p + Len(s))
          /\ (p + Len(s)) + (i - (p + Len(s))) = i
          /\ i \in p + Len(s) + 1 .. p + Len(s) + Len(b)
      BY <1>1, <1>3, <2>2
    <3> QED  BY <1>3, <1>6, <3>1
  <2> QED  BY <1>9, <2>1, <2>2
<1> QED  BY <1>5, <1>6, <1>7, <1>8, <1>9

LEMMA PutNothing ==
    ASSUME NEW S, NEW c \in Seq(S), NEW p \in 0 .. Len(c)
    PROVE  File!Put(c, p, << >>) = c
<1> DEFINE s == << >>
           d == File!Put(c, p, s)
<1>1. s \in Seq(S) /\ Len(s) = 0 /\ Len(c) \in Nat /\ p \in Nat  OBVIOUS
<1> HIDE DEF s
<1>2. /\ d \in Seq(S) /\ (p + Len(s) <= Len(c) => Len(d) = Len(c))
      /\ \A i \in 1 .. Len(c) : i <= p \/ i > p + Len(s) => d[i] = c[i]
  <2>1. s \in Seq(S)  BY <1>1
  <2> QED  BY <2>1, PutProperties
<1> HIDE DEF d
<1>3. Len(d) = Len(c) /\ \A i \in 1 .. Len(d) : d[i] = c[i]  BY <1>1, <1>2
<1>4. d = c  BY <1>2, <1>3, SeqEqual
<1> QED  BY <1>4 DEF d, s

\* What is written in two calls may as well be written in one.
LEMMA PutTwice ==
    ASSUME NEW S, NEW c \in Seq(S), NEW s \in Seq(S), NEW t \in Seq(S), NEW p \in 0 .. Len(c)
    PROVE  File!Put(File!Put(c, p, s), p + Len(s), t) = File!Put(c, p, s \o t)
<1> DEFINE st == s \o t
           d == File!Put(c, p, s)
           e == File!Put(d, p + Len(s), t)
           f == File!Put(c, p, st)
<1>1. Len(c) \in Nat /\ Len(s) \in Nat /\ Len(t) \in Nat /\ p \in Nat /\ p <= Len(c)
  OBVIOUS
<1>2. /\ d \in Seq(S)
      /\ p + Len(s) > Len(c) => Len(d) = p + Len(s)
      /\ p + Len(s) <= Len(c) => Len(d) = Len(c)
      /\ \A i \in p + 1 .. p + Len(s) : d[i] = s[i - p]
      /\ \A i \in 1 .. Len(c) : i <= p \/ i > p + Len(s) => d[i] = c[i]
  BY PutProperties
<1> HIDE DEF d
<1>3. p + Len(s) \in 0 .. Len(d)  BY <1>1, <1>2
<1>4. /\ e \in Seq(S)
      /\ p + Len(s) + Len(t) > Len(d) => Len(e) = p + Len(s) + Len(t)
      /\ p + Len(s) + Len(t) <= Len(d) => Len(e) = Len(d)
      /\ \A i \in p + Len(s) + 1 .. p + Len(s) + Len(t) : e[i] = t[i - (p + Len(s))]
      /\ \A i \in 1 .. Len(d) : i <= p + Len(s) \/ i > p + Len(s) + Len(t) => e[i] = d[i]
  <2>1. d \in Seq(S)  BY <1>2
  <2> QED  BY <2>1, <1>3, PutProperties
<1>5. /\ st \in Seq(S) /\ Len(st) = Len(s) + Len(t)
      /\ \A i \in 1 .. Len(s) : st[i] = s[i]
      /\ \A i \in Len(s) + 1 .. Len(s) + Len(t) : st[i] = t[i - Len(s)]
  BY ConcatFacts
<1> HIDE DEF st, e
<1>6. /\ f \in Seq(S)
      /\ p + Len(st) > Len(c) => Len(f) = p + Len(st)
      /\ p + Len(st) <= Len(c) => Len(f) = Len(c)
      /\ \A i \in p + 1 .. p + Len(st) : f[i] = st[i - p]
      /\ \A i \in 1 .. Len(c) : i <= p \/ i > p + Len(st) => f[i] = c[i]
  <2>1. st \in Seq(S)  BY <1>5
  <2> QED  BY <2>1, PutProperties
<1> HIDE DEF f
<1>7. Len(e) = Len(f) /\ Len(e) \in Nat  BY <1>1, <1>2, <1>4, <1>5, <1>6
<1>8. ASSUME NEW i \in 1 .. Len(e) PROVE e[i] = f[i]
  <2>1. CASE i \in p + 1 .. p + Len(s)
    <3>1. i - p \in 1 .. Len(s) /\ i \in p + 1 .. p + Len(st) /\ i \in 1 .. Len(d)
      BY <1>1, <1>2, <1>5, <2>1
    <3>2. e[i] = d[i] /\ d[i] = s[i - p]  BY <1>1, <1>2, <1>4, <2>1, <3>1
    <3>3. f[i] = st[i - p] /\ st[i - p] = s[i - p]  BY <1>5, <1>6, <3>1
    <3> QED  BY <3>2, <3>3
  <2>2. CASE i \in p + Len(s) + 1 .. p + Len(s) + Len(t)
    <3>1. /\ i - p \in Len(s) + 1 .. Len(s) + Len(t) /\ i \in p + 1 .. p + Len(st)
          /\ i - (p + Len(s)) = i - p - Len(s)
      BY <1>1, <1>5, <2>2
    <3>2. e[i] = t[i - (p + Len(s))]  BY <1>4, <2>2
    <3>3. f[i] = st[i - p] /\ st[i - p] = t[i - p - Len(s)]  BY <1>5, <1>6, <3>1
    <3> QED  BY <3>1, <3>2, <3>3
  <2>3. CASE i <= p \/ i > p + Len(s) + Len(t)
    <3>0. p + Len(s) + Len(t) > Len(c) => Len(e) = p + Len(s) + Len(t)
      BY <1>1, <1>5, <1>6, <1>7
    <3>1. i \in 1 .. Len(c)
      <4>1. CASE p + Len(s) + Len(t) > Len(c)  BY <1>1, <2>3, <3>0, <4>1
      <4>2. CASE p + Len(s) + Len(t) <= Len(c)
        <5>1. Len(e) = Len(c)  BY <1>1, <1>5, <1>6, <1>7, <4>2
        <5> QED  BY <5>1
      <4> QED  BY <1>1, <4>1, <4>2
    <3>1a. i \in 1 .. Len(d)  BY <1>1, <1>2, <3>1
    <3>2. /\ i <= p \/ i > p + Len(s)
          /\ i <= p + Len(s) \/ i > p + Len(s) + Len(t)
          /\ i <= p \/ i > p + Len(st)
      BY <1>1, <1>5, <2>3
    <3>3. e[i] = d[i] /\ d[i] = c[i] /\ f[i] = c[i]  BY <1>2, <1>4, <1>6, <3>1, <3>1a, <3>2
    <3> QED  BY <3>3
  <2> QED  BY <1>1, <1>7, <2>1, <2>2, <2>3
<1>9. e = f  BY <1>4, <1>6, <1>7, <1>8, SeqEqual
<1> QED  BY <1>9 DEF d, e, f, st

\* What is written can be read back.
LEMMA PutIsThere ==
    ASSUME NEW S, NEW c \in Seq(S), NEW s \in Seq(S), NEW p \in 0 .. Len(c)
    PROVE  SubSeq(File!Put(c, p, s), p + 1, p + Len(s)) = s
<1> DEFINE d == File!Put(c, p, s)
           r == SubSeq(d, p + 1, p + Len(s))
<1>1. Len(c) \in Nat /\ Len(s) \in Nat /\ p \in Nat /\ p <= Len(c)  OBVIOUS
<1>2. /\ d \in Seq(S)
      /\ p + Len(s) > Len(c) => Len(d) = p + Len(s)
      /\ p + Len(s) <= Len(c) => Len(d) = Len(c)
      /\ \A i \in p + 1 .. p + Len(s) : d[i] = s[i - p]
  BY PutProperties
<1> HIDE DEF d
<1>3. p + 1 \in Nat \ {0} /\ p + Len(s) \in 0 .. Len(d)  BY <1>1, <1>2
<1>4. /\ r \in Seq(S)
      /\ p + 1 <= p + Len(s) => Len(r) = (p + Len(s)) - (p + 1) + 1
      /\ p + 1 > p + Len(s) => Len(r) = 0
      /\ \A i \in 1 .. (p + Len(s)) - (p + 1) + 1 : r[i] = d[p + 1 + i - 1]
  BY <1>2, <1>3, SubSeqFacts
<1> HIDE DEF r
<1>5. Len(r) = Len(s)  BY <1>1, <1>4
<1>6. ASSUME NEW i \in 1 .. Len(r) PROVE r[i] = s[i]
  <2>1. /\ i \in 1 .. (p + Len(s)) - (p + 1) + 1 /\ p + 1 + i - 1 = p + i
        /\ p + i \in p + 1 .. p + Len(s) /\ (p + i) - p = i
    BY <1>1, <1>5
  <2> QED  BY <1>2, <1>4, <2>1
<1>7. r = s  BY <1>4, <1>5, <1>6, SeqEqual
<1> QED  BY <1>7 DEF d, r

-----------------------------------------------------------------------------
(* What a call does to the bytes *)

Byte == 1 .. MaxBytes

\* The first k bytes of the buffer and the first m of the bytes d that a caller hands in are kept:
\* they reach the file or the buffer.  Only a failure loses any.
Moved(d, k, m) ==
    /\ k \in 0 .. Len(buf) /\ m \in 0 .. Len(d)
    /\ \E out \in Seq(Byte) :
          /\ file' = File!Put(file, filePos, out) /\ filePos' = filePos + Len(out)
          /\ out \o buf' = SubSeq(buf, 1, k) \o SubSeq(d, 1, m)
    /\ buf' \in Seq(Byte) /\ Len(buf') <= BufferSize
    /\ flushed' \in Nat
    /\ failures' \in failures .. MaxFailures
    /\ failures' = failures => k = Len(buf) /\ m = Len(d)

\* The types, in the form in which the proofs use them.
LEMMA Types ==
    ASSUME TypeOK
    PROVE  /\ buf \in Seq(Byte) /\ Len(buf) \in 0 .. BufferSize
           /\ file \in Seq(Byte) /\ Len(file) \in Nat /\ filePos \in 0 .. Len(file)
           /\ failures \in 0 .. MaxFailures /\ MaxFailures \in Nat /\ written \in 0 .. MaxBytes
           /\ MaxBytes \in Nat /\ BufferSize \in Nat \ {0} /\ directFlush \in 0 .. BufferSize
           /\ << >> \in Seq(Byte) /\ Len(<< >>) = 0
  BY BufferAssumption DEF TypeOK, Byte

\* The first bytes of a sequence: none, some, all.
LEMMA FirstBytes ==
    ASSUME NEW s \in Seq(Byte)
    PROVE  /\ \A n \in 0 .. Len(s) : SubSeq(s, 1, n) \in Seq(Byte) /\ Len(SubSeq(s, 1, n)) = n
           /\ \A n \in 0 .. Len(s), i \in Nat :
                 i \in 1 .. n => SubSeq(s, 1, n)[i] = s[i]
           /\ SubSeq(s, 1, 0) = << >> /\ SubSeq(s, 1, Len(s)) = s
           /\ s \o << >> = s /\ << >> \o s = s
<1>1. ASSUME NEW n \in 0 .. Len(s)
      PROVE  /\ SubSeq(s, 1, n) \in Seq(Byte) /\ Len(SubSeq(s, 1, n)) = n
             /\ \A i \in Nat : i \in 1 .. n => SubSeq(s, 1, n)[i] = s[i]
  <2> DEFINE t == SubSeq(s, 1, n)
  <2>1. 1 \in Nat \ {0}  OBVIOUS
  <2>2. /\ t \in Seq(Byte) /\ (1 <= n => Len(t) = n - 1 + 1) /\ (1 > n => Len(t) = 0)
        /\ \A i \in 1 .. n - 1 + 1 : t[i] = s[1 + i - 1]
    BY <2>1, SubSeqFacts
  <2> HIDE DEF t
  <2>3. t \in Seq(Byte) /\ Len(t) = n /\ \A i \in Nat : i \in 1 .. n => t[i] = s[i]  BY <2>2
  <2> QED  BY <2>3 DEF t
<1>2. SubSeq(s, 1, 0) = << >>  BY SubSeqEmpty
<1> QED  BY <1>1, <1>2, SubSeqFull, ConcatEmptySeq

\* How many bytes a call of fwrite takes.
LEMMA WholeOrPart ==
    ASSUME TypeOK, NEW s \in Seq(Byte), NEW k \in Whole(s) \union Part(s)
    PROVE  k \in 0 .. Len(s) /\ (k # Len(s) => failures + 1 \in failures .. MaxFailures)
  BY Types DEF Whole, Part

\* A call that hands out to the flusher and leaves rest in the buffer.
LEMMA SendMoves ==
    ASSUME TypeOK, NEW d \in Seq(Byte), NEW k \in 0 .. Len(buf), NEW m \in 0 .. Len(d),
           NEW out \in Seq(Byte), NEW rest \in Seq(Byte), NEW counted \in Nat,
           Send(out, counted), buf' = rest, Len(rest) <= BufferSize,
           out \o rest = SubSeq(buf, 1, k) \o SubSeq(d, 1, m),
           failures' \in failures .. MaxFailures,
           failures' = failures => k = Len(buf) /\ m = Len(d)
    PROVE  Moved(d, k, m)
<1>1. flushed' \in Nat  BY DEF TypeOK, Send
<1> QED  BY <1>1 DEF Moved, Send

\* A flush, whatever it is part of.
LEMMA FlushMoves ==
    ASSUME TypeOK, NEW n \in Whole(buf) \union Part(buf), SendBuffer(n)
    PROVE  Moved(<< >>, n, 0) /\ (n = Len(buf) <=> failures' = failures)
<1> DEFINE out == SubSeq(buf, 1, n)
<1>1. n \in 0 .. Len(buf) /\ (n # Len(buf) => failures + 1 \in failures .. MaxFailures)
  BY Types, WholeOrPart
<1>2. out \in Seq(Byte) /\ << >> \in Seq(Byte) /\ SubSeq(<< >>, 1, 0) = << >> /\ Len(<< >>) = 0
  BY <1>1, Types, FirstBytes
<1>3. Len(buf) \in Nat /\ 0 \in 0 .. Len(<< >>) /\ Len(<< >>) <= BufferSize /\ failures \in Nat
  BY <1>2, Types
<1>4. Send(out, Len(buf)) /\ buf' = << >>  BY DEF SendBuffer
<1>5. /\ failures' \in failures .. MaxFailures /\ (failures' = failures => n = Len(buf))
      /\ (n = Len(buf) => failures' = failures)
  BY <1>1, Types DEF SendBuffer
<1> QED  BY <1>1, <1>2, <1>3, <1>4, <1>5, SendMoves

LEMMA CopyDirectlyMoves ==
    ASSUME TypeOK, NEW d \in Seq(Byte), NEW r \in BOOLEAN, CopyDirectly(d, r)
    PROVE  \E k, m : Moved(d, k, m) /\ (r <=> failures' = failures)
<1>1. CASE r = FALSE /\ \E n \in Part(buf) : SendBuffer(n)
  <2>1. PICK n \in Part(buf) : SendBuffer(n)  BY <1>1
  <2>2. n \in 0 .. Len(buf) - 1 /\ failures < MaxFailures  BY <2>1 DEF Part
  <2>3. Moved(<< >>, n, 0) /\ failures' # failures
    BY <2>1, <2>2, FlushMoves, Types
  <2>4. /\ SubSeq(<< >>, 1, 0) = SubSeq(d, 1, 0) /\ 0 \in 0 .. Len(d)
    BY FirstBytes, Types
  <2>5. Moved(d, n, 0)  BY <2>3, <2>4 DEF Moved
  <2> QED  BY <1>1, <2>3, <2>5
<1>2. ASSUME NEW n \in Whole(d) \union Part(d), r = (n = Len(d)),
             Send(buf \o SubSeq(d, 1, n), Len(buf) + Len(d)), buf' = << >>,
             failures' = IF r THEN failures ELSE failures + 1
      PROVE  Moved(d, Len(buf), n) /\ (r <=> failures' = failures)
  <2> DEFINE out == buf \o SubSeq(d, 1, n)
  <2>1. n \in 0 .. Len(d) /\ (n # Len(d) => failures + 1 \in failures .. MaxFailures)
    BY WholeOrPart
  <2>2. SubSeq(d, 1, n) \in Seq(Byte)  BY <2>1, FirstBytes
  <2>3. out \in Seq(Byte) /\ buf \in Seq(Byte)  BY <2>2, Types, ConcatProperties
  <2>4. out \o << >> = SubSeq(buf, 1, Len(buf)) \o SubSeq(d, 1, n)
    <3>1. SubSeq(buf, 1, Len(buf)) = buf  BY <2>3, FirstBytes
    <3>2. out \o << >> = out  BY <2>3, FirstBytes
    <3> QED  BY <3>1, <3>2
  <2>5. /\ failures' \in failures .. MaxFailures
        /\ r <=> failures' = failures
    <3>1. failures \in 0 .. MaxFailures /\ MaxFailures \in Nat  BY Types
    <3>2. CASE r  BY <1>2, <3>1, <3>2
    <3>3. CASE ~ r
      <4>1. n # Len(d) /\ failures' = failures + 1  BY <1>2, <3>3, Zenon
      <4> QED  BY <2>1, <3>1, <3>3, <4>1
    <3> QED  BY <3>2, <3>3
  <2>6. Len(buf) + Len(d) \in Nat /\ << >> \in Seq(Byte) /\ Len(<< >>) <= BufferSize
    BY Types
  <2>7. Len(buf) \in 0 .. Len(buf)  BY Types
  <2>8. failures' = failures => Len(buf) = Len(buf) /\ n = Len(d)  BY <1>2, <2>5
  <2> HIDE DEF out
  <2>9. Send(out, Len(buf) + Len(d)) /\ buf' = << >>  BY <1>2 DEF out
  <2>10. Moved(d, Len(buf), n)
    BY <2>1, <2>3, <2>4, <2>5, <2>6, <2>7, <2>8, <2>9, SendMoves
  <2> QED  BY <2>5, <2>10
<1> QED  BY <1>1, <1>2 DEF CopyDirectly

LEMMA CopyAfterFlushMoves ==
    ASSUME TypeOK, NEW d \in Seq(Byte), NEW r \in BOOLEAN, CopyAfterFlush(d, r)
    PROVE  \E k, m : Moved(d, k, m) /\ (r <=> failures' = failures)
<1>1. PICK n \in Whole(buf) \union Part(buf) :
         /\ r = (n = Len(buf))
         /\ Send(SubSeq(buf, 1, n), Len(buf))
         /\ buf' = IF r THEN d ELSE << >>
         /\ failures' = IF r THEN failures ELSE failures + 1
  BY DEF CopyAfterFlush
<1> DEFINE out == SubSeq(buf, 1, n)
<1>2. n \in 0 .. Len(buf) /\ (n # Len(buf) => failures + 1 \in failures .. MaxFailures)
  BY <1>1, Types, WholeOrPart
<1>3. out \in Seq(Byte)  BY <1>2, Types, FirstBytes
<1>4. /\ Len(d) <= BufferSize /\ Len(<< >>) <= BufferSize /\ Len(buf) \in Nat
      /\ 0 \in 0 .. Len(d) /\ Len(d) \in 0 .. Len(d)
  BY Types DEF CopyAfterFlush
<1>5. failures' \in failures .. MaxFailures /\ (r <=> failures' = failures)
  <2>1. failures \in 0 .. MaxFailures /\ MaxFailures \in Nat  BY Types
  <2>2. CASE r  BY <1>1, <2>1, <2>2
  <2>3. CASE ~ r
    <3>1. n # Len(buf) /\ failures' = failures + 1  BY <1>1, <2>3, Zenon
    <3> QED  BY <1>2, <2>1, <2>3, <3>1
  <2> QED  BY <2>2, <2>3
<1>6. /\ SubSeq(d, 1, Len(d)) = d /\ SubSeq(d, 1, 0) = << >>
  BY FirstBytes
<1>7. Send(out, Len(buf))  BY <1>1
<1> HIDE DEF out
<1>8. CASE r
  <2>1. buf' = d /\ n = Len(buf)  BY <1>1, <1>8
  <2>2. out \o d = SubSeq(buf, 1, n) \o SubSeq(d, 1, Len(d))  BY <1>6 DEF out
  <2>3. Moved(d, n, Len(d))
    BY <1>2, <1>3, <1>4, <1>5, <1>7, <2>1, <2>2, SendMoves
  <2> QED  BY <1>5, <2>3
<1>9. CASE ~ r
  <2>1. buf' = << >> /\ failures' # failures  BY <1>1, <1>5, <1>9
  <2>2. out \o << >> = SubSeq(buf, 1, n) \o SubSeq(d, 1, 0)  BY <1>6 DEF out
  <2>3. << >> \in Seq(Byte)  BY Types
  <2>4. Moved(d, n, 0)
    BY <1>2, <1>3, <1>4, <1>5, <1>7, <2>1, <2>2, <2>3, SendMoves
  <2> QED  BY <1>5, <2>4
<1> QED  BY <1>8, <1>9

\* Bytes that fit are put behind what is in the buffer.
LEMMA IntoBufferMoves ==
    ASSUME TypeOK, NEW d \in Seq(Byte), Len(d) <= Available, buf' = buf \o d,
           UNCHANGED <<file, filePos, flushed, failures>>
    PROVE  Moved(d, Len(buf), Len(d))
<1>1. /\ buf \o d \in Seq(Byte) /\ Len(buf \o d) = Len(buf) + Len(d)
  BY Types, ConcatProperties
<1>2. Len(buf \o d) <= BufferSize  BY <1>1, Types DEF Available
<1>3. /\ file' = File!Put(file, filePos, << >>) /\ filePos' = filePos + Len(<< >>)
      /\ << >> \in Seq(Byte)
  <2>1. file \in Seq(Byte) /\ filePos \in 0 .. Len(file) /\ Len(file) \in Nat /\ Len(<< >>) = 0
    BY Types
  <2> QED  BY <2>1, PutNothing
<1>4. << >> \o buf' = SubSeq(buf, 1, Len(buf)) \o SubSeq(d, 1, Len(d))
  BY <1>1, FirstBytes, Types
<1>5. /\ flushed' \in Nat /\ failures' \in failures .. MaxFailures
      /\ Len(buf) \in 0 .. Len(buf) /\ Len(d) \in 0 .. Len(d)
  BY Types DEF TypeOK
<1> QED  BY <1>1, <1>2, <1>3, <1>4, <1>5 DEF Moved

\* copyToBuffer() returns true exactly if nothing is lost in it.
LEMMA CopyMoves ==
    ASSUME TypeOK, NEW d \in Seq(Byte), NEW r \in BOOLEAN, CopyToBuffer(d, r)
    PROVE  \E k, m : Moved(d, k, m) /\ (r <=> failures' = failures)
<1>1. CASE CopyIntoBuffer(d, r)
  <2>1. Moved(d, Len(buf), Len(d))  BY <1>1, IntoBufferMoves DEF CopyIntoBuffer
  <2> QED  BY <1>1, <2>1 DEF CopyIntoBuffer
<1> QED  BY <1>1, CopyDirectlyMoves, CopyAfterFlushMoves DEF CopyToBuffer

\* The bytes of a caller are new ones.
LEMMA NewBytes ==
    ASSUME TypeOK, NEW n \in Nat, written + n <= MaxBytes
    PROVE  /\ New(n) \in Seq(Byte) /\ Len(New(n)) = n
           /\ \A i \in 1 .. n : New(n)[i] = written + i
           /\ written + n \in 0 .. MaxBytes
           /\ New(0) = << >>
<1>1. written \in Nat /\ MaxBytes \in Nat  BY Types
<1>2. \A i \in 1 .. n : written + i \in Byte  BY <1>1 DEF Byte
<1> QED  BY <1>1, <1>2 DEF New

\* A step in which a caller hands in j bytes: of the bytes in the buffer the first k are kept, of
\* the new ones the first m.  The other steps have j = 0.
Handed(j, k, m) ==
    /\ j \in Nat /\ written' = written + j /\ written + j <= MaxBytes
    /\ Moved(New(j), k, m)

Others == UNCHANGED <<directFlush, markSet, overwriting, marks, lastMark>>

LEMMA CopyHands ==
    ASSUME TypeOK, NEW n \in Lengths, Copy(n)
    PROVE  \E k, m : /\ Handed(n, k, m) /\ returned' \in BOOLEAN
                     /\ returned' <=> failures' = failures
<1>1. n \in Nat  BY BufferAssumption
<1>2. written + n <= MaxBytes /\ written' = written + n  BY DEF Copy, HandIn
<1>3. New(n) \in Seq(Byte)  BY <1>1, <1>2, NewBytes
<1>4. PICK r \in BOOLEAN : CopyToBuffer(New(n), r) /\ returned' = r  BY DEF Copy, Did
<1>5. PICK k, m : Moved(New(n), k, m) /\ (r <=> failures' = failures)
  BY <1>3, <1>4, CopyMoves
<1> QED  BY <1>1, <1>2, <1>4, <1>5 DEF Handed

LEMMA NumberHands ==
    ASSUME TypeOK, NEW n \in TextLengths, ConvertNumber(n)
    PROVE  \E j, k, m : Handed(j, k, m)
<1>1. /\ n \in 1 .. NumberSize /\ NumberSize \in Nat /\ BufferSize \in Nat /\ Len(buf) \in 0 .. BufferSize
  BY BufferAssumption, Types
<1>2. CASE NumberSize <= BufferSize
  <2>1. written + n <= MaxBytes /\ written' = written + n /\ n \in Nat
    BY <1>1, <1>2 DEF ConvertNumber, HandIn
  <2>2. New(n) \in Seq(Byte) /\ Len(New(n)) = n  BY <2>1, NewBytes
  <2>3. CASE /\ Available >= NumberSize /\ buf' = buf \o New(n)
             /\ UNCHANGED <<file, filePos, flushed, failures>>
    <3>1. Len(New(n)) <= Available  BY <1>1, <2>2, <2>3 DEF Available
    <3>2. Moved(New(n), Len(buf), Len(New(n)))  BY <2>2, <2>3, <3>1, IntoBufferMoves
    <3> QED  BY <2>1, <3>2 DEF Handed
  <2>4. ASSUME NEW k \in Whole(buf) \union Part(buf), Send(SubSeq(buf, 1, k), Len(buf)),
               buf' = New(n), failures' = IF k = Len(buf) THEN failures ELSE failures + 1
        PROVE  Moved(New(n), k, n)
    <3> DEFINE d == New(n)
               out == SubSeq(buf, 1, k)
    <3>1. k \in 0 .. Len(buf) /\ (k # Len(buf) => failures + 1 \in failures .. MaxFailures)
      BY <2>4, Types, WholeOrPart
    <3>2. out \in Seq(Byte)  BY <3>1, Types, FirstBytes
    <3>3. failures' \in failures .. MaxFailures /\ (failures' = failures => k = Len(buf))
      BY <2>4, <3>1, Types
    <3>4. out \o d = SubSeq(buf, 1, k) \o SubSeq(d, 1, n)  BY <2>2, FirstBytes
    <3>5. Len(d) <= BufferSize /\ n \in 0 .. Len(d) /\ n = Len(d) /\ Len(buf) \in Nat
      BY <1>1, <1>2, <2>2
    <3>6. Send(out, Len(buf)) /\ buf' = d /\ d \in Seq(Byte)  BY <2>2, <2>4
    <3> HIDE DEF out, d
    <3>7. Moved(d, k, n)
      BY <3>1, <3>2, <3>3, <3>4, <3>5, <3>6, SendMoves DEF out
    <3> QED  BY <3>7 DEF d
  <2> QED  BY <1>2, <2>1, <2>3, <2>4 DEF ConvertNumber, Handed
<1>3. CASE ~ (NumberSize <= BufferSize)
  <2>1. written' = written + 0 /\ written + 0 <= MaxBytes /\ 0 \in Nat
    BY <1>3, Types DEF ConvertNumber, HandIn
  <2>2. PICK k \in Whole(buf) \union Part(buf) : SendBuffer(k)
    <3>1. ~ (Available >= NumberSize)  BY <1>1, <1>3 DEF Available
    <3> QED  BY <1>3, <3>1 DEF ConvertNumber, SendBuffer
  <2>3. Moved(<< >>, k, 0)  BY <2>2, FlushMoves
  <2>4. New(0) = << >>  BY <2>1, NewBytes
  <2> QED  BY <2>1, <2>3, <2>4 DEF Handed
<1> QED  BY <1>2, <1>3

LEMMA BoolHands ==
    ASSUME TypeOK, ConvertBool
    PROVE  \E k, m : Handed(1, k, m)
<1> DEFINE d == New(1)
<1>1. 1 \in Nat /\ written + 1 <= MaxBytes /\ written' = written + 1
  BY DEF ConvertBool, HandIn
<1>2. d \in Seq(Byte) /\ Len(d) = 1  BY <1>1, NewBytes
<1>3. \E k, m : Moved(d, k, m)
  <2>1. CASE \E r \in BOOLEAN : CopyToBuffer(New(1), r)
    BY <1>2, <2>1, CopyMoves
  <2>2. ASSUME NEW k \in Whole(buf) \union Part(buf),
               \/ /\ directFlush <= 1
                  /\ \E m \in {0, 1} :
                        /\ \/ failures + (IF k = Len(buf) THEN 0 ELSE 1) + 1 - m <= MaxFailures
                           \/ m = 1
                        /\ Send(SubSeq(buf, 1, k) \o SubSeq(New(1), 1, m), Len(buf) + 1)
                        /\ failures' = failures + (IF k = Len(buf) THEN 0 ELSE 1) + 1 - m
                  /\ buf' = << >>
               \/ /\ directFlush > 1
                  /\ Send(SubSeq(buf, 1, k), Len(buf))
                  /\ buf' = New(1)
                  /\ failures' = failures + IF k = Len(buf) THEN 0 ELSE 1
        PROVE  \E m : Moved(d, k, m)
    <3> DEFINE lost == IF k = Len(buf) THEN 0 ELSE 1
               kept == SubSeq(buf, 1, k)
    <3>1. k \in 0 .. Len(buf) /\ (k # Len(buf) => failures + 1 \in failures .. MaxFailures)
      BY <2>2, Types, WholeOrPart
    <3>2. kept \in Seq(Byte)  BY <3>1, Types, FirstBytes
    <3>3. /\ failures \in 0 .. MaxFailures /\ MaxFailures \in Nat /\ Len(buf) \in Nat
          /\ directFlush \in 0 .. BufferSize /\ BufferSize \in Nat
          /\ lost \in {0, 1} /\ (lost = 0 <=> k = Len(buf)) /\ failures + lost <= MaxFailures
      BY <3>1, Types
    <3> HIDE DEF lost
    <3>4. ASSUME NEW m \in {0, 1},
                 failures + lost + 1 - m <= MaxFailures \/ m = 1,
                 Send(kept \o SubSeq(d, 1, m), Len(buf) + 1),
                 failures' = failures + lost + 1 - m, buf' = << >>
          PROVE  Moved(d, k, m)
      <4> DEFINE out == kept \o SubSeq(d, 1, m)
      <4> HIDE DEF kept
      <4>1. m \in 0 .. Len(d)  BY <1>2
      <4>2. SubSeq(d, 1, m) \in Seq(Byte)  BY <1>2, <4>1, FirstBytes
      <4>3. out \in Seq(Byte)  BY <3>2, <4>2, ConcatProperties
      <4>4. out \o << >> = SubSeq(buf, 1, k) \o SubSeq(d, 1, m)
        BY <4>3, FirstBytes DEF kept
      <4>5. failures' \in failures .. MaxFailures /\ (failures' = failures => k = Len(buf) /\ m = Len(d))
        <5>1. failures \in Nat /\ MaxFailures \in Nat /\ lost \in {0, 1} /\ failures + lost <= MaxFailures
          BY <3>3
        <5>2. failures' = failures + lost + 1 - m /\ (failures + lost + 1 - m <= MaxFailures \/ m = 1)
          BY <3>4
        <5>3. /\ failures' \in failures .. MaxFailures
              /\ failures' = failures => lost = 0 /\ m = 1
          BY <5>1, <5>2
        <5> QED  BY <1>2, <3>3, <5>3
      <4>6. Len(buf) + 1 \in Nat /\ << >> \in Seq(Byte) /\ Len(<< >>) <= BufferSize
        BY Types
      <4>7. Send(out, Len(buf) + 1) /\ buf' = << >>  BY <3>4
      <4> HIDE DEF out, d
      <4> QED  BY <1>2, <3>1, <4>1, <4>3, <4>4, <4>5, <4>6, <4>7, SendMoves
    <3>5. ASSUME directFlush > 1, Send(kept, Len(buf)), buf' = d, failures' = failures + lost
          PROVE  Moved(d, k, 1)
      <4>1. kept \o d = SubSeq(buf, 1, k) \o SubSeq(d, 1, 1)  BY <1>2, FirstBytes
      <4>2. 1 \in 0 .. Len(d) /\ Len(d) <= BufferSize /\ Len(buf) \in Nat
        <5>1. 1 <= BufferSize /\ Len(buf) \in Nat  BY <3>3, <3>5
        <5>2. Len(d) = 1  BY <1>2
        <5> HIDE DEF d
        <5> QED  BY <5>1, <5>2
      <4>3. failures' \in failures .. MaxFailures /\ (failures' = failures => k = Len(buf) /\ 1 = Len(d))
        <5>1. failures \in Nat /\ MaxFailures \in Nat /\ lost \in {0, 1} /\ failures + lost <= MaxFailures
          BY <3>3
        <5>2. /\ failures' \in failures .. MaxFailures
              /\ failures' = failures => lost = 0
          BY <3>5, <5>1
        <5> QED  BY <1>2, <3>3, <5>2
      <4> HIDE DEF kept, d
      <4> QED  BY <1>2, <3>1, <3>2, <3>5, <4>1, <4>2, <4>3, SendMoves DEF kept
    <3> QED  BY <2>2, <3>4, <3>5 DEF lost
  <2> QED  BY <2>1, <2>2 DEF ConvertBool
<1> QED  BY <1>1, <1>3 DEF Handed

-----------------------------------------------------------------------------
(* What follows, for every step that moves bytes *)

\* The file stays a file, and the position is in it.
LEMMA MovedTypes ==
    ASSUME TypeOK, NEW d \in Seq(Byte), NEW k, NEW m, Moved(d, k, m)
    PROVE  /\ file' \in Seq(Byte) /\ filePos' \in 0 .. Len(file') /\ Len(file') \in Nat
           /\ Len(file) <= Len(file')
           /\ buf' \in Seq(Byte) /\ Len(buf') <= BufferSize /\ flushed' \in Nat
           /\ failures' \in 0 .. MaxFailures
<1>1. PICK out \in Seq(Byte) : /\ file' = File!Put(file, filePos, out)
                               /\ filePos' = filePos + Len(out)
  BY DEF Moved
<1>2. file \in Seq(Byte) /\ filePos \in 0 .. Len(file) /\ Len(file) \in Nat /\ Len(out) \in Nat
  BY Types
<1>3. /\ file' \in Seq(Byte)
      /\ filePos + Len(out) > Len(file) => Len(file') = filePos + Len(out)
      /\ filePos + Len(out) <= Len(file) => Len(file') = Len(file)
  <2> DEFINE new == File!Put(file, filePos, out)
  <2>1. file \in Seq(Byte) /\ filePos \in 0 .. Len(file)  BY <1>2
  <2>2. /\ new \in Seq(Byte)
        /\ filePos + Len(out) > Len(file) => Len(new) = filePos + Len(out)
        /\ filePos + Len(out) <= Len(file) => Len(new) = Len(file)
    BY <2>1, PutProperties
  <2>3. file' = new  BY <1>1
  <2> HIDE DEF new
  <2> QED  BY <2>2, <2>3
<1>4. filePos' \in 0 .. Len(file') /\ Len(file') \in Nat /\ Len(file) <= Len(file')
  BY <1>1, <1>2, <1>3
<1>5. failures' \in 0 .. MaxFailures
  <2>1. failures' \in failures .. MaxFailures  BY DEF Moved
  <2>2. failures \in 0 .. MaxFailures /\ MaxFailures \in Nat  BY Types
  <2> QED  BY <2>1, <2>2
<1>6. buf' \in Seq(Byte) /\ Len(buf') <= BufferSize /\ flushed' \in Nat  BY DEF Moved
<1> QED  BY <1>3, <1>4, <1>5, <1>6

\* The file with the buffer, and where in it the next byte goes.
LEMMA ContentTypes ==
    ASSUME TypeOK
    PROVE  /\ Content \in Seq(Byte) /\ Position \in 0 .. Len(Content) /\ Len(Content) \in Nat
           /\ Len(file) <= Len(Content)
<1>1. /\ file \in Seq(Byte) /\ filePos \in 0 .. Len(file) /\ Len(file) \in Nat
      /\ buf \in Seq(Byte) /\ Len(buf) \in Nat
  BY Types
<1>2. /\ Content \in Seq(Byte)
      /\ filePos + Len(buf) > Len(file) => Len(Content) = filePos + Len(buf)
      /\ filePos + Len(buf) <= Len(file) => Len(Content) = Len(file)
  BY <1>1, PutProperties DEF Content
<1> HIDE DEF Content
<1> QED  BY <1>1, <1>2 DEF Position

\* If nothing is lost, the caller's bytes are written over what was there.
LEMMA NothingLost ==
    ASSUME TypeOK, NEW d \in Seq(Byte), NEW k, NEW m, Moved(d, k, m), failures' = failures
    PROVE  Content' = File!Put(Content, Position, d) /\ Position' = Position + Len(d)
<1>1. k = Len(buf) /\ m = Len(d)  BY DEF Moved
<1>2. PICK out \in Seq(Byte) :
         /\ file' = File!Put(file, filePos, out) /\ filePos' = filePos + Len(out)
         /\ out \o buf' = SubSeq(buf, 1, k) \o SubSeq(d, 1, m)
  BY DEF Moved
<1>3. file \in Seq(Byte) /\ filePos \in 0 .. Len(file) /\ buf \in Seq(Byte) /\ buf' \in Seq(Byte)
  BY Types DEF Moved
<1>4. out \o buf' = buf \o d  BY <1>1, <1>2, <1>3, FirstBytes
<1>5. Content' = File!Put(file, filePos, buf \o d)
  <2>1. Content' = File!Put(file', filePos', buf')  BY DEF Content, File!Put
  <2>2. File!Put(file', filePos', buf') = File!Put(file, filePos, out \o buf')
    <3>1. File!Put(File!Put(file, filePos, out), filePos + Len(out), buf')
            = File!Put(file, filePos, out \o buf')
      BY <1>3, PutTwice
    <3> QED  BY <1>2, <3>1
  <2> QED  BY <1>4, <2>1, <2>2
<1>6. File!Put(Content, Position, d) = File!Put(file, filePos, buf \o d)
  BY <1>3, PutTwice DEF Content, Position
<1>7. Position' = Position + Len(d)
  <2>1. Len(out \o buf') = Len(out) + Len(buf') /\ Len(buf \o d) = Len(buf) + Len(d)
    BY <1>3, ConcatProperties
  <2>2. Len(out) \in Nat /\ Len(buf') \in Nat /\ Len(buf) \in Nat /\ Len(d) \in Nat /\ filePos \in Nat
    BY <1>3
  <2>3. Len(out) + Len(buf') = Len(buf) + Len(d)  BY <1>4, <2>1
  <2>4. Position' = filePos + Len(out) + Len(buf')  BY <1>2 DEF Position
  <2> QED  BY <2>2, <2>3, <2>4 DEF Position
<1> QED  BY <1>5, <1>6, <1>7

\* Steps that hand in bytes, and those that do nothing to the bytes, are of one kind.
LEMMA StaysMoves ==
    ASSUME TypeOK, UNCHANGED <<buf, file, filePos, flushed, failures, written>>
    PROVE  Handed(0, Len(buf), 0)
<1>1. << >> \in Seq(Byte) /\ Len(<< >>) = 0 /\ buf \in Seq(Byte) /\ Len(buf) \in 0 .. BufferSize
  BY Types
<1>2. written + 0 <= MaxBytes /\ written' = written + 0  BY Types
<1>3. New(0) = << >>  BY <1>2, NewBytes
<1>4. 0 <= Available /\ buf' = buf \o << >>
  BY <1>1, FirstBytes, Types DEF Available
<1>5. Moved(<< >>, Len(buf), 0)  BY <1>1, <1>4, IntoBufferMoves
<1> QED  BY <1>2, <1>3, <1>5 DEF Handed

LEMMA FlushHands ==
    ASSUME TypeOK, NEW n \in Whole(buf) \union Part(buf), SendBuffer(n), written' = written
    PROVE  Handed(0, n, 0)
<1>1. written + 0 <= MaxBytes /\ written' = written + 0 /\ 0 \in Nat  BY Types
<1>2. New(0) = << >>  BY <1>1, NewBytes
<1>3. Moved(<< >>, n, 0)  BY FlushMoves
<1> QED  BY <1>1, <1>2, <1>3 DEF Handed

\* The steps by which the file's marks stay as they are and it is written where it stands.
LEMMA PlainSteps ==
    ASSUME TypeOK, [Next]_vars,
           ~ StartMark,
           ~ \E id \in {EndOfStream, InvalidId} \union 1 .. lastMark, keep \in BOOLEAN :
                JumpToMark(id, keep)
    PROVE  /\ \E j, k, m : Handed(j, k, m)
           /\ UNCHANGED <<marks, lastMark, overwriting>>
           /\ directFlush' \in 0 .. BufferSize /\ markSet' \in BOOLEAN /\ returned' \in BOOLEAN
<1> USE DEF Did
<1>0. directFlush \in 0 .. BufferSize /\ markSet \in BOOLEAN /\ returned \in BOOLEAN
  BY DEF TypeOK
<1>1. ASSUME NEW n \in Lengths, Copy(n) PROVE \E j, k, m : Handed(j, k, m)
  BY <1>1, CopyHands
<1>2. ASSUME NEW n \in Lengths, Copy(n) PROVE Others /\ returned' \in BOOLEAN
  BY <1>2 DEF Copy, Others
<1>3. ASSUME NEW n \in TextLengths, ConvertNumber(n)
      PROVE  (\E j, k, m : Handed(j, k, m)) /\ Others /\ returned' \in BOOLEAN
  <2>1. Others /\ returned' \in BOOLEAN
    BY <1>3 DEF ConvertNumber, Others
  <2> QED  BY <1>3, <2>1, NumberHands
<1>4. CASE ConvertBool
  <2>1. Others /\ returned' \in BOOLEAN  BY <1>4 DEF ConvertBool, Others
  <2> QED  BY <1>0, <1>4, <2>1, BoolHands DEF Others
<1>5. CASE Flush
  <2>1. Others /\ written' = written  BY <1>5 DEF Flush, Others
  <2>2. PICK n \in Whole(buf) \union Part(buf) : SendBuffer(n) /\ returned' = (n = Len(buf))
    BY <1>5 DEF Flush
  <2> QED  BY <1>0, <2>1, <2>2, FlushHands DEF Others
<1>6. ASSUME NEW n \in DirectSizes, SetDirectFlushSize(n)
      PROVE  /\ \E j, k, m : Handed(j, k, m)
             /\ UNCHANGED <<marks, lastMark, overwriting, markSet>>
             /\ directFlush' \in 0 .. BufferSize /\ returned' \in BOOLEAN
  <2>1. n \in Nat /\ BufferSize \in Nat  BY BufferAssumption
  <2>2. UNCHANGED <<buf, file, filePos, flushed, failures, written>>
    BY <1>6 DEF SetDirectFlushSize, flusherVars
  <2> QED  BY <1>6, <2>1, <2>2, StaysMoves DEF SetDirectFlushSize, flusherVars
<1>7. CASE EndMark
  <2>1. UNCHANGED <<marks, lastMark, overwriting, directFlush, written>> /\ markSet' = FALSE
    BY <1>7 DEF EndMark
  <2>2. returned' = TRUE /\ \E n \in Whole(buf) \union Part(buf) : SendBuffer(n)
    BY <1>7 DEF EndMark
  <2> QED  BY <1>0, <2>1, <2>2, FlushHands
<1>8. CASE Refused
  <2>1. UNCHANGED <<bufferVars, flusherVars, written, failures>> /\ returned' = FALSE
    BY <1>8 DEF Refused
  <2> QED  BY <1>0, <2>1, StaysMoves DEF bufferVars, flusherVars
<1>9. CASE UNCHANGED vars
  BY <1>0, <1>9, StaysMoves DEF vars, bufferVars, flusherVars
<1> QED
  BY <1>0, <1>1, <1>2, <1>3, <1>4, <1>5, <1>6, <1>7, <1>8, <1>9 DEF Next, Others

-----------------------------------------------------------------------------
(* The types *)

LEMMA HandedTypes ==
    ASSUME TypeOK, NEW j, NEW k, NEW m, Handed(j, k, m)
    PROVE  /\ file' \in Seq(Byte) /\ filePos' \in 0 .. Len(file') /\ Len(file') \in Nat
           /\ Len(file) <= Len(file')
           /\ buf' \in Seq(Byte) /\ Len(buf') <= BufferSize /\ flushed' \in Nat
           /\ failures' \in 0 .. MaxFailures /\ written' \in 0 .. MaxBytes
<1>1. j \in Nat /\ written + j <= MaxBytes /\ written' = written + j /\ Moved(New(j), k, m)
  BY DEF Handed
<1>2. New(j) \in Seq(Byte) /\ written + j \in 0 .. MaxBytes  BY <1>1, NewBytes
<1> QED  BY <1>1, <1>2, MovedTypes

LEMMA InitType == Init => TypeOK
<1> SUFFICES ASSUME Init PROVE TypeOK  OBVIOUS
<1>1. /\ << >> \in Seq(1 .. MaxBytes) /\ Len(<< >>) = 0 /\ DOMAIN << >> = {}
  OBVIOUS
<1>2. /\ buf = << >> /\ directFlush = BufferSize /\ flushed = 0 /\ written = 0
      /\ markSet = FALSE /\ overwriting = FALSE /\ returned = TRUE
      /\ file = << >> /\ filePos = 0 /\ marks = << >> /\ lastMark = 0 /\ failures = 0
  BY DEF Init, EndOfStream
<1>3. /\ BufferSize \in Nat /\ MaxBytes \in Nat /\ MaxMarks \in Nat /\ MaxFailures \in Nat
  BY BufferAssumption
<1>4. buf \in Seq(1 .. MaxBytes) /\ Len(buf) <= BufferSize  BY <1>1, <1>2, <1>3
<1>5. file \in Seq(1 .. MaxBytes) /\ filePos \in 0 .. Len(file)  BY <1>1, <1>2
<1>6. DOMAIN marks \subseteq 1 .. lastMark /\ \A id \in DOMAIN marks : marks[id] \in 0 .. Len(file)
  BY <1>1, <1>2
<1>7. /\ directFlush \in 0 .. BufferSize /\ flushed \in Nat /\ written \in 0 .. MaxBytes
      /\ lastMark \in 0 .. MaxMarks /\ failures \in 0 .. MaxFailures
  BY <1>2, <1>3
<1>8. markSet \in BOOLEAN /\ overwriting \in BOOLEAN /\ returned \in BOOLEAN  BY <1>2
<1> QED  BY <1>4, <1>5, <1>6, <1>7, <1>8 DEF TypeOK

LEMMA StartMarkHands ==
    ASSUME TypeOK, StartMark
    PROVE  /\ \E n : Handed(0, n, 0)
           /\ lastMark' = lastMark + 1 /\ lastMark' \in 1 .. MaxMarks
           /\ DOMAIN marks' = DOMAIN marks \union {lastMark'}
           /\ \A id \in DOMAIN marks : marks'[id] = marks[id]
           /\ marks'[lastMark'] = filePos' /\ buf' = << >>
           /\ directFlush' = directFlush /\ overwriting' = overwriting
           /\ markSet' = TRUE /\ returned' = TRUE
<1>1. PICK n \in Whole(buf) \union Part(buf) : SendBuffer(n)  BY DEF StartMark
<1>2. Handed(0, n, 0)  BY <1>1, FlushHands DEF StartMark
<1>3. lastMark \in 0 .. MaxMarks /\ MaxMarks \in Nat /\ DOMAIN marks \subseteq 1 .. lastMark
  BY BufferAssumption DEF TypeOK
<1>4. lastMark' = lastMark + 1 /\ lastMark' \in 1 .. MaxMarks /\ lastMark' \notin DOMAIN marks
  BY <1>3 DEF StartMark
<1>5. marks' = [id \in DOMAIN marks \union {lastMark'} |->
                  IF id = lastMark' THEN filePos' ELSE marks[id]]
  BY DEF StartMark
<1>6. /\ DOMAIN marks' = DOMAIN marks \union {lastMark'}
      /\ \A id \in DOMAIN marks : marks'[id] = marks[id]
  BY <1>4, <1>5
<1>7. marks'[lastMark'] = filePos'  BY <1>5
<1>8. buf' = << >>  BY <1>1 DEF SendBuffer
<1> QED  BY <1>2, <1>4, <1>6, <1>7, <1>8 DEF StartMark, Did

\* A jump writes what is in the buffer where the file stands, and then moves the position.
LEMMA JumpWrites ==
    ASSUME TypeOK, NEW id \in {EndOfStream, InvalidId} \union 1 .. lastMark, NEW keep \in BOOLEAN,
           JumpToMark(id, keep)
    PROVE  \E n \in Whole(buf) \union Part(buf) :
              /\ n \in 0 .. Len(buf) /\ (failures' = failures => n = Len(buf))
              /\ SubSeq(buf, 1, n) \in Seq(Byte) /\ Len(SubSeq(buf, 1, n)) = n
              /\ file' = File!Put(file, filePos, SubSeq(buf, 1, n)) /\ file' \in Seq(Byte)
              /\ filePos + n \in 0 .. Len(file') /\ Len(file) <= Len(file') /\ Len(file') \in Nat
              /\ id = EndOfStream => filePos' = Len(file')
              /\ id # EndOfStream /\ id \in DOMAIN marks => filePos' = marks[id]
              /\ id # EndOfStream /\ id \notin DOMAIN marks => filePos' = filePos + n
              /\ flushed' \in Nat /\ failures' \in failures .. MaxFailures
<1>1. PICK n \in Whole(buf) \union Part(buf) :
         /\ file' = File!Put(file, filePos, SubSeq(buf, 1, n))
         /\ flushed' = IF overwriting THEN flushed ELSE flushed + Len(buf)
         /\ failures' = IF n = Len(buf) THEN failures ELSE failures + 1
         /\ filePos' = CASE id = EndOfStream -> Len(File!Put(file, filePos, SubSeq(buf, 1, n)))
                         [] id \in DOMAIN marks -> marks[id]
                         [] OTHER -> filePos + n
  BY DEF JumpToMark
<1>2. n \in 0 .. Len(buf) /\ (n # Len(buf) => failures + 1 \in failures .. MaxFailures)
  BY Types, WholeOrPart
<1>3. SubSeq(buf, 1, n) \in Seq(Byte) /\ Len(SubSeq(buf, 1, n)) = n
  BY <1>2, Types, FirstBytes
<1>4. file \in Seq(Byte) /\ filePos \in 0 .. Len(file) /\ Len(file) \in Nat /\ Len(buf) \in Nat
  BY Types
<1>5. /\ file' \in Seq(Byte) /\ filePos + n \in 0 .. Len(file')
      /\ Len(file) <= Len(file') /\ Len(file') \in Nat
  <2> DEFINE out == SubSeq(buf, 1, n)
  <2>1. out \in Seq(Byte) /\ Len(out) = n  BY <1>3
  <2> HIDE DEF out
  <2>2. /\ File!Put(file, filePos, out) \in Seq(Byte)
        /\ filePos + Len(out) > Len(file) => Len(File!Put(file, filePos, out)) = filePos + Len(out)
        /\ filePos + Len(out) <= Len(file) => Len(File!Put(file, filePos, out)) = Len(file)
    BY <1>4, <2>1, PutProperties
  <2>3. file' = File!Put(file, filePos, out)  BY <1>1 DEF out
  <2>4. /\ file' \in Seq(Byte)
        /\ filePos + n > Len(file) => Len(file') = filePos + n
        /\ filePos + n <= Len(file) => Len(file') = Len(file)
    BY <2>1, <2>2, <2>3
  <2>5. n \in Nat /\ filePos \in Nat /\ filePos <= Len(file)  BY <1>2, <1>4
  <2> QED  BY <1>4, <2>4, <2>5
<1>6. flushed' \in Nat
  <2>1. flushed \in Nat /\ flushed + Len(buf) \in Nat  BY <1>4 DEF TypeOK
  <2> QED  BY <1>1, <2>1
<1>7. failures' \in failures .. MaxFailures /\ (failures' = failures => n = Len(buf))
  <2>1. failures \in 0 .. MaxFailures /\ MaxFailures \in Nat  BY Types
  <2>2. CASE n = Len(buf)  BY <1>1, <2>1, <2>2
  <2>3. CASE n # Len(buf)
    <3>1. failures' = failures + 1  BY <1>1, <2>3
    <3> QED  BY <1>2, <2>1, <2>3, <3>1
  <2> QED  BY <2>2, <2>3
<1>8. /\ id = EndOfStream => filePos' = Len(file')
      /\ id # EndOfStream /\ id \in DOMAIN marks => filePos' = marks[id]
      /\ id # EndOfStream /\ id \notin DOMAIN marks => filePos' = filePos + n
  <2>1. CASE id = EndOfStream
    <3> DEFINE end == Len(File!Put(file, filePos, SubSeq(buf, 1, n)))
    <3>1. filePos' = CASE id = EndOfStream -> end
                       [] id \in DOMAIN marks -> marks[id]
                       [] OTHER -> filePos + n
      BY <1>1
    <3>2. end = Len(file')  BY <1>1
    <3> HIDE DEF end
    <3> QED  BY <2>1, <3>1, <3>2, Types DEF TypeOK, EndOfStream
  <2>2. CASE id # EndOfStream /\ id \in DOMAIN marks  BY <1>1, <2>2
  <2>3. CASE id # EndOfStream /\ id \notin DOMAIN marks  BY <1>1, <2>3
  <2> QED  BY <2>1, <2>2, <2>3
<1> QED  BY <1>1, <1>2, <1>3, <1>5, <1>6, <1>7, <1>8

LEMMA JumpChanges ==
    ASSUME TypeOK, NEW id \in {EndOfStream, InvalidId} \union 1 .. lastMark, NEW keep \in BOOLEAN,
           JumpToMark(id, keep)
    PROVE  /\ buf' = << >> /\ overwriting' = (id # EndOfStream)
           /\ keep => marks' = marks
           /\ ~ keep => marks' = [m \in DOMAIN marks \ {id} |-> marks[m]]
           /\ DOMAIN marks' \subseteq DOMAIN marks
           /\ \A m \in DOMAIN marks' : marks'[m] = marks[m]
           /\ UNCHANGED <<directFlush, markSet, lastMark, written>> /\ returned' \in BOOLEAN
<1>1. /\ buf' = << >> /\ overwriting' = (id # EndOfStream)
      /\ UNCHANGED <<directFlush, markSet, lastMark, written>> /\ returned' \in BOOLEAN
  BY DEF JumpToMark, Did
<1>2. marks' = IF keep THEN marks ELSE [m \in DOMAIN marks \ {id} |-> marks[m]]
  BY DEF JumpToMark
<1> QED  BY <1>1, <1>2

LEMMA NextType == TypeOK /\ [Next]_vars => TypeOK'
<1> SUFFICES ASSUME TypeOK, [Next]_vars PROVE TypeOK'  OBVIOUS
<1>0. /\ DOMAIN marks \subseteq 1 .. lastMark /\ lastMark \in 0 .. MaxMarks /\ MaxMarks \in Nat
      /\ \A id \in DOMAIN marks : marks[id] \in 0 .. Len(file)
      /\ directFlush \in 0 .. BufferSize /\ markSet \in BOOLEAN /\ overwriting \in BOOLEAN
      /\ Len(file) \in Nat
  BY BufferAssumption, Types DEF TypeOK
<1>1. CASE StartMark
  <2>1. PICK n : Handed(0, n, 0)  BY <1>1, StartMarkHands
  <2>2. /\ lastMark' = lastMark + 1 /\ lastMark' \in 0 .. MaxMarks
        /\ DOMAIN marks' = DOMAIN marks \union {lastMark'}
        /\ \A id \in DOMAIN marks : marks'[id] = marks[id]
        /\ marks'[lastMark'] = filePos'
    BY <1>1, <1>0, StartMarkHands
  <2>3. /\ filePos' \in 0 .. Len(file') /\ Len(file) <= Len(file') /\ Len(file') \in Nat
    BY <2>1, HandedTypes
  <2>4. DOMAIN marks' \subseteq 1 .. lastMark'  BY <1>0, <2>2
  <2>5. \A id \in DOMAIN marks' : marks'[id] \in 0 .. Len(file')
    BY <1>0, <2>2, <2>3
  <2>6. directFlush' \in 0 .. BufferSize /\ markSet' \in BOOLEAN /\ overwriting' \in BOOLEAN
        /\ returned' \in BOOLEAN
    BY <1>0, <1>1, StartMarkHands
  <2> QED  BY <2>1, <2>2, <2>3, <2>4, <2>5, <2>6, HandedTypes DEF TypeOK, Byte
<1>2. ASSUME NEW id \in {EndOfStream, InvalidId} \union 1 .. lastMark, NEW keep \in BOOLEAN,
             JumpToMark(id, keep)
      PROVE  TypeOK'
  <2>1. PICK n \in Whole(buf) \union Part(buf) :
           /\ file' \in Seq(Byte)
           /\ filePos + n \in 0 .. Len(file') /\ Len(file) <= Len(file') /\ Len(file') \in Nat
           /\ id = EndOfStream => filePos' = Len(file')
           /\ id # EndOfStream /\ id \in DOMAIN marks => filePos' = marks[id]
           /\ id # EndOfStream /\ id \notin DOMAIN marks => filePos' = filePos + n
           /\ flushed' \in Nat /\ failures' \in failures .. MaxFailures
    BY <1>2, JumpWrites
  <2>2. /\ buf' = << >> /\ overwriting' \in BOOLEAN
        /\ DOMAIN marks' \subseteq DOMAIN marks /\ \A m \in DOMAIN marks' : marks'[m] = marks[m]
        /\ UNCHANGED <<directFlush, markSet, lastMark, written>> /\ returned' \in BOOLEAN
    <3>1. (id # EndOfStream) \in BOOLEAN  OBVIOUS
    <3> QED  BY <1>2, <3>1, JumpChanges
  <2>3. filePos' \in 0 .. Len(file')
    <3>1. CASE id = EndOfStream  BY <2>1, <3>1
    <3>2. CASE id # EndOfStream /\ id \in DOMAIN marks  BY <1>0, <2>1, <3>2
    <3>3. CASE id # EndOfStream /\ id \notin DOMAIN marks  BY <2>1, <3>3
    <3> QED  BY <3>1, <3>2, <3>3
  <2>4. \A m \in DOMAIN marks' : marks'[m] \in 0 .. Len(file')  BY <1>0, <2>1, <2>2
  <2>5. DOMAIN marks' \subseteq 1 .. lastMark'  BY <1>0, <2>2
  <2>6. buf' \in Seq(Byte) /\ Len(buf') <= BufferSize /\ written' \in 0 .. MaxBytes
        /\ failures' \in 0 .. MaxFailures
    BY <2>1, <2>2, Types
  <2> QED  BY <1>0, <2>1, <2>2, <2>3, <2>4, <2>5, <2>6 DEF TypeOK, Byte
<1>3. CASE /\ ~ StartMark
           /\ ~ \E id \in {EndOfStream, InvalidId} \union 1 .. lastMark, keep \in BOOLEAN :
                   JumpToMark(id, keep)
  <2>1. PICK j, k, m : Handed(j, k, m)  BY <1>3, PlainSteps
  <2>2. /\ UNCHANGED <<marks, lastMark, overwriting>>
        /\ directFlush' \in 0 .. BufferSize /\ markSet' \in BOOLEAN /\ returned' \in BOOLEAN
    BY <1>3, PlainSteps
  <2>3. Len(file) <= Len(file') /\ Len(file') \in Nat  BY <2>1, HandedTypes
  <2>4. \A id \in DOMAIN marks' : marks'[id] \in 0 .. Len(file')  BY <1>0, <2>2, <2>3
  <2> QED  BY <1>0, <2>1, <2>2, <2>4, HandedTypes DEF TypeOK, Byte
<1> QED  BY <1>1, <1>2, <1>3

\* The buffer is never overrun and the file has no hole, whatever sizes the buffer, the texts of
\* numbers and the data have, and whichever calls of fwrite fail.
THEOREM TypesAreRight == Spec => []TypeOK
<1> QED  BY InitType, NextType, PTL DEF Spec

-----------------------------------------------------------------------------
\* copyToBuffer() and flushBuffer() return true only if no byte was lost in the call.
THEOREM TrueAlwaysMeansKept == Spec => TrueMeansKept
<1> DEFINE Kept == call' \in {"copy", "flush"} /\ returned'
                     => Content' = File!Put(Content, Position, New(written' - written))
<1>1. ASSUME TypeOK, Next PROVE Kept
  <2> SUFFICES ASSUME call' \in {"copy", "flush"}, returned'
               PROVE  Content' = File!Put(Content, Position, New(written' - written))
    OBVIOUS
  <2>1. ASSUME NEW n \in Lengths, Copy(n)
        PROVE  Content' = File!Put(Content, Position, New(written' - written))
    <3>1. PICK k, m : Handed(n, k, m) /\ (returned' <=> failures' = failures)
      BY <1>1, <2>1, CopyHands
    <3>2. /\ n \in Nat /\ written + n <= MaxBytes /\ written' = written + n
          /\ Moved(New(n), k, m) /\ failures' = failures
      BY <3>1 DEF Handed
    <3>3. New(n) \in Seq(Byte)  BY <1>1, <3>2, NewBytes
    <3>4. written' - written = n  BY <1>1, <3>2, Types
    <3> QED  BY <1>1, <3>2, <3>3, <3>4, NothingLost
  <2>2. CASE Flush
    <3>1. PICK n \in Whole(buf) \union Part(buf) : SendBuffer(n) /\ returned' = (n = Len(buf))
      BY <2>2 DEF Flush, Did
    <3>2. n = Len(buf)  BY <3>1, Zenon
    <3>3. Moved(<< >>, n, 0) /\ failures' = failures  BY <1>1, <3>1, <3>2, FlushMoves
    <3>4. << >> \in Seq(Byte) /\ written' = written /\ written - written = 0 /\ New(0) = << >>
      <4>1. written + 0 <= MaxBytes /\ written \in Nat  BY <1>1, Types
      <4>2. written' = written  BY <2>2 DEF Flush
      <4>3. New(0) = << >>  BY <1>1, <4>1, NewBytes
      <4> QED  BY <1>1, <4>1, <4>2, <4>3, Types
    <3>5. Content' = File!Put(Content, Position, << >>)  BY <1>1, <3>3, <3>4, NothingLost
    <3> QED  BY <3>4, <3>5
  <2>3. CASE ~ Flush /\ ~ \E n \in Lengths : Copy(n)
    BY <1>1, <2>3
       DEF Next, ConvertNumber, ConvertBool, SetDirectFlushSize, StartMark, EndMark, JumpToMark,
           Refused, Did
  <2> QED  BY <2>1, <2>2, <2>3
<1>2. TypeOK /\ [Next]_vars => [Kept]_vars  BY <1>1
<1> QED  BY <1>2, TypesAreRight, PTL DEF Spec, TrueMeansKept

-----------------------------------------------------------------------------
(* Bytes are neither swapped nor repeated *)

Increasing(s) == \A i, j \in DOMAIN s : i < j => s[i] < s[j]
Below(s, n) == \A i \in DOMAIN s : s[i] <= n

\* Without a mark the file is written at its end only, and all bytes in it and in the buffer are
\* older than the next one.
AtTheEnd ==
    lastMark = 0 => /\ filePos = Len(file)
                    /\ Increasing(file \o buf) /\ Below(file \o buf, written)

\* Taking the first bytes of what waits, and of what is new, keeps the order.
LEMMA FirstBytesInOrder ==
    ASSUME NEW f \in Seq(Byte), NEW b \in Seq(Byte), NEW w \in Nat, NEW d \in Seq(Byte),
           Increasing(f \o b), Below(f \o b, w),
           \A i \in 1 .. Len(d) : d[i] = w + i,
           NEW k \in 0 .. Len(b), NEW m \in 0 .. Len(d)
    PROVE  /\ Increasing(f \o (SubSeq(b, 1, k) \o SubSeq(d, 1, m)))
           /\ Below(f \o (SubSeq(b, 1, k) \o SubSeq(d, 1, m)), w + Len(d))
<1> DEFINE bk == SubSeq(b, 1, k)
           dm == SubSeq(d, 1, m)
           x == bk \o dm
           r == f \o x
           q == f \o b
<1>1. Len(f) \in Nat /\ Len(b) \in Nat /\ Len(d) \in Nat  OBVIOUS
<1>2. /\ bk \in Seq(Byte) /\ Len(bk) = k /\ \A i \in Nat : i \in 1 .. k => bk[i] = b[i]
      /\ dm \in Seq(Byte) /\ Len(dm) = m /\ \A i \in Nat : i \in 1 .. m => dm[i] = d[i]
  BY FirstBytes
<1> HIDE DEF bk, dm
<1>3. /\ x \in Seq(Byte) /\ Len(x) = Len(bk) + Len(dm)
      /\ \A i \in 1 .. Len(bk) : x[i] = bk[i]
      /\ \A i \in Len(bk) + 1 .. Len(bk) + Len(dm) : x[i] = dm[i - Len(bk)]
  <2>1. bk \in Seq(Byte) /\ dm \in Seq(Byte)  BY <1>2
  <2> QED  BY <2>1, ConcatFacts
<1> HIDE DEF x
<1>4. /\ r \in Seq(Byte) /\ Len(r) = Len(f) + Len(x)
      /\ \A i \in 1 .. Len(f) : r[i] = f[i]
      /\ \A i \in Len(f) + 1 .. Len(f) + Len(x) : r[i] = x[i - Len(f)]
  <2>1. x \in Seq(Byte)  BY <1>3
  <2> QED  BY <2>1, ConcatFacts
<1>5. /\ q \in Seq(Byte) /\ Len(q) = Len(f) + Len(b)
      /\ \A i \in 1 .. Len(f) : q[i] = f[i]
      /\ \A i \in Len(f) + 1 .. Len(f) + Len(b) : q[i] = b[i - Len(f)]
  BY ConcatFacts
<1>6. Increasing(q) /\ Below(q, w)  OBVIOUS
<1> HIDE DEF r, q
<1>7. /\ DOMAIN q = 1 .. Len(q) /\ DOMAIN r = 1 .. Len(r)
      /\ \A i \in DOMAIN q : q[i] \in Nat
      /\ Len(x) = k + m /\ Len(r) = Len(f) + k + m /\ k <= Len(b)
  <2>1. DOMAIN q = 1 .. Len(q) /\ DOMAIN r = 1 .. Len(r)  BY <1>4, <1>5
  <2>2. \A i \in DOMAIN q : q[i] \in Nat
    <3>1. \A i \in DOMAIN q : q[i] \in Byte  BY <1>5
    <3>2. Byte \subseteq Nat  BY BufferAssumption DEF Byte
    <3> QED  BY <3>1, <3>2
  <2>3. Len(x) = k + m  BY <1>2, <1>3
  <2>4. Len(r) = Len(f) + Len(x)  BY <1>4
  <2>5. Len(r) = Len(f) + k + m  BY <1>1, <2>3, <2>4
  <2> QED  BY <1>1, <2>1, <2>2, <2>3, <2>5
<1>8. \A i \in 1 .. Len(f) + k : i \in DOMAIN q /\ r[i] = q[i]
  <2> SUFFICES ASSUME NEW i \in 1 .. Len(f) + k PROVE i \in DOMAIN q /\ r[i] = q[i]  OBVIOUS
  <2>1. i \in DOMAIN q  BY <1>1, <1>5, <1>7
  <2>2. CASE i <= Len(f)  BY <1>1, <1>4, <1>5, <2>2
  <2>3. CASE i > Len(f)
    <3>1. /\ i - Len(f) \in 1 .. k /\ i - Len(f) \in Nat
          /\ i \in Len(f) + 1 .. Len(f) + Len(x) /\ i \in Len(f) + 1 .. Len(f) + Len(b)
      BY <1>1, <1>7, <2>3
    <3>2. r[i] = x[i - Len(f)] /\ q[i] = b[i - Len(f)]  BY <1>4, <1>5, <3>1
    <3>3. x[i - Len(f)] = bk[i - Len(f)]  BY <1>2, <1>3, <3>1
    <3> QED  BY <1>2, <2>1, <3>1, <3>2, <3>3
  <2> QED  BY <1>1, <2>1, <2>2, <2>3
<1>9. \A i \in Len(f) + k + 1 .. Len(r) : r[i] = w + (i - (Len(f) + k)) /\ i - (Len(f) + k) \in 1 .. m
  <2> SUFFICES ASSUME NEW i \in Len(f) + k + 1 .. Len(r)
               PROVE  r[i] = w + (i - (Len(f) + k)) /\ i - (Len(f) + k) \in 1 .. m
    OBVIOUS
  <2> DEFINE n == i - (Len(f) + k)
  <2>1. /\ n \in 1 .. m /\ n \in Nat /\ n \in 1 .. Len(d) /\ i - Len(f) = k + n
        /\ i \in Len(f) + 1 .. Len(f) + Len(x)
    BY <1>1, <1>7
  <2>2. r[i] = x[k + n]  BY <1>4, <2>1
  <2>3. k + n \in Len(bk) + 1 .. Len(bk) + Len(dm) /\ (k + n) - Len(bk) = n
    BY <1>2, <2>1
  <2>4. x[k + n] = dm[n]
    <3>1. \A l \in Len(bk) + 1 .. Len(bk) + Len(dm) : x[l] = dm[l - Len(bk)]  BY <1>3
    <3> HIDE DEF n
    <3>2. x[k + n] = dm[(k + n) - Len(bk)]  BY <2>3, <3>1, Zenon
    <3> QED  BY <2>3, <3>2, Zenon
  <2>5. dm[n] = d[n] /\ d[n] = w + n  BY <1>2, <2>1
  <2> QED  BY <2>1, <2>2, <2>4, <2>5
<1>10. Increasing(r)
  <2> SUFFICES ASSUME NEW i \in DOMAIN r, NEW j \in DOMAIN r, i < j PROVE r[i] < r[j]
    BY DEF Increasing
  <2>1. CASE j <= Len(f) + k
    <3>1. i \in 1 .. Len(f) + k /\ j \in 1 .. Len(f) + k  BY <1>1, <1>7, <2>1
    <3> QED  BY <1>6, <1>8, <3>1 DEF Increasing
  <2>2. CASE i <= Len(f) + k /\ j > Len(f) + k
    <3>1. i \in 1 .. Len(f) + k /\ j \in Len(f) + k + 1 .. Len(r)  BY <1>1, <1>7, <2>2
    <3>2. q[i] <= w /\ r[i] = q[i] /\ q[i] \in Nat  BY <1>6, <1>7, <1>8, <3>1 DEF Below
    <3>3. r[j] = w + (j - (Len(f) + k)) /\ j - (Len(f) + k) \in 1 .. m  BY <1>9, <3>1
    <3> QED  BY <3>2, <3>3
  <2>3. CASE i > Len(f) + k
    <3>1. i \in Len(f) + k + 1 .. Len(r) /\ j \in Len(f) + k + 1 .. Len(r)  BY <1>1, <1>7, <2>3
    <3>2. r[i] = w + (i - (Len(f) + k)) /\ r[j] = w + (j - (Len(f) + k))  BY <1>9, <3>1
    <3>3. i \in Int /\ j \in Int /\ Len(f) + k \in Int  BY <1>1, <3>1
    <3> QED  BY <3>2, <3>3
  <2> QED  BY <1>1, <1>7, <2>1, <2>2, <2>3
<1>11. Below(r, w + Len(d))
  <2> SUFFICES ASSUME NEW i \in DOMAIN r PROVE r[i] <= w + Len(d)  BY DEF Below
  <2>1. CASE i <= Len(f) + k
    <3>1. i \in 1 .. Len(f) + k  BY <1>1, <1>7, <2>1
    <3>2. q[i] <= w /\ r[i] = q[i] /\ q[i] \in Nat  BY <1>6, <1>7, <1>8, <3>1 DEF Below
    <3> QED  BY <1>1, <3>2
  <2>2. CASE i > Len(f) + k
    <3>1. i \in Len(f) + k + 1 .. Len(r)  BY <1>1, <1>7, <2>2
    <3> QED  BY <1>1, <1>9, <3>1
  <2> QED  BY <1>1, <1>7, <2>1, <2>2
<1> QED  BY <1>10, <1>11 DEF r, x, bk, dm

\* Writing at the end is appending.
LEMMA PutAtEnd ==
    ASSUME NEW S, NEW c \in Seq(S), NEW s \in Seq(S)
    PROVE  File!Put(c, Len(c), s) = c \o s
<1> DEFINE n == Len(c) + Len(s) + 1
<1>1. SubSeq(c, 1, Len(c)) = c  BY SubSeqFull
<1>2. SubSeq(c, n, Len(c)) = << >>
  <2>1. n \in Int /\ Len(c) \in Int /\ Len(c) < n  OBVIOUS
  <2> QED  BY <2>1, SubSeqEmpty
<1>3. c \o s \in Seq(S)  BY ConcatProperties
<1>4. (c \o s) \o << >> = c \o s  BY <1>3, ConcatEmptySeq
<1> QED  BY <1>1, <1>2, <1>4 DEF File!Put

LEMMA EndInitially == Init => AtTheEnd
<1> SUFFICES ASSUME Init PROVE AtTheEnd  OBVIOUS
<1>1. file = << >> /\ buf = << >> /\ filePos = 0  BY DEF Init
<1>2. << >> \o << >> = << >> /\ DOMAIN << >> = {} /\ Len(<< >>) = 0
  BY ConcatEmptySeq, EmptySeq
<1> QED  BY <1>1, <1>2 DEF AtTheEnd, Increasing, Below

\* A step that moves bytes, while there is no mark.
LEMMA EndHanded ==
    ASSUME TypeOK, AtTheEnd, lastMark = 0, NEW j, NEW k, NEW m, Handed(j, k, m)
    PROVE  /\ filePos' = Len(file')
           /\ Increasing(file' \o buf') /\ Below(file' \o buf', written')
<1> DEFINE d == New(j)
           x == SubSeq(buf, 1, k) \o SubSeq(d, 1, m)
<1>1. j \in Nat /\ written + j <= MaxBytes /\ written' = written + j /\ Moved(d, k, m)
  BY DEF Handed
<1>2. d \in Seq(Byte) /\ Len(d) = j /\ \A i \in 1 .. Len(d) : d[i] = written + i
  BY <1>1, NewBytes
<1>3. /\ file \in Seq(Byte) /\ buf \in Seq(Byte) /\ written \in Nat /\ Len(file) \in Nat
      /\ filePos = Len(file) /\ Increasing(file \o buf) /\ Below(file \o buf, written)
  BY Types DEF AtTheEnd
<1> HIDE DEF d
<1>4. PICK out \in Seq(Byte) :
         /\ file' = File!Put(file, filePos, out) /\ filePos' = filePos + Len(out)
         /\ out \o buf' = x
  BY <1>1 DEF Moved
<1>5. k \in 0 .. Len(buf) /\ m \in 0 .. Len(d) /\ buf' \in Seq(Byte)  BY <1>1 DEF Moved
<1>6. file' = file \o out  BY <1>3, <1>4, PutAtEnd
<1>7. filePos' = Len(file')
  <2>1. Len(file \o out) = Len(file) + Len(out)  BY <1>3, ConcatProperties
  <2> QED  BY <1>3, <1>4, <1>6, <2>1
<1>8. file' \o buf' = file \o x
  <2>1. (file \o out) \o buf' = file \o (out \o buf')
    <3>1. file \in Seq(Byte) /\ buf' \in Seq(Byte)  BY <1>3, <1>5
    <3> QED  BY <3>1, ConcatAssociative
  <2> QED  BY <1>4, <1>6, <2>1
<1>9. Increasing(file \o x) /\ Below(file \o x, written + Len(d))
  BY <1>2, <1>3, <1>5, FirstBytesInOrder
<1> QED  BY <1>1, <1>2, <1>7, <1>8, <1>9

LEMMA EndKept == TypeOK /\ AtTheEnd /\ [Next]_vars => AtTheEnd'
<1> SUFFICES ASSUME TypeOK, AtTheEnd, [Next]_vars, lastMark' = 0
             PROVE  /\ filePos' = Len(file')
                    /\ Increasing(file' \o buf') /\ Below(file' \o buf', written')
  BY DEF AtTheEnd, Increasing, Below
<1>1. CASE StartMark
  <2>1. lastMark' \in 1 .. MaxMarks  BY <1>1, StartMarkHands
  <2> QED  BY <2>1
<1>2. ASSUME NEW id \in {EndOfStream, InvalidId} \union 1 .. lastMark, NEW keep \in BOOLEAN,
             JumpToMark(id, keep)
      PROVE  /\ filePos' = Len(file')
             /\ Increasing(file' \o buf') /\ Below(file' \o buf', written')
  <2>1. PICK n \in Whole(buf) \union Part(buf) :
           /\ n \in 0 .. Len(buf) /\ SubSeq(buf, 1, n) \in Seq(Byte) /\ Len(SubSeq(buf, 1, n)) = n
           /\ file' = File!Put(file, filePos, SubSeq(buf, 1, n)) /\ file' \in Seq(Byte)
           /\ id = EndOfStream => filePos' = Len(file')
           /\ id # EndOfStream /\ id \notin DOMAIN marks => filePos' = filePos + n
    BY <1>2, JumpWrites
  <2>2. lastMark = 0 /\ buf' = << >> /\ written' = written  BY <1>2, JumpChanges
  <2>3. id \notin DOMAIN marks
    <3>1. DOMAIN marks \subseteq 1 .. lastMark  BY DEF TypeOK
    <3>2. 1 .. lastMark = {}  BY <2>2
    <3> QED  BY <3>1, <3>2
  <2>4. /\ file \in Seq(Byte) /\ buf \in Seq(Byte) /\ written \in Nat /\ Len(file) \in Nat
        /\ filePos = Len(file) /\ Increasing(file \o buf) /\ Below(file \o buf, written)
    BY <2>2, Types DEF AtTheEnd
  <2>5. file' = file \o SubSeq(buf, 1, n)  BY <2>1, <2>4, PutAtEnd
  <2>6. filePos' = Len(file')
    <3>1. Len(file \o SubSeq(buf, 1, n)) = Len(file) + n  BY <2>1, <2>4, ConcatProperties
    <3> QED  BY <2>1, <2>3, <2>4, <2>5, <3>1
  <2>7. << >> \in Seq(Byte) /\ Len(<< >>) = 0 /\ SubSeq(<< >>, 1, 0) = << >>
    BY Types, FirstBytes
  <2>8. SubSeq(buf, 1, n) \o SubSeq(<< >>, 1, 0) = SubSeq(buf, 1, n)
    BY <2>1, <2>7, FirstBytes
  <2>9. /\ Increasing(file \o (SubSeq(buf, 1, n) \o SubSeq(<< >>, 1, 0)))
        /\ Below(file \o (SubSeq(buf, 1, n) \o SubSeq(<< >>, 1, 0)), written + Len(<< >>))
    <3>1. \A i \in 1 .. Len(<< >>) : << >>[i] = written + i  BY <2>7
    <3>2. 0 \in 0 .. Len(<< >>)  BY <2>7
    <3> QED  BY <2>1, <2>4, <2>7, <3>1, <3>2, FirstBytesInOrder
  <2>10. file' \o buf' = file'  BY <2>1, <2>2, FirstBytes
  <2>11. written + Len(<< >>) = written'  BY <2>2, <2>4, <2>7
  <2> QED  BY <2>5, <2>6, <2>8, <2>9, <2>10, <2>11
<1>3. CASE /\ ~ StartMark
           /\ ~ \E id \in {EndOfStream, InvalidId} \union 1 .. lastMark, keep \in BOOLEAN :
                   JumpToMark(id, keep)
  <2>1. PICK j, k, m : Handed(j, k, m)  BY <1>3, PlainSteps
  <2>2. lastMark' = lastMark  BY <1>3, PlainSteps
  <2> QED  BY <2>1, <2>2, EndHanded
<1> QED  BY <1>1, <1>2, <1>3

\* Failed calls of fwrite lose bytes, and never change the order of the others or repeat one, as
\* long as there is no mark to jump to.
THEOREM SurvivorsAlwaysInOrder == Spec => []SurvivorsInOrder
<1>1. AtTheEnd => SurvivorsInOrder  BY DEF AtTheEnd, SurvivorsInOrder, Increasing
<1> QED  BY <1>1, EndInitially, EndKept, TypesAreRight, PTL DEF Spec

-----------------------------------------------------------------------------
(* The refinement of UnbufferedFile *)

\* The marks of the unbuffered file.
Marked == [id \in 1 .. lastMark |-> IF id \in DOMAIN marks THEN marks[id] ELSE -1]

LEMMA MarkedFacts ==
    ASSUME TypeOK
    PROVE  /\ Marked \in Seq(Int) /\ Len(Marked) = lastMark /\ DOMAIN Marked = 1 .. lastMark
           /\ lastMark \in Nat /\ DOMAIN marks \subseteq 1 .. lastMark
           /\ \A id \in DOMAIN marks : marks[id] \in Nat
<1>1. /\ lastMark \in Nat /\ DOMAIN marks \subseteq 1 .. lastMark
      /\ \A id \in DOMAIN marks : marks[id] \in Nat
  BY BufferAssumption, Types DEF TypeOK
<1>2. \A id \in 1 .. lastMark : (IF id \in DOMAIN marks THEN marks[id] ELSE -1) \in Int
  BY <1>1
<1>3. Marked \in [1 .. lastMark -> Int]  BY <1>2 DEF Marked
<1>4. Marked \in Seq(Int) /\ Len(Marked) = lastMark /\ DOMAIN Marked = 1 .. lastMark
  BY <1>1, <1>3
<1> QED  BY <1>1, <1>4

\* Bytes that a caller hands in are written at once.
LEMMA HandedWrites ==
    ASSUME TypeOK, NEW j, NEW k, NEW m, Handed(j, k, m), failures' = failures,
           UNCHANGED <<marks, lastMark>>
    PROVE  Implements!Write
<1> DEFINE d == New(j)
<1>1. j \in Nat /\ written + j <= MaxBytes /\ written' = written + j /\ Moved(d, k, m)
  BY DEF Handed
<1>2. d \in Seq(Byte) /\ Len(d) = j  BY <1>1, NewBytes
<1> HIDE DEF d
<1>3. Content' = File!Put(Content, Position, d) /\ Position' = Position + Len(d)
  BY <1>1, <1>2, NothingLost
<1>4. /\ Content \in Seq(Byte) /\ Position \in 0 .. Len(Content) /\ Len(Content) \in Nat
  BY ContentTypes
<1>5. SubSeq(Content', Position + 1, Position') = d
  BY <1>2, <1>3, <1>4, PutIsThere
<1>6. Position' \in Position .. Len(Content')
  <2>1. /\ Position + Len(d) > Len(Content) =>
                Len(File!Put(Content, Position, d)) = Position + Len(d)
        /\ Position + Len(d) <= Len(Content) => Len(File!Put(Content, Position, d)) = Len(Content)
    BY <1>2, <1>4, PutProperties
  <2>2. /\ Position + j > Len(Content) => Len(Content') = Position + j
        /\ Position + j <= Len(Content) => Len(Content') = Len(Content)
        /\ Position' = Position + j
    BY <1>2, <1>3, <2>1
  <2> HIDE DEF Content, Position
  <2> QED  BY <1>1, <1>4, <2>2
<1>7. Marked' = Marked  BY DEF Marked
<1> QED  BY <1>3, <1>5, <1>6, <1>7 DEF Implements!Write, Implements!Put, File!Put, Marked

\* A flush alone cannot be seen.
LEMMA HandedNothing ==
    ASSUME TypeOK, NEW k, NEW m, Handed(0, k, m), failures' = failures
    PROVE  Content' = Content /\ Position' = Position
<1>1. Moved(New(0), k, m) /\ written + 0 <= MaxBytes  BY DEF Handed
<1>2. New(0) = << >> /\ << >> \in Seq(Byte) /\ Len(<< >>) = 0  BY <1>1, NewBytes, Types
<1>3. Content' = File!Put(Content, Position, << >>) /\ Position' = Position + Len(<< >>)
  BY <1>1, <1>2, NothingLost
<1>4. Content \in Seq(Byte) /\ Position \in 0 .. Len(Content) /\ Len(Content) \in Nat
  BY ContentTypes
<1>5. File!Put(Content, Position, << >>) = Content  BY <1>4, PutNothing
<1> HIDE DEF Content, Position
<1> QED  BY <1>2, <1>3, <1>4, <1>5

LEMMA StartMarkSetsMark ==
    ASSUME TypeOK, StartMark, failures' = failures
    PROVE  Implements!SetMark
<1>1. PICK n : Handed(0, n, 0)  BY StartMarkHands
<1>2. Content' = Content /\ Position' = Position  BY <1>1, HandedNothing
<1>3. /\ lastMark' = lastMark + 1
      /\ DOMAIN marks' = DOMAIN marks \union {lastMark'}
      /\ \A id \in DOMAIN marks : marks'[id] = marks[id]
      /\ marks'[lastMark'] = filePos' /\ buf' = << >>
  BY StartMarkHands
<1>4. filePos' = Position /\ Position \in Int
  <2>1. Position' = filePos' + Len(buf')  BY DEF Position
  <2>2. filePos' \in Int  BY <1>1, HandedTypes
  <2>3. Len(buf') = 0  BY <1>3, Types
  <2>4. filePos' + Len(buf') = filePos'
    <3>1. \A p \in Int : p + 0 = p  OBVIOUS
    <3> QED  BY <2>2, <2>3, <3>1, Zenon
  <2>5. Position' = filePos'  BY <2>1, <2>4, Zenon
  <2> QED  BY <1>2, <2>2, <2>5
<1>5. Marked' = Append(Marked, Position)
  <2> DEFINE l == Append(Marked, Position)
             r == Marked'
  <2>1. /\ Marked \in Seq(Int) /\ Len(Marked) = lastMark /\ lastMark \in Nat
        /\ DOMAIN marks \subseteq 1 .. lastMark
    BY MarkedFacts
  <2>2. /\ l \in Seq(Int) /\ Len(l) = lastMark + 1
        /\ \A i \in 1 .. lastMark : l[i] = Marked[i]
        /\ l[lastMark + 1] = Position
    BY <1>4, <2>1, AppendProperties
  <2>3. TypeOK'  BY NextType DEF Next
  <2>4. r = [id \in 1 .. lastMark' |-> IF id \in DOMAIN marks' THEN marks'[id] ELSE -1]
    BY DEF Marked
  <2>5. l = [id \in 1 .. lastMark' |-> l[id]]
    <3>1. l \in [1 .. lastMark' -> Int]  BY <1>3, <2>2, LenProperties
    <3> HIDE DEF l
    <3> QED  BY <3>1
  <2>6. ASSUME NEW id \in 1 .. lastMark'
        PROVE  l[id] = IF id \in DOMAIN marks' THEN marks'[id] ELSE -1
    <3>1. CASE id = lastMark'  BY <1>3, <1>4, <2>2, <3>1
    <3>2. CASE id # lastMark'
      <4>1. id \in 1 .. lastMark  BY <1>3, <2>1, <3>2
      <4>2. l[id] = IF id \in DOMAIN marks THEN marks[id] ELSE -1
        BY <2>2, <4>1 DEF Marked
      <4> HIDE DEF l
      <4> QED  BY <1>3, <3>2, <4>2
    <3> QED  BY <3>1, <3>2
  <2> HIDE DEF l
  <2>7. r = l  BY <2>4, <2>5, <2>6
  <2> QED  BY <2>7 DEF l
<1> QED  BY <1>2, <1>5 DEF Implements!SetMark, Marked

LEMMA JumpJumps ==
    ASSUME TypeOK, NEW id \in {EndOfStream, InvalidId} \union 1 .. lastMark, NEW keep \in BOOLEAN,
           JumpToMark(id, keep), failures' = failures
    PROVE  \/ Implements!JumpToEnd
           \/ Implements!JumpToMark(keep)
           \/ Content' = Content /\ Position' = Position /\ Marked' = Marked
<1>1. /\ file' = File!Put(file, filePos, buf) /\ file' \in Seq(Byte) /\ Len(file') \in Nat
      /\ id = EndOfStream => filePos' = Len(file')
      /\ id # EndOfStream /\ id \in DOMAIN marks => filePos' = marks[id]
      /\ id # EndOfStream /\ id \notin DOMAIN marks => filePos' = filePos + Len(buf)
  BY JumpWrites, Types, FirstBytes
<1>2. /\ buf' = << >> /\ lastMark' = lastMark
      /\ keep => marks' = marks
      /\ ~ keep => marks' = [m \in DOMAIN marks \ {id} |-> marks[m]]
  BY JumpChanges
<1>3. filePos' \in 0 .. Len(file')
  <2>1. TypeOK'  BY NextType DEF Next
  <2> QED  BY <2>1 DEF TypeOK
<1>4. Content' = Content
  <2>1. Content' = File!Put(file', filePos', << >>)  BY <1>2 DEF Content, File!Put
  <2>2. File!Put(file', filePos', << >>) = file'  BY <1>1, <1>3, PutNothing
  <2> QED  BY <1>1, <2>1, <2>2 DEF Content
<1>5. Position' = filePos'
  <2>1. Position' = filePos' + Len(<< >>) /\ Len(<< >>) = 0  BY <1>2, Types DEF Position
  <2>2. filePos' \in Int  BY <1>3
  <2>3. filePos' + Len(<< >>) = filePos'
    <3>1. \A p \in Int : p + 0 = p  OBVIOUS
    <3> QED  BY <2>1, <2>2, <3>1, Zenon
  <2> QED  BY <2>1, <2>3, Zenon
<1>6. /\ lastMark \in Nat /\ DOMAIN marks \subseteq 1 .. lastMark /\ DOMAIN Marked = 1 .. lastMark
      /\ \A m \in DOMAIN marks : marks[m] \in Nat
  BY MarkedFacts
<1>7. id \notin DOMAIN marks => Marked' = Marked
  <2>1. id \notin DOMAIN marks => DOMAIN marks' = DOMAIN marks
    BY <1>2
  <2>2. \A m \in DOMAIN marks' : marks'[m] = marks[m]  BY JumpChanges
  <2> QED  BY <1>2, <2>1, <2>2 DEF Marked
<1>8. CASE id = EndOfStream
  <2>1. id \notin DOMAIN marks  BY <1>6, <1>8 DEF EndOfStream
  <2>2. file' = Content  BY <1>1 DEF Content
  <2>3. Position' = Len(Content)  BY <1>1, <1>5, <1>8, <2>2
  <2> QED  BY <1>4, <1>7, <2>1, <2>3 DEF Implements!JumpToEnd, Marked
<1>9. CASE id # EndOfStream /\ id \in DOMAIN marks
  <2>1. id \in DOMAIN Marked /\ Marked[id] = marks[id] /\ Marked[id] # -1
    BY <1>6, <1>9 DEF Marked
  <2>2. Position' = Marked[id]  BY <1>1, <1>5, <1>9, <2>1
  <2>3. Marked' = IF keep THEN Marked ELSE [Marked EXCEPT ![id] = -1]
    <3>1. CASE keep  BY <1>2, <3>1 DEF Marked
    <3>2. CASE ~ keep
      <4>1. marks' = [m \in DOMAIN marks \ {id} |-> marks[m]]  BY <1>2, <3>2
      <4>2. \A m \in 1 .. lastMark :
               (IF m \in DOMAIN marks' THEN marks'[m] ELSE -1)
                 = IF m = id THEN -1 ELSE IF m \in DOMAIN marks THEN marks[m] ELSE -1
        BY <4>1
      <4> QED  BY <1>2, <2>1, <3>2, <4>2 DEF Marked
    <3> QED  BY <3>1, <3>2
  <2>4. \E i \in DOMAIN Marked : /\ Marked[i] # -1 /\ Position' = Marked[i]
                                 /\ Marked' = IF keep THEN Marked ELSE [Marked EXCEPT ![i] = -1]
    BY <2>1, <2>2, <2>3
  <2> QED  BY <1>4, <2>4 DEF Implements!JumpToMark, Marked
<1>10. CASE id # EndOfStream /\ id \notin DOMAIN marks
  <2>1. Position' = Position  BY <1>1, <1>5, <1>10 DEF Position
  <2> QED  BY <1>4, <1>7, <1>10, <2>1
<1> QED  BY <1>8, <1>9, <1>10

\* Every step is a step of the unbuffered file, or cannot be seen, or the file is broken.
LEMMA StepOfTheFile ==
    ASSUME TypeOK, [Next]_vars
    PROVE  Implements!Next \/ UNCHANGED <<Content, Position, Marked, failures > 0>>
<1>1. failures \in Nat /\ failures' \in Nat /\ failures <= failures'
  <2>1. failures \in Nat /\ MaxFailures \in Nat  BY Types
  <2>2. failures' \in failures .. MaxFailures
    <3>1. CASE StartMark
      <4>1. PICK n : Handed(0, n, 0)  BY <3>1, StartMarkHands
      <4> QED  BY <4>1 DEF Handed, Moved
    <3>2. ASSUME NEW id \in {EndOfStream, InvalidId} \union 1 .. lastMark, NEW keep \in BOOLEAN,
                 JumpToMark(id, keep)
          PROVE  failures' \in failures .. MaxFailures
      BY <3>2, JumpWrites
    <3>3. CASE /\ ~ StartMark
               /\ ~ \E id \in {EndOfStream, InvalidId} \union 1 .. lastMark, keep \in BOOLEAN :
                       JumpToMark(id, keep)
      <4>1. PICK j, k, m : Handed(j, k, m)  BY <3>3, PlainSteps
      <4> QED  BY <4>1 DEF Handed, Moved
    <3> QED  BY <3>1, <3>2, <3>3
  <2> QED  BY <2>1, <2>2
<1>2. CASE failures' > 0
  BY <1>2 DEF Implements!Next
<1>3. CASE ~ (failures' > 0)
  <2>1. failures' = failures /\ ~ (failures' > 0) /\ ~ (failures > 0)  BY <1>1, <1>3
  <2>2. CASE StartMark
    <3>1. Implements!SetMark  BY <2>1, <2>2, StartMarkSetsMark
    <3> QED  BY <1>3, <3>1 DEF Implements!Next
  <2>3. ASSUME NEW id \in {EndOfStream, InvalidId} \union 1 .. lastMark, NEW keep \in BOOLEAN,
               JumpToMark(id, keep)
        PROVE  Implements!Next \/ UNCHANGED <<Content, Position, Marked, failures > 0>>
    <3>1. \/ Implements!JumpToEnd
          \/ Implements!JumpToMark(keep)
          \/ Content' = Content /\ Position' = Position /\ Marked' = Marked
      BY <2>1, <2>3, JumpJumps
    <3> QED  BY <1>3, <2>1, <3>1 DEF Implements!Next
  <2>4. CASE /\ ~ StartMark
             /\ ~ \E id \in {EndOfStream, InvalidId} \union 1 .. lastMark, keep \in BOOLEAN :
                     JumpToMark(id, keep)
    <3>1. PICK j, k, m : Handed(j, k, m)  BY <2>4, PlainSteps
    <3>2. UNCHANGED <<marks, lastMark>>  BY <2>4, PlainSteps
    <3>3. Implements!Write  BY <2>1, <3>1, <3>2, HandedWrites
    <3> QED  BY <1>3, <3>3 DEF Implements!Next
  <2> QED  BY <2>2, <2>3, <2>4
<1> QED  BY <1>2, <1>3

LEMMA StartOfTheFile == Init => Implements!Init
<1> SUFFICES ASSUME Init PROVE Implements!Init  OBVIOUS
<1>1. buf = << >> /\ file = << >> /\ filePos = 0 /\ lastMark = 0 /\ failures = 0
  BY DEF Init, EndOfStream
<1>2. << >> \in Seq(Byte) /\ Len(<< >>) = 0  OBVIOUS
<1>3. Content = << >>
  <2>1. 0 \in 0 .. Len(<< >>)  BY <1>2
  <2>2. File!Put(<< >>, 0, << >>) = << >>  BY <1>2, <2>1, PutNothing
  <2> QED  BY <1>1, <2>2 DEF Content
<1>4. Position = 0  BY <1>1, <1>2 DEF Position
<1>5. Marked = << >>  BY <1>1 DEF Marked
<1>6. (failures > 0) = FALSE  BY <1>1
<1> QED  BY <1>3, <1>4, <1>5, <1>6 DEF Implements!Init, Marked

\* As long as no call of fwrite fails, buffering cannot be seen, whatever the size of the buffer,
\* and whichever sizes callers use, and wherever they set marks and jump to them.
THEOREM BufferingCannotBeSeen == Spec => ImplementsUnbufferedFile
<1>1. TypeOK /\ [Next]_vars
        => [Implements!Next]_<<Content, Position, Marked, failures > 0>>
  BY StepOfTheFile
<1> QED
  BY <1>1, StartOfTheFile, TypesAreRight, PTL
     DEF Spec, ImplementsUnbufferedFile, Implements!Spec, Marked
=============================================================================
