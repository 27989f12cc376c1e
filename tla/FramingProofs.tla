--------------------------- MODULE FramingProofs ---------------------------
(***************************************************************************)
(* Proofs about Framing: for every number of packets and every way to cut  *)
(* the stream, the server handles all it has been sent and a client all    *)
(* that came in one piece.                                                 *)
(***************************************************************************)
EXTENDS Framing, SequenceTheorems, FiniteSetTheorems, WellFoundedInduction, TLAPS

\* The bytes after the first a, up to the b-th, of all that is written.
Bytes(a, b) == SubSeq(Written, a + 1, b)
Total == 6 * MaxPackets
Symbols == -1..MaxPackets

\* s lists the members of I in ascending order.
Lists(s, I) ==
    /\ s \in Seq(I)
    /\ \A i, j \in 1..Len(s) : i < j => s[i] < s[j]
    /\ \A x \in I : \E i \in 1..Len(s) : s[i] = x

\* What has not been read is the end of what was written.
StreamInv == Position \in 0..Total /\ stream = Bytes(Position, Total)

\* The server has handled the packets in order, and has in its remainder what
\* was read of the next one.
ServerInv ==
    reader = "server" =>
        /\ open /\ cuts = {}
        /\ taken = [i \in 1..Len(taken) |-> i]
        /\ 6 * Len(taken) <= Position /\ Position < 6 * Len(taken) + 6
        /\ remainder = Bytes(6 * Len(taken), Position)

\* The client has handled the packets that came in one piece.
ClientInv ==
    reader = "client" =>
        /\ open /\ remainder = <<>>
        /\ cuts \subseteq 1..Position
        /\ Position = 0 \/ Position \in cuts
        /\ Lists(taken, {n \in 1..(Position \div 6) : InOnePiece(n)})

\* The inductive invariant.
IInv == TypeOK /\ StreamInv /\ ServerInv /\ ClientInv

-----------------------------------------------------------------------------
(* Ascending lists.                                                          *)

LEMMA LeastElement ==
    ASSUME NEW T, T \subseteq Nat, T # {}
    PROVE  \E x \in T : \A y \in T : x <= y
<1>. DEFINE R == OpToRel(<, Nat)
<1>1. PICK x \in T : \A y \in T : ~(<<y, x>> \in R)
  BY NatLessThanWellFounded, WFMin
<1>2. \A y \in T : <<y, x>> \in R <=> y < x
  BY DEF OpToRel
<1>3. \A y \in T : ~(y < x)
  BY <1>1, <1>2
<1>. QED BY <1>3

\* There is only one ascending list of a set.
LEMMA ListsOnce ==
    ASSUME NEW I, I \subseteq Nat, NEW f, NEW g, Lists(f, I), Lists(g, I), Len(f) = Len(g)
    PROVE  f = g
<1>. SUFFICES ASSUME f # g PROVE FALSE
  OBVIOUS
<1>. DEFINE n == Len(f)
<1>0. /\ n \in Nat /\ f \in [1..n -> I] /\ g \in [1..n -> I]
      /\ \A i, j \in 1..n : i < j => f[i] < f[j] /\ g[i] < g[j]
      /\ \A x \in I : (\E i \in 1..n : f[i] = x) /\ (\E i \in 1..n : g[i] = x)
  BY LenProperties DEF Lists
<1>. HIDE DEF n
<1>. DEFINE T == {i \in 1..n : f[i] # g[i]}
<1>1. PICK i \in T : \A j \in T : i <= j
  <2>1. T # {} /\ T \subseteq Nat
    BY <1>0
  <2>. QED BY <2>1, LeastElement
<1>2. i \in 1..n /\ f[i] \in Nat /\ g[i] \in Nat /\ f[i] # g[i]
  BY <1>0
<1>3. \A j \in 1..n : j < i => f[j] = g[j]
  BY <1>1
<1>4. CASE f[i] < g[i]
  <2>1. PICK j \in 1..n : g[j] = f[i]
    BY <1>0, <1>2
  <2>2. CASE j < i
    BY <1>0, <1>2, <1>3, <2>1, <2>2
  <2>3. CASE i <= j
    BY <1>0, <1>2, <1>4, <2>1, <2>3
  <2>. QED BY <1>0, <1>2, <2>2, <2>3
<1>5. CASE g[i] < f[i]
  <2>1. PICK j \in 1..n : f[j] = g[i]
    BY <1>0, <1>2
  <2>2. CASE j < i
    BY <1>0, <1>2, <1>3, <2>1, <2>2
  <2>3. CASE i <= j
    BY <1>0, <1>2, <1>5, <2>1, <2>3
  <2>. QED BY <1>0, <1>2, <2>2, <2>3
<1>. QED BY <1>2, <1>4, <1>5

LEMMA AscendingLists ==
    ASSUME NEW I, I \subseteq Nat, NEW s, Lists(s, I)
    PROVE  Ascending(I) = s
<1>. DEFINE n == Len(s)
            Sorted(at) == \A i, j \in DOMAIN at : i < j => at[i] < at[j]
<1>1. n \in Nat /\ s \in [1..n -> I] /\ Sorted(s)
  BY LenProperties DEF Lists
<1>2. Cardinality(I) = n
  <2>1. \A i, j \in 1..n : s[i] = s[j] => i = j
    <3>. SUFFICES ASSUME NEW i \in 1..n, NEW j \in 1..n, s[i] = s[j]
                  PROVE  i = j
      OBVIOUS
    <3>1. s[i] \in Nat /\ s[j] \in Nat
      BY <1>1
    <3>2. ~(i < j) /\ ~(j < i)
      BY <1>1, <3>1
    <3>. QED BY <3>2
  <2>2. s \in Bijection(1..n, I)
    BY <1>1, <2>1 DEF Bijection, Injection, Surjection, IsInjective, Lists
  <2>. QED BY <1>1, <2>2, FS_CountingElements DEF ExistsBijection
<1>3. /\ Ascending(I) \in [1..n -> I]
      /\ Sorted(Ascending(I))
  <2>1. \E at \in [1..n -> I] : Sorted(at)
    BY <1>1
  <2>2. Ascending(I) = CHOOSE at \in [1..n -> I] : Sorted(at)
    BY <1>2 DEF Ascending
  <2>. QED BY <2>1, <2>2
<1>. DEFINE g == Ascending(I)
<1>. HIDE DEF g
<1>4. \A x \in I : \E i \in 1..n : g[i] = x
  <2>. DEFINE G == {g[i] : i \in 1..n}
  <2>1. \A i, j \in 1..n : g[i] = g[j] => i = j
    <3>. SUFFICES ASSUME NEW i \in 1..n, NEW j \in 1..n, g[i] = g[j]
                  PROVE  i = j
      OBVIOUS
    <3>1. g[i] \in Nat /\ g[j] \in Nat
      BY <1>3 DEF g
    <3>2. ~(i < j) /\ ~(j < i)
      BY <1>3, <3>1 DEF g
    <3>. QED BY <3>2
  <2>2. g \in Bijection(1..n, G)
    BY <1>3, <2>1 DEF Bijection, Injection, Surjection, IsInjective, g
  <2>3. Cardinality(G) = n
    BY <1>1, <2>2, FS_CountingElements DEF ExistsBijection
  <2>4. IsFiniteSet(I)
    <3>1. \A x \in I : \E i \in 1..n : s[i] = x
      BY DEF Lists
    <3>2. s \in Surjection(1..n, I) /\ IsFiniteSet(1..n)
      BY <1>1, <3>1, FS_Interval DEF Surjection
    <3>. QED BY <3>2, FS_Surjection
  <2>5. G \subseteq I
    BY <1>3 DEF g
  <2>6. G = I
    BY <1>2, <2>3, <2>4, <2>5, FS_Subset
  <2>. QED BY <2>6
<1>5. g \in Seq(I) /\ Len(g) = n
  <2>1. g \in [1..n -> I]
    BY <1>3 DEF g
  <2>. QED BY <1>1, <2>1, SeqDef
<1>6. Lists(g, I)
  BY <1>1, <1>3, <1>4, <1>5 DEF Lists, g
<1>7. s = g
  BY <1>5, <1>6, ListsOnce
<1>. QED BY <1>7 DEF g

-----------------------------------------------------------------------------
(* The bytes that are written.                                               *)

LEMMA Division ==
    ASSUME NEW n \in Nat, NEW r \in 0..5
    PROVE  (6 * n + r) \div 6 = n /\ (6 * n + r) % 6 = r
OBVIOUS

LEMMA DivisionExists ==
    ASSUME NEW i \in Nat
    PROVE  \E n \in Nat, r \in 0..5 : i = 6 * n + r /\ i \div 6 = n
<1>. DEFINE n == i \div 6
            r == i % 6
<1>1. n \in Nat /\ r \in 0..5 /\ i = 6 * n + r
  OBVIOUS
<1>. QED BY <1>1

LEMMA EncodedBytes ==
    ASSUME NEW n
    PROVE  Text(n) = <<n, 0, -1, n>> /\ Encode(n) = <<n, 0, -1, n, -1, 0>>
<1>. DEFINE S == {n, 0, -1}
            t == <<n, 0, -1, n>>
            d == <<-1, 0>>
            e == <<n, 0, -1, n, -1, 0>>
<1>1. Text(n) = t /\ Encode(n) = t \o d
  BY DEF Text, Encode, Delimiter, Plus, Minus
<1>2. t \in Seq(S) /\ d \in Seq(S) /\ e \in Seq(S) /\ Len(t) = 4 /\ Len(d) = 2 /\ Len(e) = 6
  OBVIOUS
<1>3. /\ t \o d \in Seq(S) /\ Len(t \o d) = 4 + 2
      /\ \A i \in 1..4 + 2 : (t \o d)[i] = IF i <= 4 THEN t[i] ELSE d[i - 4]
  BY <1>2, ConcatProperties
<1>4. \A i \in 1..6 : e[i] = IF i <= 4 THEN t[i] ELSE d[i - 4]
  OBVIOUS
<1>. HIDE DEF t, d, e, S
<1>5. t \o d = e
  <2>1. Len(t \o d) = Len(e) /\ \A i \in 1..Len(t \o d) : (t \o d)[i] = e[i]
    BY <1>2, <1>3, <1>4
  <2>. QED BY <1>2, <1>3, <2>1, SeqEqual
<1>. QED BY <1>1, <1>5 DEF t, e

LEMMA WrittenBytes ==
    /\ Total \in Nat
    /\ Written \in Seq(Symbols)
    /\ Len(Written) = Total
    /\ \A i \in 1..Total : Written[i] \in Symbols
    /\ \A n \in Nat, r \in 1..6 : 6 * n + r <= Total =>
          Written[6 * n + r] = <<n + 1, 0, -1, n + 1, -1, 0>>[r]
<1>1. Total \in Nat /\ MaxPackets \in Nat
  BY FramingAssumption DEF Total
<1>2. ASSUME NEW i \in 1..Total
      PROVE  Written[i] = Encode(((i - 1) \div 6) + 1)[((i - 1) % 6) + 1]
  BY DEF Written, PacketLength, Total
<1>3. ASSUME NEW n \in Nat, NEW r \in 1..6, 6 * n + r <= Total
      PROVE  Written[6 * n + r] = <<n + 1, 0, -1, n + 1, -1, 0>>[r]
  <2>1. 6 * n + r \in 1..Total
    BY <1>1, <1>3
  <2>2. 6 * n + r - 1 = 6 * n + (r - 1) /\ r - 1 \in 0..5
    OBVIOUS
  <2>3. (6 * n + r - 1) \div 6 = n /\ (6 * n + r - 1) % 6 = r - 1
    BY <2>2, Division
  <2>4. Written[6 * n + r] = Encode(n + 1)[(r - 1) + 1]
    BY <1>2, <2>1, <2>3
  <2>5. (r - 1) + 1 = r
    OBVIOUS
  <2>. QED BY <2>4, <2>5, EncodedBytes
<1>4. ASSUME NEW i \in 1..Total
      PROVE  Written[i] \in Symbols
  <2>1. PICK n \in Nat, q \in 0..5 : i - 1 = 6 * n + q
    <3>1. i - 1 \in Nat
      BY <1>1
    <3>. QED BY <3>1, DivisionExists
  <2>2. i = 6 * n + (q + 1) /\ q + 1 \in 1..6 /\ n + 1 \in 1..MaxPackets
    BY <1>1, <2>1 DEF Total
  <2>3. Written[i] = <<n + 1, 0, -1, n + 1, -1, 0>>[q + 1]
    BY <1>3, <2>2
  <2>4. \A r \in 1..6 : <<n + 1, 0, -1, n + 1, -1, 0>>[r] \in {n + 1, 0, -1}
    OBVIOUS
  <2>5. Written[i] \in {n + 1, 0, -1}
    BY <2>2, <2>3, <2>4
  <2>. QED BY <1>1, <2>2, <2>5 DEF Symbols
<1>5. Written \in [1..Total -> Symbols]
  BY <1>4 DEF Written, PacketLength, Total
<1>6. Written \in Seq(Symbols) /\ Len(Written) = Total
  BY <1>1, <1>5, SeqDef
<1>. QED BY <1>1, <1>3, <1>4, <1>6

\* A delimiter begins in the fifth byte of each packet, and nowhere else.
LEMMA WrittenDelimiters ==
    /\ \A n \in Nat : 6 * n + 6 <= Total =>
          Written[6 * n + 5] = -1 /\ Written[6 * n + 6] = 0
    /\ \A i \in 1..Total - 1 : Written[i] = -1 /\ Written[i + 1] = 0 =>
          \E n \in Nat : i = 6 * n + 5
<1>1. ASSUME NEW n \in Nat, 6 * n + 6 <= Total
      PROVE  Written[6 * n + 5] = -1 /\ Written[6 * n + 6] = 0
  <2>1. 6 * n + 5 <= Total
    BY <1>1, WrittenBytes
  <2>2. /\ Written[6 * n + 5] = <<n + 1, 0, -1, n + 1, -1, 0>>[5]
        /\ Written[6 * n + 6] = <<n + 1, 0, -1, n + 1, -1, 0>>[6]
    BY <1>1, <2>1, WrittenBytes
  <2>. QED BY <2>2
<1>2. ASSUME NEW i \in 1..Total - 1, Written[i] = -1, Written[i + 1] = 0
      PROVE  \E n \in Nat : i = 6 * n + 5
  <2>1. PICK n \in Nat, q \in 0..5 : i = 6 * n + q
    <3>1. i \in Nat
      BY WrittenBytes
    <3>. QED BY <3>1, DivisionExists
  <2>2. i <= Total /\ i + 1 <= Total
    BY WrittenBytes
  <2>3. CASE q = 0
    <3>1. PICK m \in Nat : i = 6 * m + 6
      <4>1. n - 1 \in Nat /\ i = 6 * (n - 1) + 6
        BY <2>1, <2>3, WrittenBytes
      <4>. QED BY <4>1
    <3>2. Written[i] = <<m + 1, 0, -1, m + 1, -1, 0>>[6]
      BY <2>2, <3>1, WrittenBytes
    <3>. QED BY <1>2, <3>2
  <2>4. CASE q \in 1..4
    <3>1. /\ Written[i] = <<n + 1, 0, -1, n + 1, -1, 0>>[q]
          /\ Written[i + 1] = <<n + 1, 0, -1, n + 1, -1, 0>>[q + 1]
      <4>1. i + 1 = 6 * n + (q + 1) /\ q + 1 \in 1..6 /\ q \in 1..6
        BY <2>1, <2>4
      <4>. QED BY <2>1, <2>2, <4>1, WrittenBytes
    <3>2. q = 3
      BY <1>2, <2>4, <3>1
    <3>. QED BY <1>2, <3>1, <3>2
  <2>5. CASE q = 5
    BY <2>1, <2>5
  <2>. QED BY <2>3, <2>4, <2>5
<1>. QED BY <1>1, <1>2

LEMMA PieceBytes ==
    ASSUME NEW a \in Nat, NEW b \in Nat, a <= b, b <= Total
    PROVE  /\ Bytes(a, b) \in Seq(Symbols)
           /\ Len(Bytes(a, b)) = b - a
           /\ \A i \in 1..b - a : Bytes(a, b)[i] = Written[a + i]
<1>1. \A i \in (a + 1)..b : Written[i] \in Symbols
  BY WrittenBytes
<1>2. /\ Bytes(a, b) \in Seq(Symbols)
      /\ Len(Bytes(a, b)) = IF a + 1 <= b THEN b - (a + 1) + 1 ELSE 0
      /\ \A i \in 1..b - (a + 1) + 1 : Bytes(a, b)[i] = Written[(a + 1) + i - 1]
  BY <1>1, SubSeqProperties DEF Bytes
<1>. QED BY <1>2

\* A piece of a piece.
LEMMA PieceOfPiece ==
    ASSUME NEW a \in Nat, NEW b \in Nat, a <= b, b <= Total,
           NEW c \in Nat, NEW d \in Nat, a <= c, c <= d, d <= b
    PROVE  SubSeq(Bytes(a, b), c - a + 1, d - a) = Bytes(c, d)
<1>. DEFINE s == Bytes(a, b)
            t == SubSeq(s, c - a + 1, d - a)
<1>1. /\ s \in Seq(Symbols) /\ Len(s) = b - a
      /\ \A i \in 1..b - a : s[i] = Written[a + i]
  BY PieceBytes
<1>2. /\ Bytes(c, d) \in Seq(Symbols) /\ Len(Bytes(c, d)) = d - c
      /\ \A i \in 1..d - c : Bytes(c, d)[i] = Written[c + i]
  <2>1. d <= Total
    BY WrittenBytes
  <2>. QED BY <2>1, PieceBytes
<1>. HIDE DEF s
<1>3. \A i \in (c - a + 1)..(d - a) : s[i] \in Symbols
  <2>. SUFFICES ASSUME NEW i \in (c - a + 1)..(d - a) PROVE s[i] \in Symbols
    OBVIOUS
  <2>1. i \in 1..Len(s)
    BY <1>1
  <2>. QED BY <1>1, <2>1, ElementOfSeq
<1>4. /\ t \in Seq(Symbols)
      /\ Len(t) = IF c - a + 1 <= d - a THEN (d - a) - (c - a + 1) + 1 ELSE 0
      /\ \A i \in 1..(d - a) - (c - a + 1) + 1 : t[i] = s[(c - a + 1) + i - 1]
  <2>1. c - a + 1 \in Int /\ d - a \in Int
    OBVIOUS
  <2>. QED BY <1>3, <2>1, SubSeqProperties
<1>. HIDE DEF t
<1>5. Len(t) = d - c
  BY <1>4
<1>6. \A i \in 1..d - c : t[i] = Written[c + i]
  <2>. SUFFICES ASSUME NEW i \in 1..d - c PROVE t[i] = Written[c + i]
    OBVIOUS
  <2>1. t[i] = s[(c - a) + i] /\ (c - a) + i \in 1..b - a
    BY <1>4
  <2>2. s[(c - a) + i] = Written[a + ((c - a) + i)]
    BY <1>1, <2>1
  <2>3. a + ((c - a) + i) = c + i
    OBVIOUS
  <2>. QED BY <2>1, <2>2, <2>3
<1>7. t = Bytes(c, d)
  BY <1>2, <1>4, <1>5, <1>6, SeqEqual
<1>. QED BY <1>7 DEF t, s

\* The text of a packet is what is between the delimiters, and is parsed as
\* this packet only.
LEMMA TextBytes ==
    ASSUME NEW n \in 1..MaxPackets
    PROVE  /\ Bytes(6 * n - 6, 6 * n - 2) = Text(n)
           /\ Text(n) # <<>>
           /\ Parse(Text(n)) = {n}
<1>1. PICK m \in Nat : n = m + 1
  <2>1. n - 1 \in Nat
    BY FramingAssumption
  <2>. QED BY <2>1
<1>2. 6 * m + 6 <= Total /\ 6 * n - 6 = 6 * m /\ 6 * n - 2 = 6 * m + 4
  BY <1>1, FramingAssumption DEF Total
<1>3. Text(n) \in Seq(Symbols) /\ Len(Text(n)) = 4
  <2>1. {n, 0, -1} \subseteq Symbols
    BY FramingAssumption DEF Symbols
  <2>2. Text(n) = <<n, 0, -1, n>>
    BY EncodedBytes
  <2>. QED BY <2>1, <2>2
<1>4. /\ Bytes(6 * m, 6 * m + 4) \in Seq(Symbols)
      /\ Len(Bytes(6 * m, 6 * m + 4)) = 4
      /\ \A i \in 1..4 : Bytes(6 * m, 6 * m + 4)[i] = Written[6 * m + i]
  <2>1. /\ 6 * m \in Nat /\ 6 * m + 4 \in Nat /\ 6 * m <= 6 * m + 4
        /\ 6 * m + 4 <= Total /\ (6 * m + 4) - 6 * m = 4
    BY <1>2, WrittenBytes
  <2>. QED BY <2>1, PieceBytes
<1>5. \A i \in 1..4 : Written[6 * m + i] = Text(n)[i]
  <2>. SUFFICES ASSUME NEW i \in 1..4 PROVE Written[6 * m + i] = Text(n)[i]
    OBVIOUS
  <2>1. 6 * m + i <= Total /\ i \in 1..6
    BY <1>2, WrittenBytes
  <2>2. Written[6 * m + i] = <<m + 1, 0, -1, m + 1, -1, 0>>[i]
    BY <2>1, WrittenBytes
  <2>3. Text(n) = <<m + 1, 0, -1, m + 1>>
    BY <1>1, EncodedBytes
  <2>. QED BY <2>2, <2>3
<1>6. Bytes(6 * m, 6 * m + 4) = Text(n)
  <2>. DEFINE s == Bytes(6 * m, 6 * m + 4)
              t == Text(n)
  <2>1. s \in Seq(Symbols) /\ t \in Seq(Symbols) /\ Len(s) = 4 /\ Len(t) = 4
    BY <1>3, <1>4
  <2>2. \A i \in 1..4 : s[i] = t[i]
    BY <1>4, <1>5
  <2>. HIDE DEF s, t
  <2>3. s = t
    BY <2>1, <2>2, SeqEqual
  <2>. QED BY <2>3 DEF s, t
<1>7. \A k : Text(k) = Text(n) => k = n
  BY EncodedBytes
<1>8. Parse(Text(n)) = {n}
  BY <1>7 DEF Parse
<1>9. Text(n) # <<>>
  BY <1>3
<1>. QED BY <1>2, <1>6, <1>8, <1>9

LEMMA NotAText ==
    ASSUME NEW s, Len(s) # 4
    PROVE  Parse(s) = {}
<1>1. \A n : Len(Text(n)) = 4
  BY EncodedBytes
<1>. QED BY <1>1 DEF Parse

-----------------------------------------------------------------------------
(* Splitting what one read returns.  A piece begins after byte a and ends    *)
(* with byte e; the first delimiter that lies in it as a whole, if there is  *)
(* one, ends packet u; there are m of them.                                  *)

Piece(a, e, u, m) ==
    /\ a \in Nat /\ e \in Nat /\ u \in Nat /\ m \in Nat
    /\ a < e /\ e <= Total
    /\ 6 * u - 7 <= a /\ a <= 6 * u - 2
    /\ m = 0 \/ 6 * (u + m - 1) <= e
    /\ e < 6 * (u + m)

LEMMA DelimiterAt ==
    ASSUME NEW a \in Nat, NEW e \in Nat, a < e, e <= Total, NEW i \in 1..(e - a) - 1
    PROVE  SubSeq(Bytes(a, e), i, i + 1) = Delimiter
              <=> Written[a + i] = -1 /\ Written[a + i + 1] = 0
<1>. DEFINE s == Bytes(a, e)
            t == SubSeq(s, i, i + 1)
<1>1. s[i] = Written[a + i] /\ s[i + 1] = Written[a + i + 1]
  <2>1. i \in 1..e - a /\ i + 1 \in 1..e - a /\ a <= e
    OBVIOUS
  <2>2. s[i + 1] = Written[a + (i + 1)]
    BY <2>1, PieceBytes
  <2>. QED BY <2>1, <2>2, PieceBytes
<1>2. \A j \in i..i + 1 : s[j] \in Symbols
  <2>. SUFFICES ASSUME NEW j \in i..i + 1 PROVE s[j] \in Symbols
    OBVIOUS
  <2>1. s \in Seq(Symbols) /\ Len(s) = e - a
    <3>1. a <= e
      OBVIOUS
    <3>. QED BY <3>1, PieceBytes
  <2>. HIDE DEF s
  <2>2. j \in 1..Len(s)
    BY <2>1
  <2>. QED BY <2>1, <2>2, ElementOfSeq
<1>. HIDE DEF s
<1>3. /\ t \in Seq(Symbols)
      /\ Len(t) = IF i <= i + 1 THEN (i + 1) - i + 1 ELSE 0
      /\ \A j \in 1..(i + 1) - i + 1 : t[j] = s[i + j - 1]
  BY <1>2, SubSeqProperties
<1>. HIDE DEF t
<1>4. Len(t) = 2 /\ t[1] = s[i] /\ t[2] = s[i + 1]
  <2>1. t[1] = s[i + 1 - 1] /\ t[2] = s[i + 2 - 1]
    BY <1>3
  <2>2. i + 1 - 1 = i /\ i + 2 - 1 = i + 1
    OBVIOUS
  <2>. QED BY <1>3, <2>1, <2>2
<1>5. t = Delimiter <=> t[1] = -1 /\ t[2] = 0
  <2>. DEFINE d == <<-1, 0>>
  <2>1. Delimiter = d /\ d[1] = -1 /\ d[2] = 0
    BY DEF Delimiter, Plus, Minus
  <2>2. d \in Seq(Symbols) /\ Len(d) = 2
    BY FramingAssumption DEF Symbols
  <2>3. ASSUME t[1] = -1, t[2] = 0 PROVE t = d
    <3>. HIDE DEF d
    <3>1. \A j \in 1..2 : t[j] = d[j]
      BY <2>1, <2>3
    <3>. QED BY <1>3, <1>4, <2>2, <3>1, SeqEqual
  <2>. QED BY <2>1, <2>3
<1>. QED BY <1>1, <1>4, <1>5 DEF s, t

LEMMA DelimitersOf ==
    ASSUME NEW a, NEW e, NEW u, NEW m, Piece(a, e, u, m)
    PROVE  Delimiters(Bytes(a, e)) = [j \in 1..m |-> 6 * u + 6 * j - 7 - a]
<1>. DEFINE s == Bytes(a, e)
            I == {i \in 1..Len(s) - 1 : SubSeq(s, i, i + 1) = Delimiter}
            at == [j \in 1..m |-> 6 * u + 6 * j - 7 - a]
<1>1. /\ a \in Nat /\ e \in Nat /\ u \in Nat /\ m \in Nat /\ Total \in Nat
      /\ a < e /\ e <= Total /\ 6 * u - 7 <= a /\ a <= 6 * u - 2
      /\ m = 0 \/ 6 * u + 6 * m - 6 <= e
      /\ e < 6 * u + 6 * m
  BY WrittenBytes DEF Piece
<1>2. Len(s) = e - a
  BY <1>1, PieceBytes
<1>3. \A i : i \in I <=> i \in 1..(e - a) - 1 /\ Written[a + i] = -1 /\ Written[a + i + 1] = 0
  BY <1>1, <1>2, DelimiterAt
<1>. HIDE DEF I, s
<1>4. ASSUME NEW j \in 1..m
      PROVE  at[j] \in I
  <2>1. PICK n \in Nat : 6 * u + 6 * j - 7 = 6 * n + 5
    <3>1. u + j - 2 \in Nat /\ 6 * u + 6 * j - 7 = 6 * (u + j - 2) + 5
      BY <1>1
    <3>. QED BY <3>1
  <2>2. a + at[j] = 6 * n + 5 /\ a + at[j] + 1 = 6 * n + 6 /\ 6 * n + 6 <= Total
    BY <1>1, <2>1
  <2>3. Written[6 * n + 5] = -1 /\ Written[6 * n + 6] = 0
    BY <2>2, WrittenDelimiters
  <2>4. at[j] \in 1..(e - a) - 1
    BY <1>1
  <2>. QED BY <1>3, <2>2, <2>3, <2>4
<1>5. ASSUME NEW i \in I
      PROVE  \E j \in 1..m : at[j] = i
  <2>1. /\ i \in 1..(e - a) - 1 /\ a + i \in 1..Total - 1
        /\ Written[a + i] = -1 /\ Written[a + i + 1] = 0
    BY <1>1, <1>3
  <2>2. PICK n \in Nat : a + i = 6 * n + 5
    BY <2>1, WrittenDelimiters
  <2>3. n - u + 2 \in 1..m
    BY <1>1, <2>1, <2>2
  <2>4. at[n - u + 2] = i
    BY <1>1, <2>1, <2>2, <2>3
  <2>. QED BY <2>3, <2>4
<1>6. at \in Seq(I) /\ Len(at) = m
  <2>1. at \in [1..m -> I]
    BY <1>4
  <2>. QED BY <1>1, <2>1, SeqDef
<1>7. \A i, j \in 1..m : i < j => at[i] < at[j]
  BY <1>1
<1>8. Lists(at, I)
  <2>. HIDE DEF at
  <2>. QED BY <1>5, <1>6, <1>7 DEF Lists
<1>9. I \subseteq Nat
  BY <1>1, <1>3
<1>10. Ascending(I) = at
  BY <1>8, <1>9, AscendingLists
<1>. QED BY <1>10 DEF Delimiters, I, s

\* The segments: what precedes the first delimiter, packets, and the rest.
Segments(a, e, u, m) ==
    [k \in 1..m + 1 |-> Bytes(IF k = 1 THEN a ELSE 6 * u + 6 * k - 12,
                              IF k > m THEN e ELSE 6 * u + 6 * k - 8)]

LEMMA SplitInto ==
    ASSUME NEW a, NEW e, NEW u, NEW m, Piece(a, e, u, m)
    PROVE  Split(Bytes(a, e)) = Segments(a, e, u, m)
<1>. DEFINE s == Bytes(a, e)
            at == [j \in 1..m |-> 6 * u + 6 * j - 7 - a]
            From(k) == IF k = 1 THEN a ELSE 6 * u + 6 * k - 12
            To(k) == IF k > m THEN e ELSE 6 * u + 6 * k - 8
<1>1. /\ a \in Nat /\ e \in Nat /\ u \in Nat /\ m \in Nat /\ Total \in Nat
      /\ a < e /\ e <= Total /\ 6 * u - 7 <= a /\ a <= 6 * u - 2
      /\ m = 0 \/ 6 * u + 6 * m - 6 <= e
      /\ e < 6 * u + 6 * m
  BY WrittenBytes DEF Piece
<1>2. Len(s) = e - a
  BY <1>1, PieceBytes
<1>3. Delimiters(s) = at /\ Len(at) = m
  <2>1. at \in Seq(Int) /\ Len(at) = m
    BY <1>1
  <2>. QED BY <2>1, DelimitersOf
<1>. DEFINE F(k) == IF k = 1 THEN 1 ELSE at[k - 1] + 2
            L(k) == IF k > m THEN e - a ELSE at[k] - 1
<1>4. Split(s) = [k \in 1..m + 1 |-> SubSeq(s, F(k), L(k))]
  <2>. HIDE DEF s, at
  <2>. QED BY <1>2, <1>3 DEF Split
<1>5. ASSUME NEW k \in 1..m + 1
      PROVE  SubSeq(s, F(k), L(k)) = Bytes(From(k), To(k))
  <2>1. F(k) = From(k) - a + 1
    <3>1. CASE k = 1
      BY <1>1, <3>1
    <3>2. CASE k # 1
      <4>1. k - 1 \in 1..m
        BY <1>1, <3>2
      <4>2. at[k - 1] = 6 * u + 6 * (k - 1) - 7 - a
        BY <4>1
      <4>. QED BY <1>1, <3>2, <4>2
    <3>. QED BY <3>1, <3>2
  <2>2. L(k) = To(k) - a
    <3>1. CASE k > m
      BY <1>1, <3>1
    <3>2. CASE ~(k > m)
      <4>1. k \in 1..m
        BY <1>1, <3>2
      <4>. QED BY <1>1, <3>2, <4>1
    <3>. QED BY <3>1, <3>2
  <2>3. /\ From(k) \in Nat /\ To(k) \in Nat
        /\ a <= From(k) /\ From(k) <= To(k) /\ To(k) <= e
    BY <1>1
  <2>4. a <= e
    BY <1>1
  <2>. HIDE DEF F, L, From, To
  <2>5. SubSeq(s, From(k) - a + 1, To(k) - a) = Bytes(From(k), To(k))
    <3>1. PICK c \in Nat : c = From(k)
      BY <2>3
    <3>2. PICK d \in Nat : d = To(k)
      BY <2>3
    <3>3. SubSeq(Bytes(a, e), c - a + 1, d - a) = Bytes(c, d)
      <4>1. a \in Nat /\ e \in Nat /\ a <= e /\ e <= Total /\ a <= c /\ c <= d /\ d <= e
        BY <1>1, <2>3, <2>4, <3>1, <3>2
      <4>. QED BY <4>1, PieceOfPiece
    <3>. QED BY <3>1, <3>2, <3>3
  <2>. QED BY <2>1, <2>2, <2>5
<1>. HIDE DEF F, L, s
<1>6. Split(s) = [k \in 1..m + 1 |-> Bytes(From(k), To(k))]
  BY <1>4, <1>5
<1>. QED BY <1>6 DEF Segments, s

\* The segments but the last.
LEMMA SegmentsFront ==
    ASSUME NEW a, NEW e, NEW u, NEW m, Piece(a, e, u, m)
    PROVE  /\ DOMAIN Front(Segments(a, e, u, m)) = 1..m
           /\ \A k \in 1..m : Front(Segments(a, e, u, m))[k] = Segments(a, e, u, m)[k]
           /\ Last(Segments(a, e, u, m)) = Segments(a, e, u, m)[m + 1]
<1>. DEFINE s == Segments(a, e, u, m)
            S == {s[k] : k \in 1..m + 1}
            f == SubSeq(s, 1, m)
<1>1. m \in Nat
  BY DEF Piece
<1>2. s \in [1..m + 1 -> S]
  BY DEF Segments
<1>3. Len(s) = m + 1
  BY <1>1 DEF Segments
<1>4. \A k \in 1..m : s[k] \in S
  BY <1>1
<1>. HIDE DEF s, S
<1>5. /\ f \in Seq(S) /\ Len(f) = m
      /\ \A k \in 1..m : f[k] = s[k]
  <2>1. 1 \in Int /\ m \in Int
    BY <1>1
  <2>2. /\ f \in Seq(S) /\ Len(f) = IF 1 <= m THEN m - 1 + 1 ELSE 0
        /\ \A k \in 1..m - 1 + 1 : f[k] = s[1 + k - 1]
    BY <1>4, <2>1, SubSeqProperties
  <2>. QED BY <1>1, <2>2
<1>6. Front(s) = f
  BY <1>1, <1>3 DEF Front
<1>7. Last(s) = s[m + 1]
  BY <1>3 DEF Last
<1>8. DOMAIN f = 1..m
  BY <1>5
<1>. QED BY <1>5, <1>6, <1>7, <1>8 DEF s

\* A segment between two delimiters, or between the end of a packet and a
\* delimiter, is the text of a packet.
LEMMA WholeSegment ==
    ASSUME NEW a \in Nat, NEW e \in Nat, NEW u \in Nat, NEW m \in Nat,
           Piece(a, e, u, m),
           NEW k \in 1..m, k # 1 \/ a = 6 * u - 6
    PROVE  Segments(a, e, u, m)[k] = Text(u + k - 1)
<1>1. /\ a \in Nat /\ e \in Nat /\ u \in Nat /\ m \in Nat /\ MaxPackets \in Nat
      /\ e <= 6 * MaxPackets /\ 6 * u - 7 <= a /\ a <= 6 * u - 2
      /\ 6 * u + 6 * m - 6 <= e
  BY FramingAssumption DEF Piece, Total
<1>2. PICK n \in 1..MaxPackets : n = u + k - 1
  <2>1. u + k - 1 \in 1..MaxPackets
    BY <1>1
  <2>. QED BY <2>1
<1>3. Segments(a, e, u, m)[k] = Bytes(IF k = 1 THEN a ELSE 6 * u + 6 * k - 12,
                                      IF k > m THEN e ELSE 6 * u + 6 * k - 8)
  BY <1>1 DEF Segments
<1>4. /\ (IF k = 1 THEN a ELSE 6 * u + 6 * k - 12) = 6 * n - 6
      /\ (IF k > m THEN e ELSE 6 * u + 6 * k - 8) = 6 * n - 2
  BY <1>1, <1>2
<1>5. Segments(a, e, u, m)[k] = Text(n)
  BY <1>3, <1>4, TextBytes
<1>. QED BY <1>2, <1>5

\* The end of a packet that was cut, or the second byte of a delimiter and the
\* packet behind it, cannot be parsed.
LEMMA CutSegment ==
    ASSUME NEW a \in Nat, NEW e \in Nat, NEW u \in Nat, NEW m \in Nat,
           Piece(a, e, u, m), m # 0, a # 6 * u - 6
    PROVE  Parse(Segments(a, e, u, m)[1]) = {}
<1>1. /\ a \in Nat /\ e \in Nat /\ u \in Nat /\ m \in Nat /\ Total \in Nat
      /\ e <= Total /\ 6 * u - 7 <= a /\ a <= 6 * u - 2
      /\ 6 * u + 6 * m - 6 <= e
  BY WrittenBytes DEF Piece
<1>2. Segments(a, e, u, m)[1] = Bytes(a, 6 * u - 2)
  <2>1. 1 \in 1..m + 1 /\ ~(1 > m) /\ 6 * u + 6 * 1 - 8 = 6 * u - 2
    BY <1>1
  <2>. QED BY <2>1 DEF Segments
<1>3. PICK d \in Nat : d = 6 * u - 2
  <2>1. 6 * u - 2 \in Nat
    BY <1>1
  <2>. QED BY <2>1
<1>4. a <= d /\ d <= Total
  BY <1>1, <1>3
<1>5. Len(Bytes(a, d)) = d - a
  BY <1>1, <1>4, PieceBytes
<1>6. d - a # 4
  BY <1>1, <1>3
<1>. QED BY <1>2, <1>3, <1>5, <1>6, NotAText

\* Segments that are the texts of consecutive packets, but for some that are
\* none at the beginning.
Texts(f, m, n, cut) ==
    /\ DOMAIN f = 1..m /\ cut <= m
    /\ \A k \in 1..cut : Parse(f[k]) = {}
    /\ \A k \in cut + 1..m : Parse(f[k]) = {n + k}

LEMMA ParsedTexts ==
    ASSUME NEW f, NEW m \in Nat, NEW n \in Int, NEW cut \in Nat, Texts(f, m, n, cut)
    PROVE  Parsed(f, DOMAIN f) = [i \in 1..m - cut |-> n + cut + i]
<1>. DEFINE I == {k \in DOMAIN f : Parse(f[k]) # {}}
            s == [i \in 1..m - cut |-> cut + i]
<1>. USE DEF Texts
<1>1. \A k : k \in I <=> k \in cut + 1..m
  <2>1. \A k \in 1..m : k \in 1..cut \/ k \in cut + 1..m
    OBVIOUS
  <2>2. \A k \in cut + 1..m : k \in 1..m
    OBVIOUS
  <2>. QED BY <2>1, <2>2
<1>. HIDE DEF I
<1>2. s \in Seq(I) /\ Len(s) = m - cut
  <2>1. PICK l \in Nat : l = m - cut
    OBVIOUS
  <2>2. s \in [1..l -> I]
    BY <1>1, <2>1
  <2>. HIDE DEF s
  <2>3. s \in Seq(I) /\ Len(s) = l
    BY <2>2, SeqDef
  <2>. QED BY <2>1, <2>3
<1>3. ASSUME NEW x \in I
      PROVE  \E i \in 1..m - cut : s[i] = x
  <2>1. x - cut \in 1..m - cut /\ s[x - cut] = x
    BY <1>1
  <2>. QED BY <2>1
<1>4. Lists(s, I)
  BY <1>2, <1>3 DEF Lists
<1>5. I \subseteq Nat
  BY <1>1
<1>6. Ascending(I) = s
  BY <1>4, <1>5, AscendingLists
<1>7. Parsed(f, DOMAIN f) = [i \in DOMAIN s |-> CHOOSE x \in Parse(f[s[i]]) : TRUE]
  <2>1. Parsed(f, DOMAIN f) =
           [i \in DOMAIN Ascending(I) |-> CHOOSE x \in Parse(f[Ascending(I)[i]]) : TRUE]
    BY Zenon DEF Parsed, I
  <2>. HIDE DEF s
  <2>. QED BY <1>6, <2>1
<1>8. ASSUME NEW i \in 1..m - cut
      PROVE  (CHOOSE x \in Parse(f[s[i]]) : TRUE) = n + cut + i
  <2>1. s[i] = cut + i /\ cut + i \in cut + 1..m
    OBVIOUS
  <2>2. Parse(f[s[i]]) = {n + (cut + i)}
    BY <2>1
  <2>. QED BY <2>2
<1>. QED BY <1>7, <1>8

LEMMA ListsConcat ==
    ASSUME NEW I, NEW J, NEW K, I \subseteq Nat, J \subseteq Nat,
           \A x : x \in K <=> x \in I \/ x \in J,
           \A x \in I, y \in J : x < y,
           NEW s, NEW t, Lists(s, I), Lists(t, J)
    PROVE  Lists(s \o t, K)
<1>. DEFINE r == s \o t
<1>1. s \in Seq(K) /\ t \in Seq(K) /\ s \in Seq(I) /\ t \in Seq(J)
  <2>1. I \subseteq K /\ J \subseteq K
    OBVIOUS
  <2>. QED BY <2>1, SeqMonotonic DEF Lists
<1>2. Len(s) \in Nat /\ Len(t) \in Nat
  BY <1>1, LenProperties
<1>3. /\ r \in Seq(K) /\ Len(r) = Len(s) + Len(t)
      /\ \A i \in 1..Len(s) + Len(t) : r[i] = IF i <= Len(s) THEN s[i] ELSE t[i - Len(s)]
  BY <1>1, ConcatProperties
<1>. HIDE DEF r
<1>4. /\ \A i \in 1..Len(s) : s[i] \in I /\ r[i] = s[i]
      /\ \A i \in 1..Len(t) : t[i] \in J /\ r[Len(s) + i] = t[i]
  <2>1. ASSUME NEW i \in 1..Len(s) PROVE s[i] \in I /\ r[i] = s[i]
    BY <1>1, <1>2, <1>3, ElementOfSeq
  <2>2. ASSUME NEW i \in 1..Len(t) PROVE t[i] \in J /\ r[Len(s) + i] = t[i]
    <3>1. /\ Len(s) + i \in 1..Len(s) + Len(t) /\ ~(Len(s) + i <= Len(s))
          /\ Len(s) + i - Len(s) = i
      BY <1>2
    <3>. QED BY <1>1, <1>3, <3>1, ElementOfSeq
  <2>. QED BY <2>1, <2>2
<1>5. ASSUME NEW i \in 1..Len(r), NEW j \in 1..Len(r), i < j
      PROVE  r[i] < r[j]
  <2>1. CASE j <= Len(s)
    <3>1. i \in 1..Len(s) /\ j \in 1..Len(s)
      BY <1>2, <1>3, <1>5, <2>1
    <3>. QED BY <1>4, <1>5, <3>1 DEF Lists
  <2>2. CASE i <= Len(s) /\ ~(j <= Len(s))
    <3>1. i \in 1..Len(s) /\ j - Len(s) \in 1..Len(t) /\ r[j] = t[j - Len(s)]
      BY <1>2, <1>3, <2>2
    <3>. QED BY <1>4, <3>1
  <2>3. CASE ~(i <= Len(s))
    <3>1. /\ i - Len(s) \in 1..Len(t) /\ r[i] = t[i - Len(s)]
          /\ j - Len(s) \in 1..Len(t) /\ r[j] = t[j - Len(s)]
          /\ i - Len(s) < j - Len(s)
      BY <1>2, <1>3, <1>5, <2>3
    <3>2. \A m, n \in 1..Len(t) : m < n => t[m] < t[n]
      BY DEF Lists
    <3>. QED BY <3>1, <3>2
  <2>. QED BY <1>2, <1>3, <2>1, <2>2, <2>3
<1>6. ASSUME NEW x \in K
      PROVE  \E i \in 1..Len(r) : r[i] = x
  <2>1. CASE x \in I
    <3>1. PICK i \in 1..Len(s) : s[i] = x
      BY <2>1 DEF Lists
    <3>2. i \in 1..Len(r)
      BY <1>2, <1>3
    <3>. QED BY <1>4, <3>1, <3>2
  <2>2. CASE x \in J
    <3>1. PICK i \in 1..Len(t) : t[i] = x
      BY <2>2 DEF Lists
    <3>2. Len(s) + i \in 1..Len(r)
      BY <1>2, <1>3
    <3>. QED BY <1>4, <3>1, <3>2
  <2>. QED BY <2>1, <2>2
<1>7. Lists(r, K)
  BY <1>3, <1>5, <1>6 DEF Lists
<1>. QED BY <1>7 DEF r

LEMMA ListsInterval ==
    ASSUME NEW b \in Nat, NEW l \in Nat
    PROVE  Lists([i \in 1..l |-> b + i], b + 1..b + l)
<1>. DEFINE s == [i \in 1..l |-> b + i]
            J == b + 1..b + l
<1>1. s \in [1..l -> J]
  OBVIOUS
<1>2. \A i, j \in 1..l : i < j => s[i] < s[j]
  OBVIOUS
<1>3. ASSUME NEW x \in J
      PROVE  \E i \in 1..l : s[i] = x
  <2>1. x - b \in 1..l /\ s[x - b] = x
    OBVIOUS
  <2>. QED BY <2>1
<1>. HIDE DEF s, J
<1>4. s \in Seq(J) /\ Len(s) = l
  BY <1>1, SeqDef
<1>5. Lists(s, J)
  BY <1>2, <1>3, <1>4 DEF Lists
<1>. QED BY <1>5 DEF s, J

LEMMA InitInv == Init => IInv
<1>. SUFFICES ASSUME Init PROVE IInv
  OBVIOUS
<1>. USE DEF Init
<1>1. Written \in Seq(Symbols) /\ Len(Written) = Total /\ Total \in Nat
  BY WrittenBytes
<1>2. Position = 0 /\ Position \in 0..Total
  BY <1>1 DEF Position, PacketLength, Total
<1>3. stream = Bytes(0, Total)
  BY <1>1, SubSeqFull DEF Bytes
<1>4. TypeOK
  <2>1. stream \in Seq(Symbols) /\ remainder \in Seq(Symbols) /\ taken \in Seq(1..MaxPackets)
    BY <1>1, EmptySeq
  <2>. QED BY <2>1 DEF TypeOK, Symbols
<1>5. ServerInv
  <2>1. Bytes(0, 0) = <<>>
    BY SubSeqEmpty DEF Bytes
  <2>2. <<>> = [i \in 1..0 |-> i]
    OBVIOUS
  <2>. QED BY <1>2, <2>1, <2>2 DEF ServerInv
<1>6. ClientInv
  <2>1. {n \in 1..(0 \div 6) : InOnePiece(n)} = {}
    OBVIOUS
  <2>2. Lists(<<>>, {})
    BY DEF Lists
  <2>. QED BY <1>2, <2>1, <2>2 DEF ClientInv
<1>. QED BY <1>2, <1>3, <1>4, <1>5, <1>6 DEF IInv, StreamInv

\* What one read returns, and what it leaves in the stream.
LEMMA ReadBytes ==
    ASSUME IInv, NEW k \in 1..Len(stream), Read(k)
    PROVE  /\ Position \in Nat /\ Position + k <= Total
           /\ SubSeq(stream, 1, k) = Bytes(Position, Position + k)
           /\ Position' = Position + k
           /\ StreamInv'
           /\ stream' \in Seq(Symbols)
<1>. DEFINE p == Position
<1>1. /\ p \in Nat /\ p <= Total /\ Total \in Nat /\ stream = Bytes(p, Total)
      /\ p = Total - Len(stream)
  BY WrittenBytes DEF IInv, StreamInv, Position, PacketLength, Total
<1>2. Len(stream) = Total - p
  <2>1. p \in Nat /\ Total \in Nat /\ p <= Total /\ Total <= Total
    BY <1>1
  <2>. HIDE DEF p
  <2>. QED BY <1>1, <2>1, PieceBytes
<1>. HIDE DEF p
<1>3. p + k \in Nat /\ p + k <= Total
  BY <1>1, <1>2
<1>4. SubSeq(stream, 1, k) = Bytes(p, p + k)
  <2>1. PICK d \in Nat : d = p + k
    BY <1>3
  <2>2. SubSeq(Bytes(p, Total), p - p + 1, d - p) = Bytes(p, d)
    <3>1. /\ p \in Nat /\ Total \in Nat /\ p <= Total /\ Total <= Total
          /\ p <= p /\ p <= d /\ d <= Total
      BY <1>1, <1>3, <2>1
    <3>. QED BY <3>1, PieceOfPiece
  <2>3. p - p + 1 = 1 /\ d - p = k
    BY <1>1, <2>1
  <2>. QED BY <1>1, <2>1, <2>2, <2>3
<1>5. stream' = Bytes(p + k, Total)
  <2>1. PICK c \in Nat : c = p + k
    BY <1>3
  <2>2. SubSeq(Bytes(p, Total), c - p + 1, Total - p) = Bytes(c, Total)
    <3>1. /\ p \in Nat /\ Total \in Nat /\ p <= Total /\ Total <= Total
          /\ p <= c /\ c <= Total
      BY <1>1, <1>3, <2>1
    <3>. QED BY <3>1, PieceOfPiece
  <2>3. c - p + 1 = k + 1 /\ Total - p = Len(stream)
    BY <1>1, <1>2, <2>1
  <2>. QED BY <1>1, <2>1, <2>2, <2>3 DEF Read
<1>6. Len(stream') = Total - (p + k) /\ stream' \in Seq(Symbols)
  <2>1. PICK c \in Nat : c = p + k
    BY <1>3
  <2>2. c \in Nat /\ Total \in Nat /\ c <= Total /\ Total <= Total
    BY <1>1, <1>3, <2>1
  <2>3. Len(Bytes(c, Total)) = Total - c /\ Bytes(c, Total) \in Seq(Symbols)
    BY <2>2, PieceBytes
  <2>. QED BY <1>5, <2>1, <2>3
<1>7. Position' = Total - Len(stream')
  BY DEF Position, Total, PacketLength
<1>8. Position' = p + k
  BY <1>1, <1>3, <1>6, <1>7
<1>. QED BY <1>1, <1>3, <1>4, <1>5, <1>6, <1>8 DEF StreamInv, p

\* How many delimiters a piece has, and how many packets end up to its end.
LEMMA PieceExists ==
    ASSUME NEW a \in Nat, NEW e \in Nat, NEW u \in Nat,
           a < e, e <= Total, 6 * u - 7 <= a, a <= 6 * u - 2
    PROVE  \E m \in Nat : Piece(a, e, u, m) /\ e \div 6 = u + m - 1
<1>1. PICK n \in Nat, r \in 0..5 : e = 6 * n + r /\ e \div 6 = n
  BY DivisionExists
<1>2. PICK m \in Nat : m = n + 1 - u
  <2>1. n + 1 - u \in Nat
    BY <1>1
  <2>. QED BY <2>1
<1>3. 6 * (u + m - 1) <= e /\ e < 6 * (u + m) /\ n = u + m - 1
  BY <1>1, <1>2
<1>. QED BY <1>1, <1>3 DEF Piece

-----------------------------------------------------------------------------
(* The steps.                                                                *)

\* The remainder and what is read are a piece that begins with a packet.
LEMMA ServerReadsInv ==
    ASSUME IInv, NEW k \in 1..Len(stream), ServerReads(k)
    PROVE  IInv'
<1>. DEFINE q == Len(taken)
            p == Position
<1>1. /\ reader = "server" /\ open /\ cuts = {} /\ Read(k)
      /\ reader' = "server" /\ cuts' = {}
  BY DEF ServerReads, IInv, ServerInv, Read
<1>2. /\ p \in Nat /\ p + k <= Total /\ Position' = p + k
      /\ SubSeq(stream, 1, k) = Bytes(p, p + k)
      /\ StreamInv' /\ stream' \in Seq(Symbols)
  BY <1>1, ReadBytes
<1>3. /\ taken \in Seq(1..MaxPackets) /\ q \in Nat /\ Total \in Nat
      /\ taken = [i \in 1..q |-> i]
      /\ 6 * q <= p /\ p < 6 * q + 6
      /\ remainder = Bytes(6 * q, p)
  BY <1>1, WrittenBytes, LenProperties DEF IInv, TypeOK, ServerInv
<1>. HIDE DEF q, p
<1>4. PICK e \in Nat : e = p + k
  BY <1>2
<1>5. PICK a \in Nat : a = 6 * q
  BY <1>3
<1>6. PICK u \in Nat : u = q + 1
  BY <1>3
<1>7. /\ a < e /\ e <= Total /\ a <= p /\ p < e
      /\ 6 * u - 7 <= a /\ a <= 6 * u - 2 /\ a = 6 * u - 6
  BY <1>2, <1>3, <1>4, <1>5, <1>6
<1>8. PICK m \in Nat : Piece(a, e, u, m) /\ e \div 6 = u + m - 1
  BY <1>7, PieceExists
<1>. DEFINE segments == Segments(a, e, u, m)
            f == Front(segments)
            n == [i \in 1..m |-> q + i]
<1>9. remainder \o SubSeq(stream, 1, k) = Bytes(a, e)
  <2>1. /\ Written \in Seq(Symbols)
        /\ a + 1 \in 1..Len(Written) + 1
        /\ p \in (a + 1) - 1..Len(Written)
        /\ e \in p..Len(Written)
    BY <1>2, <1>3, <1>7, WrittenBytes
  <2>2. SubSeq(Written, a + 1, p) \o SubSeq(Written, p + 1, e) = SubSeq(Written, a + 1, e)
    BY <2>1, ConcatAdjacentSubSeq
  <2>. QED BY <1>2, <1>3, <1>4, <1>5, <2>2 DEF Bytes
<1>10. Split(remainder \o SubSeq(stream, 1, k)) = segments
  BY <1>8, <1>9, SplitInto
<1>11. /\ DOMAIN f = 1..m
       /\ \A i \in 1..m : f[i] # <<>> /\ Parse(f[i]) = {q + i} /\ q + i \in 1..MaxPackets
       /\ Last(segments) = segments[m + 1]
  <2>1. /\ DOMAIN f = 1..m
        /\ \A i \in 1..m : f[i] = segments[i]
        /\ Last(segments) = segments[m + 1]
    BY <1>8, SegmentsFront
  <2>2. ASSUME NEW i \in 1..m
        PROVE  f[i] # <<>> /\ Parse(f[i]) = {q + i} /\ q + i \in 1..MaxPackets
    <3>1. segments[i] = Text(u + i - 1)
      BY <1>7, <1>8, WholeSegment
    <3>2. u + i - 1 = q + i /\ q + i \in 1..MaxPackets
      BY <1>3, <1>6, <1>7, <1>8, FramingAssumption DEF Piece, Total
    <3>. QED BY <2>1, <3>1, <3>2, TextBytes
  <2>. QED BY <2>1, <2>2
<1>12. remainder' = Bytes(6 * (q + m), e) /\ 6 * (q + m) <= e /\ e < 6 * (q + m) + 6
  <2>1. remainder' = segments[m + 1]
    BY <1>10, <1>11 DEF ServerReads
  <2>2. segments[m + 1] = Bytes(IF m + 1 = 1 THEN a ELSE 6 * u + 6 * (m + 1) - 12, e)
    BY DEF Segments
  <2>3. (IF m + 1 = 1 THEN a ELSE 6 * u + 6 * (m + 1) - 12) = 6 * (q + m)
    BY <1>3, <1>5, <1>6
  <2>4. 6 * (q + m) <= e /\ e < 6 * (q + m) + 6
    BY <1>3, <1>6, <1>7, <1>8 DEF Piece
  <2>. QED BY <2>1, <2>2, <2>3, <2>4
<1>. HIDE DEF f, segments
<1>13. HandleSegments(f)
  BY <1>10 DEF ServerReads, f
<1>14. open' /\ taken' = taken \o n
  <2>. DEFINE bad == {i \in DOMAIN f : f[i] # <<>> /\ Parse(f[i]) = {}}
              handled == {i \in DOMAIN f : \A j \in bad : i < j}
  <2>1. taken' = taken \o Parsed(f, handled) /\ open' = (bad = {})
    BY <1>13 DEF HandleSegments
  <2>2. bad = {}
    BY <1>11
  <2>3. handled = DOMAIN f
    BY <2>2
  <2>4. Parsed(f, DOMAIN f) = [i \in 1..m - 0 |-> q + 0 + i]
    <3>1. PICK cut \in Nat : cut = 0
      OBVIOUS
    <3>2. Texts(f, m, q, cut)
      BY <1>3, <1>11, <3>1 DEF Texts
    <3>3. Parsed(f, DOMAIN f) = [i \in 1..m - cut |-> q + cut + i]
      BY <1>3, <3>2, ParsedTexts
    <3>. QED BY <3>1, <3>3
  <2>5. m - 0 = m /\ q + 0 = q
    BY <1>3
  <2>. HIDE DEF bad, handled
  <2>6. open'
    BY <2>1, <2>2
  <2>. QED BY <2>1, <2>3, <2>4, <2>5, <2>6
<1>15. /\ taken' \in Seq(1..MaxPackets) /\ Len(taken') = q + m
       /\ taken' = [i \in 1..q + m |-> i]
  <2>. DEFINE S == 1..MaxPackets
  <2>0. n \in [1..m -> S] /\ taken \in Seq(S)
    BY <1>3, <1>11
  <2>. HIDE DEF n, S
  <2>1. n \in Seq(S) /\ Len(n) = m
    BY <2>0, SeqDef
  <2>2. Len(taken) = q
    BY DEF q
  <2>3. /\ taken' \in Seq(S) /\ Len(taken') = q + m
        /\ \A i \in 1..q + m : taken'[i] = IF i <= q THEN taken[i] ELSE n[i - q]
    BY <1>14, <2>0, <2>1, <2>2, ConcatProperties
  <2>4. ASSUME NEW i \in 1..q + m PROVE taken'[i] = i
    <3>1. CASE i <= q
      BY <1>3, <2>3, <3>1
    <3>2. CASE ~(i <= q)
      <4>1. i - q \in 1..m /\ q + (i - q) = i
        BY <1>3, <3>2
      <4>2. n[i - q] = q + (i - q)
        BY <4>1 DEF n
      <4>. QED BY <2>3, <3>2, <4>1, <4>2
    <3>. QED BY <3>1, <3>2
  <2>5. DOMAIN taken' = 1..q + m /\ taken' = [i \in DOMAIN taken' |-> taken'[i]]
    BY <2>3
  <2>. QED BY <2>3, <2>4, <2>5 DEF S
<1>16. ServerInv'
  BY <1>1, <1>2, <1>4, <1>12, <1>14, <1>15 DEF ServerInv
<1>17. ClientInv'
  BY <1>1 DEF ClientInv
<1>18. TypeOK'
  <2>1. remainder' \in Seq(Symbols)
    <3>1. PICK c \in Nat : c = 6 * (q + m)
      BY <1>3
    <3>. QED BY <1>7, <1>12, <3>1, PieceBytes
  <2>2. open' \in BOOLEAN
    BY <1>14
  <2>. QED BY <1>1, <1>2, <1>15, <2>1, <2>2 DEF TypeOK, Symbols
<1>. QED BY <1>2, <1>16, <1>17, <1>18 DEF IInv

\* Packet n in one piece when the reads ended at C.
Uncut(n, C) ==
    /\ \A c \in C : ~(6 * n - 6 < c /\ c < 6 * n)
    /\ 6 * n - 7 \in C => 6 * n - 6 \in C

LEMMA UncutIsInOnePiece ==
    ASSUME NEW n \in Nat
    PROVE  /\ InOnePiece(n) <=> Uncut(n, cuts)
           /\ InOnePiece(n)' <=> Uncut(n, cuts')
<1>1. /\ 6 * (n - 1) = 6 * n - 6 /\ 6 * n - 6 - 1 = 6 * n - 7
  OBVIOUS
<1>. QED BY <1>1 DEF InOnePiece, Uncut, PacketLength

\* The read begins in packet v + 1, or with it; cut tells whether its first
\* segment is lost.
Begins(a, u, m, v, cut) ==
    /\ 6 * v <= a /\ a < 6 * v + 6
    /\ u = IF a = 6 * v + 5 THEN v + 2 ELSE v + 1
    /\ cut = IF m = 0 \/ a = 6 * v THEN 0 ELSE 1

\* The reads before have ended at C, the last of them at a.
Ended(C, a) == C \subseteq 1..a /\ (a = 0 \/ a \in C)

\* A read from byte a, in packet v + 1, to byte e changes nothing for the
\* packets before, breaks those it begins in, and has all the others to its end.
LEMMA UncutAfterRead ==
    ASSUME NEW a \in Nat, NEW e \in Nat, NEW u \in Nat, NEW m \in Nat, Piece(a, e, u, m),
           NEW v \in Nat, NEW cut \in Nat, Begins(a, u, m, v, cut),
           NEW C, Ended(C, a),
           NEW n \in Nat, n # 0
    PROVE  (n <= u + m - 1 /\ Uncut(n, C \cup {e}))
              <=> \/ n <= v /\ Uncut(n, C)
                  \/ u + cut <= n /\ n <= u + m - 1
<1>. DEFINE D == C \cup {e}
<1>. USE DEF Begins, Ended
<1>1. /\ a < e /\ e <= Total /\ Total \in Nat
      /\ m = 0 \/ 6 * u + 6 * m - 6 <= e
      /\ e < 6 * u + 6 * m
  BY WrittenBytes DEF Piece
<1>2. \A c : c \in D <=> c \in C \/ c = e
  OBVIOUS
<1>3. \A c \in C : c \in Nat /\ c <= a
  OBVIOUS
<1>4. u + m - 1 >= v
  BY <1>1
<1>. HIDE DEF D
<1>5. CASE n <= v
  <2>1. ~(6 * n - 6 < e /\ e < 6 * n) /\ 6 * n - 7 # e /\ 6 * n - 6 # e
    BY <1>1, <1>5
  <2>2. Uncut(n, D) <=> Uncut(n, C)
    BY <1>2, <2>1 DEF Uncut
  <2>3. n <= u + m - 1 /\ ~(u + cut <= n)
    BY <1>4, <1>5
  <2>. QED BY <1>5, <2>2, <2>3 DEF D
<1>6. CASE v < n /\ n <= u + m - 1 /\ u + cut <= n
  <2>1. 6 * n <= e /\ 6 * n - 6 >= a
    BY <1>1, <1>6
  <2>2. ASSUME NEW c \in D PROVE ~(6 * n - 6 < c /\ c < 6 * n)
    <3>1. CASE c \in C
      BY <1>3, <2>1, <3>1
    <3>2. CASE c = e
      BY <2>1, <3>2
    <3>. QED BY <1>2, <3>1, <3>2
  <2>3. ASSUME 6 * n - 7 \in D PROVE 6 * n - 6 \in D
    <3>1. 6 * n - 7 \in C
      BY <1>2, <2>1, <2>3
    <3>2. 6 * n - 7 <= a /\ 6 * n - 7 >= 1
      BY <3>1
    <3>3. a = 6 * n - 6
      BY <1>1, <1>6, <2>1, <3>2
    <3>. QED BY <1>2, <3>2, <3>3
  <2>4. Uncut(n, D)
    BY <2>2, <2>3 DEF Uncut
  <2>. QED BY <1>6, <2>4 DEF D
<1>7. CASE v < n /\ n <= u + m - 1 /\ ~(u + cut <= n)
  <2>1. a # 6 * v
    BY <1>7
  <2>2. a \in C
    BY <2>1
  <2>3. n = v + 1 \/ (n = v + 2 /\ a = 6 * v + 5 /\ m # 0)
    BY <1>7
  <2>4. CASE n = v + 1
    <3>1. 6 * n - 6 < a /\ a < 6 * n
      BY <2>1, <2>4
    <3>. QED BY <1>2, <1>7, <2>2, <3>1 DEF Uncut, D
  <2>5. CASE n = v + 2 /\ a = 6 * v + 5 /\ m # 0
    <3>1. 6 * n <= e
      BY <1>1, <1>7, <2>5
    <3>2. 6 * n - 7 = a /\ 6 * n - 6 # e /\ 6 * n - 6 > a
      BY <2>5, <3>1
    <3>3. 6 * n - 7 \in D /\ 6 * n - 6 \notin D
      BY <1>2, <1>3, <2>2, <3>2
    <3>. QED BY <1>7, <2>5, <3>3 DEF Uncut, D
  <2>. QED BY <2>3, <2>4, <2>5
<1>8. CASE n > u + m - 1
  <2>1. ~(n <= u + m - 1) /\ ~(n <= v)
    BY <1>4, <1>8
  <2>. QED BY <2>1
<1>. QED BY <1>5, <1>6, <1>7, <1>8

\* The pieces of a read are handled if they are whole packets.
LEMMA ClientReadsInv ==
    ASSUME IInv, NEW k \in 1..Len(stream), ClientReads(k)
    PROVE  IInv'
<1>. DEFINE p == Position
<1>1. /\ reader = "client" /\ open /\ remainder = <<>> /\ Read(k)
      /\ reader' = "client" /\ open' /\ remainder' = <<>>
      /\ cuts' = cuts \cup {p + k}
      /\ cuts \subseteq 1..p
      /\ p = 0 \/ p \in cuts
      /\ Lists(taken, {n \in 1..(p \div 6) : InOnePiece(n)})
  BY DEF ClientReads, IInv, ClientInv, Read
<1>2. /\ p \in Nat /\ p + k <= Total /\ Position' = p + k
      /\ SubSeq(stream, 1, k) = Bytes(p, p + k)
      /\ StreamInv' /\ stream' \in Seq(Symbols)
  BY <1>1, ReadBytes
<1>. HIDE DEF p
<1>3. PICK a \in Nat : a = p
  BY <1>2
<1>4. PICK e \in Nat : e = p + k
  BY <1>2
<1>5. PICK v \in Nat, r \in 0..5 : a = 6 * v + r /\ a \div 6 = v
  BY DivisionExists
<1>6. PICK u \in Nat : u = IF a = 6 * v + 5 THEN v + 2 ELSE v + 1
  OBVIOUS
<1>7. /\ a < e /\ e <= Total
      /\ 6 * u - 7 <= a /\ a <= 6 * u - 2
      /\ 6 * v <= a /\ a < 6 * v + 6 /\ v <= u - 1
      /\ a = 6 * u - 6 <=> a = 6 * v
  BY <1>2, <1>3, <1>4, <1>5, <1>6
<1>8. PICK m \in Nat : Piece(a, e, u, m) /\ e \div 6 = u + m - 1
  BY <1>7, PieceExists
<1>9. PICK cut \in Nat : cut = IF m = 0 \/ a = 6 * v THEN 0 ELSE 1
  OBVIOUS
<1>. DEFINE segments == Segments(a, e, u, m)
            f == Front(segments)
            n == [i \in 1..m - cut |-> u - 1 + cut + i]
<1>10. Split(SubSeq(stream, 1, k)) = segments
  BY <1>2, <1>3, <1>4, <1>8, SplitInto
<1>11. Texts(f, m, u - 1, cut)
  <2>1. /\ DOMAIN f = 1..m
        /\ \A i \in 1..m : f[i] = segments[i]
    BY <1>8, SegmentsFront
  <2>2. ASSUME NEW i \in 1..cut PROVE Parse(f[i]) = {}
    <3>1. m # 0 /\ a # 6 * u - 6 /\ i = 1
      BY <1>7, <1>9
    <3>2. Parse(segments[1]) = {}
      BY <1>8, <3>1, CutSegment
    <3>. QED BY <2>1, <3>1, <3>2
  <2>3. ASSUME NEW i \in cut + 1..m PROVE Parse(f[i]) = {u - 1 + i}
    <3>1. i \in 1..m /\ (i # 1 \/ a = 6 * u - 6)
      BY <1>7, <1>9
    <3>2. segments[i] = Text(u + i - 1)
      <4>1. Piece(a, e, u, m)
        BY <1>8
      <4>. HIDE DEF f, n
      <4>. QED BY <4>1, <3>1, WholeSegment
    <3>3. u + i - 1 = u - 1 + i /\ u + i - 1 \in 1..MaxPackets
      BY <1>7, <1>8, <3>1, FramingAssumption DEF Piece, Total
    <3>. QED BY <2>1, <3>1, <3>2, <3>3, TextBytes
  <2>4. cut <= m
    BY <1>9
  <2>. QED BY <2>1, <2>2, <2>3, <2>4 DEF Texts
<1>. HIDE DEF f, segments
<1>12. taken' = taken \o n
  <2>1. taken' = taken \o Parsed(f, DOMAIN f)
    BY <1>10 DEF ClientReads, f
  <2>2. u - 1 \in Int
    OBVIOUS
  <2>3. Parsed(f, DOMAIN f) = n
    BY <1>11, <2>2, ParsedTexts
  <2>. QED BY <2>1, <2>3
<1>13. Lists(n, u + cut..u + m - 1)
  <2>1. PICK b \in Nat : b = u - 1 + cut
    <3>1. u - 1 + cut \in Nat
      BY <1>6
    <3>. QED BY <3>1
  <2>2. PICK l \in Nat : l = m - cut
    <3>1. m - cut \in Nat
      BY <1>9
    <3>. QED BY <3>1
  <2>3. Lists([i \in 1..l |-> b + i], b + 1..b + l)
    BY ListsInterval
  <2>4. b + 1 = u + cut /\ b + l = u + m - 1
    BY <2>1, <2>2
  <2>. QED BY <2>1, <2>2, <2>3, <2>4
<1>. HIDE DEF n
<1>. DEFINE I == {i \in 1..v : InOnePiece(i)}
            J == u + cut..u + m - 1
            K == {i \in 1..(e \div 6) : InOnePiece(i)'}
<1>14. \A i : i \in K <=> i \in I \/ i \in J
  <2>1. ASSUME NEW i \in Nat, i # 0
        PROVE  (i <= u + m - 1 /\ InOnePiece(i)') <=> (i \in I \/ i \in J)
    <3>1. /\ InOnePiece(i) <=> Uncut(i, cuts)
          /\ InOnePiece(i)' <=> Uncut(i, cuts \cup {e})
      BY <1>1, <1>4, UncutIsInOnePiece
    <3>2. Ended(cuts, a) /\ Begins(a, u, m, v, cut)
      BY <1>1, <1>3, <1>6, <1>7, <1>9 DEF Ended, Begins
    <3>3. (i <= u + m - 1 /\ Uncut(i, cuts \cup {e}))
              <=> \/ i <= v /\ Uncut(i, cuts)
                  \/ u + cut <= i /\ i <= u + m - 1
      BY <1>8, <2>1, <3>2, UncutAfterRead
    <3>4. i \in I <=> i <= v /\ Uncut(i, cuts)
      BY <2>1, <3>1
    <3>5. i \in J <=> u + cut <= i /\ i <= u + m - 1
      OBVIOUS
    <3>. QED BY <3>1, <3>3, <3>4, <3>5
  <2>2. \A i : i \in I \/ i \in J \/ i \in K => i \in Nat /\ i # 0
    BY <1>6, <1>8
  <2>3. \A i \in Nat : i # 0 => (i \in K <=> i <= u + m - 1 /\ InOnePiece(i)')
    BY <1>8
  <2>. QED BY <2>1, <2>2, <2>3
<1>15. Lists(taken', K)
  <2>1. /\ I \subseteq Nat /\ J \subseteq Nat
        /\ \A x \in I, y \in J : x < y
    BY <1>7
  <2>2. Lists(taken, I) /\ Lists(n, J)
    BY <1>1, <1>3, <1>5, <1>13
  <2>. HIDE DEF I, J, K
  <2>. QED BY <1>12, <1>14, <2>1, <2>2, ListsConcat
<1>16. ClientInv'
  <2>1. cuts' \subseteq 1..Position' /\ Position' \in cuts'
    BY <1>1, <1>2
  <2>2. Position' = e
    BY <1>2, <1>4
  <2>3. {i \in 1..(e \div 6) : InOnePiece(i)'} = K
    OBVIOUS
  <2>. HIDE DEF K
  <2>. QED BY <1>1, <1>15, <2>1, <2>2, <2>3 DEF ClientInv
<1>17. ServerInv'
  BY <1>1 DEF ServerInv
<1>18. TypeOK'
  <2>1. K \subseteq 1..MaxPackets
    BY <1>7, <1>8, FramingAssumption DEF Piece, Total
  <2>2. taken' \in Seq(1..MaxPackets)
    <3>. HIDE DEF K
    <3>1. taken' \in Seq(K)
      BY <1>15 DEF Lists
    <3>. QED BY <2>1, <3>1, SeqMonotonic
  <2>3. cuts' \subseteq 1..6 * MaxPackets
    BY <1>1, <1>2, FramingAssumption DEF Total
  <2>. QED BY <1>1, <1>2, <2>2, <2>3, EmptySeq DEF TypeOK, Symbols, PacketLength
<1>. QED BY <1>2, <1>16, <1>17, <1>18 DEF IInv

LEMMA NextInv == IInv /\ [Next]_vars => IInv'
<1>. SUFFICES ASSUME IInv, [Next]_vars PROVE IInv'
  OBVIOUS
<1>1. CASE Next
  BY <1>1, ServerReadsInv, ClientReadsInv DEF Next
<1>2. CASE UNCHANGED vars
  <2>. USE <1>2 DEF vars
  <2>1. Position' = Position
    BY DEF Position
  <2>2. TypeOK' /\ StreamInv' /\ ServerInv'
    BY <2>1 DEF IInv, TypeOK, StreamInv, ServerInv
  <2>3. ClientInv'
    BY <2>1 DEF IInv, ClientInv, InOnePiece
  <2>. QED BY <2>2, <2>3 DEF IInv
<1>. QED BY <1>1, <1>2

\* In every reachable state the reader has handled exactly what it should have,
\* and the server's remainder is what was read of the next packet.
THEOREM Invariance == Spec => []IInv
BY InitInv, NextInv, PTL DEF Spec

\* What is handled are packets, and what is kept are bytes.
THEOREM TypeCorrect == Spec => []TypeOK
<1>1. IInv => TypeOK
  BY DEF IInv
<1>. QED BY <1>1, Invariance, PTL

\* However many packets are sent and wherever the stream is cut, the server
\* handles each of them once and in order, keeps what it has read beyond them,
\* and never raises (server.py:208-221).
THEOREM ServerHandlesAll == Spec => []ServerAccounts
<1>1. IInv => ServerAccounts
  <2>. SUFFICES ASSUME IInv, reader = "server" PROVE ServerAccounts
    BY DEF ServerAccounts
  <2>1. /\ open /\ taken = [i \in 1..Len(taken) |-> i]
        /\ 6 * Len(taken) <= Position /\ Position < 6 * Len(taken) + 6
        /\ remainder = Bytes(6 * Len(taken), Position)
        /\ Position \in Nat /\ Position <= Total /\ Len(taken) \in Nat
    BY WrittenBytes, LenProperties DEF IInv, TypeOK, StreamInv, ServerInv
  <2>2. Len(remainder) = Position - 6 * Len(taken)
    <3>1. PICK a \in Nat : a = 6 * Len(taken)
      BY <2>1
    <3>2. PICK b \in Nat : b = Position
      BY <2>1
    <3>. QED BY <2>1, <3>1, <3>2, PieceBytes
  <2>3. \A i \in 1..Len(taken) : taken[i] = i
    BY <2>1
  <2>. QED BY <2>1, <2>2, <2>3 DEF ServerAccounts, PacketLength
<1>. QED BY <1>1, Invariance, PTL

\* Once the server has read all that was written, it has handled every packet:
\* what ServerGetsAll promises cannot fail but by the server not reading on.
THEOREM NothingLost ==
    Spec => [](reader = "server" /\ stream = <<>> => taken = [n \in 1..MaxPackets |-> n])
<1>1. ASSUME IInv, reader = "server", stream = <<>>
      PROVE  taken = [n \in 1..MaxPackets |-> n]
  <2>0. taken = [i \in 1..Len(taken) |-> i] /\ Len(taken) \in Nat
    BY <1>1, LenProperties DEF IInv, TypeOK, ServerInv
  <2>1. 6 * Len(taken) <= Position /\ Position < 6 * Len(taken) + 6
    BY <1>1 DEF IInv, ServerInv
  <2>2. Position = 6 * MaxPackets /\ MaxPackets \in Nat
    BY <1>1, FramingAssumption DEF Position, PacketLength
  <2>3. Len(taken) = MaxPackets
    <3>1. PICK q \in Nat : q = Len(taken)
      BY <2>0
    <3>. QED BY <2>1, <2>2, <3>1
  <2>. QED BY <2>0, <2>3
<1>2. IInv => (reader = "server" /\ stream = <<>> => taken = [n \in 1..MaxPackets |-> n])
  BY <1>1
<1>. QED BY <1>2, Invariance, PTL

\* However many packets are sent and wherever the stream is cut, a client
\* handles exactly the packets that one of its reads returns as a whole, but for
\* those behind a delimiter that was cut in two (Signaling.cpp:113-119, 130).
THEOREM ClientHandlesWhole == Spec => []ClientKeepsWhole
<1>1. IInv => ClientKeepsWhole
  <2>. SUFFICES ASSUME IInv, reader = "client" PROVE ClientKeepsWhole
    BY DEF ClientKeepsWhole
  <2>. DEFINE I == {n \in 1..(Position \div 6) : InOnePiece(n)}
  <2>1. Lists(taken, I)
    BY DEF IInv, ClientInv
  <2>2. I \subseteq Nat
    OBVIOUS
  <2>. HIDE DEF I
  <2>3. Ascending(I) = taken
    BY <2>1, <2>2, AscendingLists
  <2>. QED BY <2>3 DEF ClientKeepsWhole, PacketLength, I
<1>. QED BY <1>1, Invariance, PTL

=============================================================================
