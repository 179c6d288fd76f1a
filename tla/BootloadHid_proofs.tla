------------------------ MODULE BootloadHid_proofs ------------------------
(***************************************************************************)
(* Proofs about BootloadHid, for every geometry of pages and blocks that   *)
(* GeometryAssumption allows and every set of files: multiples and pages,  *)
(* what parseIntelHex() makes of a file, the inductive invariant of the    *)
(* firmware and the uploader, and what follows from it; then what the      *)
(* status of a block and the exit status of the uploader promise.          *)
(***************************************************************************)
EXTENDS BootloadHid, SequenceTheorems, FiniteSetTheorems, WellFoundedInduction, TLAPS

(* Multiples, for every size of pages and blocks. *)

LEMMA Remainder ==
    ASSUME NEW n \in Nat \ {0}, NEW a \in Int
    PROVE  /\ a % n \in 0 .. (n - 1)
           /\ a \div n \in Int /\ a = n * (a \div n) + (a % n)
OBVIOUS

LEMMA RemainderOfMultiple ==
    ASSUME NEW n \in Nat \ {0}, NEW q \in Int, NEW r \in 0 .. (n - 1)
    PROVE  (n * q + r) % n = r
OBVIOUS

LEMMA Multiple ==
    ASSUME NEW n \in Nat \ {0}, NEW a \in Int, a % n = 0
    PROVE  \E q \in Int : a = n * q
<1>1. a = n * (a \div n) + (a % n) /\ a \div n \in Int
  BY Remainder
<1>2. n * (a \div n) \in Int
  BY <1>1
<1>3. a = n * (a \div n)
  BY <1>1, <1>2
<1>4. QED
  BY <1>1, <1>3

LEMMA MultipleConverse ==
    ASSUME NEW n \in Nat \ {0}, NEW q \in Int
    PROVE  n * q \in Int /\ (n * q) % n = 0
<1>1. n * q \in Int /\ 0 \in 0 .. (n - 1)
  OBVIOUS
<1>2. (n * q + 0) % n = 0
  BY <1>1, RemainderOfMultiple
<1>3. QED
  BY <1>1, <1>2

LEMMA SumOfMultiples ==
    ASSUME NEW n \in Nat \ {0}, NEW a \in Int, NEW b \in Int, a % n = 0, b % n = 0
    PROVE  (a + b) % n = 0 /\ (a - b) % n = 0
<1>1. PICK q \in Int : a = n * q
  BY Multiple
<1>2. PICK r \in Int : b = n * r
  BY Multiple
<1>3. a + b = n * (q + r) /\ a - b = n * (q - r) /\ q + r \in Int /\ q - r \in Int
  BY <1>1, <1>2
<1>4. (n * (q + r)) % n = 0 /\ (n * (q - r)) % n = 0
  BY <1>3, MultipleConverse
<1>5. QED
  BY <1>3, <1>4

LEMMA MultipleOfMultiple ==
    ASSUME NEW n \in Nat \ {0}, NEW m \in Nat \ {0}, NEW a \in Int, m % n = 0, a % m = 0
    PROVE  a % n = 0
<1>1. PICK q \in Int : m = n * q
  BY Multiple
<1>2. PICK r \in Int : a = m * r
  BY Multiple
<1>3. a = n * (q * r) /\ q * r \in Int
  BY <1>1, <1>2
<1>4. QED
  BY <1>3, MultipleConverse

LEMMA SelfMultiple ==
    ASSUME NEW n \in Nat \ {0}
    PROVE  n % n = 0 /\ 0 % n = 0
<1>1. n = n * 1 /\ 0 = n * 0
  OBVIOUS
<1>2. QED
  BY <1>1, MultipleConverse

LEMMA Down ==
    ASSUME NEW n \in Nat \ {0}, NEW a \in Int
    PROVE  /\ RoundDown(a, n) \in Int /\ RoundDown(a, n) % n = 0
           /\ RoundDown(a, n) <= a /\ a < RoundDown(a, n) + n
           /\ a % n = a - RoundDown(a, n)
<1>1. (a - (a % n)) % n = 0
  OBVIOUS
<1>2. QED
  BY <1>1, Remainder DEF RoundDown

LEMMA DownIs ==
    ASSUME NEW n \in Nat \ {0}, NEW a \in Int, NEW m \in Int, m % n = 0, m <= a, a < m + n
    PROVE  RoundDown(a, n) = m /\ a % n = a - m
<1>1. PICK q \in Int : m = n * q
  BY Multiple
<1>2. a - m \in 0 .. (n - 1) /\ a = n * q + (a - m)
  BY <1>1
<1>3. a % n = a - m
  BY <1>2, RemainderOfMultiple
<1>4. QED
  BY <1>3 DEF RoundDown

(* A multiple of n and the piece of n a lies in. *)
LEMMA NextMultiple ==
    ASSUME NEW n \in Nat \ {0}, NEW m \in Int, NEW k \in Int, m % n = 0, k % n = 0, m < k
    PROVE  m + n <= k
<1>1. PICK q \in Int : m = n * q
  BY Multiple
<1>2. PICK r \in Int : k = n * r
  BY Multiple
<1>3. q < r
  BY <1>1, <1>2
<1>4. q + 1 <= r
  BY <1>3
<1>5. n * (q + 1) <= n * r
  BY <1>4
<1>6. QED
  BY <1>1, <1>2, <1>5

LEMMA DownBetween ==
    ASSUME NEW n \in Nat \ {0}, NEW a \in Int, NEW m \in Int, m % n = 0
    PROVE  /\ m <= a => m <= RoundDown(a, n)
           /\ a < m => RoundDown(a, n) + n <= m
<1>1. /\ RoundDown(a, n) \in Int /\ RoundDown(a, n) % n = 0
      /\ RoundDown(a, n) <= a /\ a < RoundDown(a, n) + n
  BY Down
<1>2. RoundDown(a, n) < m => RoundDown(a, n) + n <= m
  BY <1>1, NextMultiple
<1>3. QED
  BY <1>1, <1>2

-----------------------------------------------------------------------------
(* The geometry of pages and blocks. *)

LEMMA Geometry ==
    ASSUME bench \in Bench
    PROVE  /\ PageWords \in Nat \ {0} /\ BlockWords \in Nat \ {0} /\ Unit \in Nat \ {0}
           /\ FlashWords \in Nat /\ BootStart \in 0 .. FlashWords /\ BootStart % PageWords = 0
           /\ FlashWords % PageWords = 0
           /\ FlashWords - Reserve \in 0 .. FlashWords /\ (FlashWords - Reserve) % Unit = 0
           /\ Unit % PageWords = 0 /\ Unit % BlockWords = 0
           /\ BufferWords \in Nat /\ FlashWords <= BufferWords
<1> DEFINE P == PageWords
<1>1. /\ P \in Nat \ {0} /\ BlockWords \in Nat \ {0}
      /\ BlockWords % P = 0 \/ P % BlockWords = 0
      /\ BootStart % P = 0 /\ FlashWords % P = 0 /\ (FlashWords - Reserve) % P = 0
  BY GeometryAssumption DEF PageWords
<1>2. /\ FlashWords \in Nat /\ BootStart \in 0 .. FlashWords
      /\ FlashWords - Reserve \in 0 .. FlashWords /\ (FlashWords - Reserve) % BlockWords = 0
      /\ BufferWords \in Nat /\ FlashWords <= BufferWords
  BY GeometryAssumption
<1>3. P % P = 0 /\ BlockWords % BlockWords = 0 /\ 0 % P = 0 /\ 0 % BlockWords = 0
  BY <1>1, SelfMultiple
<1> HIDE DEF P
<1>4. CASE P < BlockWords
  <2>1. P % BlockWords = P
    <3>1. P \in Int /\ 0 <= P /\ P < 0 + BlockWords
      BY <1>1, <1>4
    <3>2. P % BlockWords = P - 0
      BY <3>1, <1>1, <1>3, DownIs
    <3>3. QED
      BY <3>2, <1>1
  <2>2. Unit = BlockWords
    BY <1>4 DEF Unit, P
  <2>3. QED
    BY <2>1, <2>2, <1>1, <1>2, <1>3 DEF P
<1>5. CASE ~ (P < BlockWords)
  <2>1. Unit = P
    BY <1>5 DEF Unit, P
  <2>2. P % BlockWords = 0
    <3>1. CASE P = BlockWords
      BY <3>1, <1>3
    <3>2. CASE P # BlockWords
      <4>1. BlockWords \in Int /\ 0 <= BlockWords /\ BlockWords < 0 + P
        BY <1>1, <1>5, <3>2
      <4>2. BlockWords % P = BlockWords - 0
        BY <4>1, <1>1, <1>3, DownIs
      <4>3. QED
        BY <4>2, <1>1
    <3>3. QED
      BY <3>1, <3>2
  <2>3. QED
    BY <2>1, <2>2, <1>1, <1>2, <1>3 DEF P
<1>6. QED
  BY <1>4, <1>5

(* The page of a word. *)
LEMMA Page ==
    ASSUME bench \in Bench, NEW a \in Int
    PROVE  /\ a \in PageOf(a)
           /\ \A w \in PageOf(a) : w \in Int /\ PageOf(w) = PageOf(a)
           /\ \A w \in PageOf(a) : Writable(w) <=> Writable(a)
           /\ OwnPage(a) = IF Writable(a) THEN PageOf(a) ELSE {}
<1> DEFINE d == RoundDown(a, PageWords)
<1>1. PageWords \in Nat \ {0} /\ BootStart \in Int /\ BootStart % PageWords = 0
  BY Geometry
<1>2. d \in Int /\ d % PageWords = 0 /\ d <= a /\ a < d + PageWords
  BY <1>1, Down
<1>3. BootStart <= a => BootStart <= d
  BY <1>1, DownBetween
<1>4. a < BootStart => d + PageWords <= BootStart
  BY <1>1, DownBetween
<1>5. PageOf(a) = d .. (d + PageWords - 1)
  BY DEF PageOf
<1> HIDE DEF d
<1>6. ASSUME NEW w \in PageOf(a) PROVE w \in Int /\ PageOf(w) = PageOf(a) /\ (Writable(w) <=> Writable(a))
  <2>1. w \in Int /\ d <= w /\ w < d + PageWords
    BY <1>1, <1>2, <1>5, <1>6
  <2>2. RoundDown(w, PageWords) = d
    BY <2>1, <1>1, <1>2, DownIs
  <2>3. PageOf(w) = PageOf(a)
    BY <2>2, <1>5 DEF PageOf
  <2>4. Writable(w) <=> Writable(a)
    BY <2>1, <1>1, <1>2, <1>3, <1>4 DEF Writable
  <2>5. QED
    BY <2>1, <2>3, <2>4
<1>7. a \in PageOf(a)
  BY <1>1, <1>2, <1>5
<1>8. OwnPage(a) = IF Writable(a) THEN PageOf(a) ELSE {}
  BY <1>6 DEF OwnPage
<1>9. QED
  BY <1>6, <1>7, <1>8

(* The word behind a is the first of a page or in the page of a. *)
LEMMA NextInPage ==
    ASSUME bench \in Bench, NEW a \in Int
    PROVE  /\ (a + 1) % PageWords = 0 => PageOf(a) = ((a + 1) - PageWords) .. a
           /\ (a + 1) % PageWords # 0 =>
                 /\ PageOf(a + 1) = PageOf(a)
                 /\ RoundDown(a + 1, PageWords) = RoundDown(a, PageWords)
                 /\ (a + 1) % PageWords = (a % PageWords) + 1
<1> DEFINE d == RoundDown(a, PageWords)
<1>1. PageWords \in Nat \ {0} /\ PageWords % PageWords = 0
  BY Geometry, SelfMultiple
<1>2. d \in Int /\ d % PageWords = 0 /\ d <= a /\ a < d + PageWords /\ a % PageWords = a - d
  BY <1>1, Down
<1>3. (d + PageWords) % PageWords = 0
  BY <1>1, <1>2, SumOfMultiples
<1>4. PageOf(a) = d .. (d + PageWords - 1)
  BY DEF PageOf
<1> HIDE DEF d
<1>5. CASE a + 1 = d + PageWords
  BY <1>1, <1>2, <1>3, <1>4, <1>5
<1>6. CASE a + 1 # d + PageWords
  <2>1. a + 1 \in Int /\ d <= a + 1 /\ a + 1 < d + PageWords
    BY <1>1, <1>2, <1>6
  <2>2. RoundDown(a + 1, PageWords) = d /\ (a + 1) % PageWords = (a + 1) - d
    BY <2>1, <1>1, <1>2, DownIs
  <2>3. PageOf(a + 1) = PageOf(a)
    BY <2>2, <1>4 DEF PageOf
  <2>4. (a + 1) % PageWords # 0 /\ (a + 1) % PageWords = (a % PageWords) + 1
    BY <2>2, <1>2
  <2>5. QED
    BY <2>2, <2>3, <2>4 DEF d
<1>7. QED
  BY <1>5, <1>6

(* The least of a set of numbers; minimal sets 1..i stand for minimal numbers. *)
LEMMA Least ==
    ASSUME NEW T, T \subseteq Nat, T # {}
    PROVE  \E i \in T : \A j \in T : i <= j
<1> DEFINE U == {1..i : i \in T}
<1>1. U \subseteq FiniteSubsetsOf(Nat) /\ U # {}
  <2>1. ASSUME NEW i \in T PROVE 1..i \in FiniteSubsetsOf(Nat)
    <3>1. i \in Nat /\ 1 \in Int /\ i \in Int
      OBVIOUS
    <3>2. IsFiniteSet(1..i)
      BY <3>1, FS_Interval, Zenon
    <3>3. 1..i \in SUBSET Nat
      BY <3>1
    <3>4. QED
      BY <3>2, <3>3, Zenon DEF FiniteSubsetsOf
  <2>2. QED
    BY <2>1
<1>2. PICK x \in U : \A y \in U : <<y, x>> \notin StrictSubsetOrdering(Nat)
  <2> HIDE DEF U
  <2>1. IsWellFoundedOn(StrictSubsetOrdering(Nat), FiniteSubsetsOf(Nat))
    BY FS_StrictSubsetOrderingWellFounded, Zenon
  <2>2. QED
    BY <1>1, <2>1, WFMin, Zenon
<1>3. PICK i \in T : x = 1..i
  OBVIOUS
<1>4. ASSUME NEW j \in T, j < i PROVE FALSE
  <2>1. 1..j \in SUBSET Nat /\ 1..i \in SUBSET Nat /\ 1..j \subseteq 1..i /\ 1..j # 1..i
    <3>1. i \in 1..i /\ i \notin 1..j
      BY <1>4
    <3>2. QED
      BY <3>1, <1>4
  <2>2. <<1..j, 1..i>> \in StrictSubsetOrdering(Nat)
    BY <2>1 DEF StrictSubsetOrdering
  <2>3. QED
    BY <1>2, <1>3, <2>2
<1>5. QED
  BY <1>4

(* Counting up from zero. *)
LEMMA Counting ==
    ASSUME NEW N \in Nat, NEW T, 0 \in T, \A n \in 0 .. (N - 1) : n \in T => n + 1 \in T
    PROVE  0 .. N \subseteq T
<1> DEFINE U == {n \in 0 .. N : n \notin T}
<1>1. SUFFICES ASSUME U # {} PROVE FALSE
  OBVIOUS
<1>2. PICK m \in U : \A n \in U : m <= n
  <2>1. U \subseteq Nat
    OBVIOUS
  <2> HIDE DEF U
  <2>2. QED
    BY <1>1, <2>1, Least, Zenon
<1>3. m \in 1 .. N /\ m \notin T
  <2>1. m \in 0 .. N /\ m \notin T
    OBVIOUS
  <2>2. QED
    BY <2>1
<1>4. m - 1 \in 0 .. (N - 1) /\ m - 1 \notin U /\ (m - 1) + 1 = m
  BY <1>2, <1>3
<1>5. m - 1 \in T
  BY <1>4
<1>6. QED
  BY <1>3, <1>4, <1>5

(* What is defined by recursion over 0 .. N exists. *)
DefinedUpTo(S, base, N, step) ==
    \E g \in [0 .. N -> S] : g[0] = base /\ \A n \in 1 .. N : g[n] = step[n][g[n - 1]]

LEMMA Recursion ==
    ASSUME NEW S, NEW base \in S, NEW N \in Nat, NEW step \in [1 .. N -> [S -> S]]
    PROVE  DefinedUpTo(S, base, N, step)
<1> DEFINE Upto(m) == {g \in [0 .. m -> S] :
                         g[0] = base /\ \A n \in 1 .. m : g[n] = step[n][g[n - 1]]}
           T == {m \in 0 .. N : Upto(m) # {}}
<1>1. 0 \in T
  <2>1. [n \in 0 .. 0 |-> base] \in Upto(0)
    OBVIOUS
  <2>2. QED
    BY <2>1
<1>2. ASSUME NEW n \in 0 .. (N - 1), n \in T PROVE n + 1 \in T
  <2>1. PICK g \in [0 .. n -> S] : g[0] = base /\ \A k \in 1 .. n : g[k] = step[k][g[k - 1]]
    BY <1>2
  <2> DEFINE h == [k \in 0 .. n + 1 |-> IF k = n + 1 THEN step[n + 1][g[n]] ELSE g[k]]
  <2>2. n \in 0 .. n /\ n + 1 \in 1 .. N
    OBVIOUS
  <2>3. step[n + 1][g[n]] \in S
    <3>1. g[n] \in S
      BY <2>2
    <3>2. step[n + 1] \in [S -> S]
      BY <2>2
    <3>3. QED
      BY <3>1, <3>2
  <2>4. h \in [0 .. n + 1 -> S]
    <3>1. ASSUME NEW k \in 0 .. n + 1 PROVE (IF k = n + 1 THEN step[n + 1][g[n]] ELSE g[k]) \in S
      <4>1. k # n + 1 => k \in 0 .. n
        OBVIOUS
      <4>2. QED
        BY <2>3, <4>1
    <3>2. QED
      BY <3>1
  <2>5. h[0] = base /\ \A k \in 1 .. n : h[k] = g[k] /\ h[k - 1] = g[k - 1]
    BY <2>1
  <2>6. h[n + 1] = step[n + 1][h[n]]
    <3>1. n + 1 \in 0 .. n + 1 /\ n \in 0 .. n + 1 /\ n # n + 1
      OBVIOUS
    <3>2. h[n] = g[n] /\ h[n + 1] = step[n + 1][g[n]]
      BY <3>1
    <3>3. QED
      BY <3>2, Zenon
  <2> HIDE DEF h
  <2>7. ASSUME NEW k \in 1 .. n + 1 PROVE h[k] = step[k][h[k - 1]]
    <3>1. CASE k = n + 1
      <4>1. k - 1 = n
        BY <3>1
      <4>2. QED
        BY <3>1, <4>1, <2>6
    <3>2. CASE k # n + 1
      <4>1. k \in 1 .. n
        BY <3>2
      <4>2. QED
        BY <4>1, <2>1, <2>5, Zenon
    <3>3. QED
      BY <3>1, <3>2
  <2>8. h \in Upto(n + 1)
    BY <2>4, <2>5, <2>7
  <2>9. QED
    BY <2>2, <2>8, SMTT(60)
<1>3. 0 .. N \subseteq T
  <2> HIDE DEF T
  <2>1. QED
    BY <1>1, <1>2, Counting
<1>4. N \in 0 .. N
  OBVIOUS
<1>5. QED
  BY <1>3, <1>4 DEF DefinedUpTo

-----------------------------------------------------------------------------
(* What the uploader makes of a file. *)

FileRecord == [base : 0 .. BufferWords, type : 0 .. 255, data : Seq(Value \ {Garbled})]
Parse == [image : [0 .. (BufferWords - 1) -> Value], start : 0 .. BufferWords,
          end : 0 .. BufferWords]

LEMMA FileRecords ==
    ASSUME bench \in Bench, NEW f \in File
    PROVE  /\ f \in Seq(FileRecord) /\ BufferWords \in Nat /\ Erased \in Value
           /\ \A i \in 1 .. Len(f) : f[i] \in FileRecord /\ f[i].base + Len(f[i].data) <= BufferWords
<1>1. f \in Seq(FileRecord) /\ \A i \in DOMAIN f : f[i].base + Len(f[i].data) <= BufferWords
  BY DataAssumption, ZenonT(60) DEF File, FileRecord
<1>2. DOMAIN f = 1 .. Len(f) /\ \A i \in 1 .. Len(f) : f[i] \in FileRecord
  BY <1>1
<1>3. BufferWords \in Nat /\ Erased \in Value
  BY GeometryAssumption, DataAssumption
<1>4. QED
  BY <1>1, <1>2, <1>3

LEMMA WithRecordParse ==
    ASSUME NEW p \in Parse, NEW r \in FileRecord, BufferWords \in Nat,
           r.base + Len(r.data) <= BufferWords
    PROVE  /\ WithRecord(p, r) \in Parse
           /\ r.type # 0 => WithRecord(p, r) = p
           /\ r.type = 0 =>
                 /\ WithRecord(p, r).start <= p.start /\ WithRecord(p, r).start <= r.base
                 /\ WithRecord(p, r).end >= p.end /\ WithRecord(p, r).end >= r.base + Len(r.data)
                 /\ \A a \in 0 .. (BufferWords - 1) :
                       WithRecord(p, r).image[a] =
                           IF a \in Span(r) THEN r.data[(a - r.base) + 1] ELSE p.image[a]
<1> DEFINE img == [a \in 0 .. (BufferWords - 1) |->
                     IF a \in Span(r) THEN r.data[(a - r.base) + 1] ELSE p.image[a]]
<1>1. /\ r.base \in 0 .. BufferWords /\ r.data \in Seq(Value) /\ Len(r.data) \in Nat
      /\ p.image \in [0 .. (BufferWords - 1) -> Value]
      /\ p.start \in 0 .. BufferWords /\ p.end \in 0 .. BufferWords
  BY DEF FileRecord, Parse
<1>2. img \in [0 .. (BufferWords - 1) -> Value]
  <2>1. ASSUME NEW a \in 0 .. (BufferWords - 1), a \in Span(r) PROVE r.data[(a - r.base) + 1] \in Value
    <3>1. (a - r.base) + 1 \in 1 .. Len(r.data)
      BY <2>1, <1>1, SMTT(60) DEF Span
    <3>2. QED
      BY <3>1, <1>1, SMTT(60)
  <2>2. QED
    BY <2>1, <1>1
<1>3. CASE r.type # 0
  BY <1>3 DEF WithRecord
<1>4. CASE r.type = 0
  <2> DEFINE s == IF p.start > r.base THEN r.base ELSE p.start
             e == IF p.end < r.base + Len(r.data) THEN r.base + Len(r.data) ELSE p.end
  <2>1. WithRecord(p, r) = [image |-> img, start |-> s, end |-> e]
    BY <1>4 DEF WithRecord
  <2>2. s \in 0 .. BufferWords /\ s <= p.start /\ s <= r.base
    BY <1>1
  <2>3. e \in 0 .. BufferWords /\ e >= p.end /\ e >= r.base + Len(r.data)
    BY <1>1
  <2>4. \A a \in 0 .. (BufferWords - 1) :
           img[a] = IF a \in Span(r) THEN r.data[(a - r.base) + 1] ELSE p.image[a]
    OBVIOUS
  <2> HIDE DEF s, e, img
  <2>5. WithRecord(p, r) \in Parse
    BY <2>1, <2>2, <2>3, <1>2 DEF Parse
  <2>6. WithRecord(p, r).image = img /\ WithRecord(p, r).start = s /\ WithRecord(p, r).end = e
    BY <2>1
  <2>7. QED
    BY <2>2, <2>3, <2>4, <2>5, <2>6, <1>4
<1>5. QED
  BY <1>3, <1>4

LEMMA FreshParse ==
    ASSUME BufferWords \in Nat, Erased \in Value
    PROVE  Fresh \in Parse
BY DEF Fresh, Parse

LEMMA ParsedIs ==
    ASSUME bench \in Bench, NEW f \in File
    PROVE  /\ Parsed(f) \in [0 .. Len(f) -> Parse]
           /\ Parsed(f)[0] = Fresh
           /\ \A n \in 1 .. Len(f) : Parsed(f)[n] = WithRecord(Parsed(f)[n - 1], f[n])
<1> DEFINE N == Len(f)
           step == [n \in 1 .. N |-> [p \in Parse |-> WithRecord(p, f[n])]]
           Is(g) == g = [n \in 0 .. N |-> IF n = 0 THEN Fresh ELSE WithRecord(g[n - 1], f[n])]
<1>1. N \in Nat /\ BufferWords \in Nat /\ Fresh \in Parse
      /\ \A i \in 1 .. N : f[i] \in FileRecord /\ f[i].base + Len(f[i].data) <= BufferWords
  BY FileRecords, FreshParse
<1>2. step \in [1 .. N -> [Parse -> Parse]]
  <2>1. ASSUME NEW n \in 1 .. N, NEW p \in Parse PROVE WithRecord(p, f[n]) \in Parse
    BY <1>1, WithRecordParse
  <2>2. QED
    BY <2>1
<1>3. \A n \in 1 .. N, p \in Parse : step[n][p] = WithRecord(p, f[n])
  OBVIOUS
<1> HIDE DEF N, step
<1>4. PICK g \in [0 .. N -> Parse] :
         g[0] = Fresh /\ \A n \in 1 .. N : g[n] = step[n][g[n - 1]]
  <2>1. N \in Nat /\ Fresh \in Parse
    BY <1>1
  <2>2. DefinedUpTo(Parse, Fresh, N, step)
    BY <2>1, <1>2, Recursion, Zenon
  <2>3. QED
    BY <2>2 DEF DefinedUpTo
<1>5. Is(g)
  <2>1. ASSUME NEW n \in 0 .. N
        PROVE  g[n] = IF n = 0 THEN Fresh ELSE WithRecord(g[n - 1], f[n])
    <3>1. CASE n # 0
      <4>1. n \in 1 .. N /\ g[n - 1] \in Parse
        BY <3>1, <1>1
      <4>2. QED
        BY <3>1, <4>1, <1>3, <1>4
    <3>2. QED
      BY <3>1, <1>4
  <2>2. QED
    BY <2>1
<1>6. Parsed(f) = CHOOSE h : Is(h)
  BY DEF Parsed, N
<1>7. Is(Parsed(f))
  <2> HIDE DEF Is
  <2>1. QED
    BY <1>5, <1>6, Zenon
<1> DEFINE h == Parsed(f)
<1>8. h = [n \in 0 .. N |-> IF n = 0 THEN Fresh ELSE WithRecord(h[n - 1], f[n])]
  BY <1>7
<1> HIDE DEF h
<1>9. h[0] = Fresh /\ \A n \in 1 .. N : h[n] = WithRecord(h[n - 1], f[n])
  <2>1. \A n \in 0 .. N : h[n] = IF n = 0 THEN Fresh ELSE WithRecord(h[n - 1], f[n])
    BY <1>8
  <2>2. 0 \in 0 .. N /\ \A n \in 1 .. N : n \in 0 .. N /\ n # 0
    BY <1>1
  <2>3. QED
    BY <2>1, <2>2
<1> DEFINE T == {n \in 0 .. N : h[n] \in Parse}
<1>10. 0 \in T
  BY <1>1, <1>9
<1>11. ASSUME NEW n \in 0 .. (N - 1), n \in T PROVE n + 1 \in T
  <2>1. n + 1 \in 1 .. N /\ (n + 1) - 1 = n /\ h[n] \in Parse
    BY <1>1, <1>11
  <2>2. h[n + 1] = WithRecord(h[n], f[n + 1])
    BY <2>1, <1>9
  <2>3. h[n + 1] \in Parse
    BY <2>1, <2>2, <1>1, WithRecordParse
  <2>4. QED
    BY <2>1, <2>3
<1>12. \A n \in 0 .. N : h[n] \in Parse
  <2>1. 0 .. N \subseteq T
    <3> HIDE DEF T
    <3>1. QED
      BY <1>1, <1>10, <1>11, Counting
  <2>2. QED
    BY <2>1
<1>13. h \in [0 .. N -> Parse]
  BY <1>8, <1>12
<1>14. QED
  BY <1>9, <1>13 DEF h, N

LEMMA Addresses ==
    ASSUME bench \in Bench, NEW f \in File
    PROVE  /\ StartAddress(f) \in 0 .. BufferWords /\ EndAddress(f) \in 0 .. BufferWords
           /\ Image(f) \in [0 .. (BufferWords - 1) -> Value]
<1>1. Len(f) \in 0 .. Len(f)
  BY FileRecords
<1>2. Parsed(f)[Len(f)] \in Parse
  BY <1>1, ParsedIs
<1>3. QED
  BY <1>2 DEF StartAddress, EndAddress, Image, Parse

(* The upload's range takes in every record. *)
LEMMA RangeOfRecords ==
    ASSUME bench \in Bench, NEW f \in File, NEW r \in Records(f)
    PROVE  /\ r.base \in Nat /\ r.data \in Seq(Value)
           /\ StartAddress(f) <= r.base /\ EndAddress(f) >= r.base + Len(r.data)
<1> DEFINE h == Parsed(f)
           N == Len(f)
<1>1. /\ N \in Nat /\ BufferWords \in Nat /\ DOMAIN f = 1 .. N
      /\ \A i \in 1 .. N : f[i] \in FileRecord /\ f[i].base + Len(f[i].data) <= BufferWords
  BY FileRecords
<1>2. PICK i \in 1 .. N : f[i].type = 0 /\ r = f[i]
  BY <1>1 DEF Records
<1>3. /\ h \in [0 .. N -> Parse]
      /\ \A n \in 1 .. N : h[n] = WithRecord(h[n - 1], f[n])
  BY ParsedIs
<1>4. r \in FileRecord /\ r.base \in Nat /\ r.data \in Seq(Value) /\ r.base + Len(r.data) \in Nat
  BY <1>1, <1>2, SMTT(60) DEF FileRecord
<1>5. StartAddress(f) = h[N].start /\ EndAddress(f) = h[N].end
  BY DEF StartAddress, EndAddress
<1> HIDE DEF h, N
<1> DEFINE T == {n \in 0 .. N : n >= i => h[n].start <= r.base /\ h[n].end >= r.base + Len(r.data)}
<1>6. 0 \in T
  BY <1>1
<1>7. ASSUME NEW n \in 0 .. (N - 1), n \in T PROVE n + 1 \in T
  <2>1. n + 1 \in 1 .. N /\ (n + 1) - 1 = n /\ n \in 0 .. N
    BY <1>1
  <2>2. h[n + 1] = WithRecord(h[n], f[n + 1]) /\ h[n] \in Parse /\ h[n + 1] \in Parse
    BY <2>1, <1>3
  <2>3. f[n + 1] \in FileRecord /\ f[n + 1].base + Len(f[n + 1].data) <= BufferWords
    BY <2>1, <1>1
  <2>4. h[n + 1].start <= h[n].start /\ h[n + 1].end >= h[n].end
    <3>1. /\ f[n + 1].type # 0 => h[n + 1] = h[n]
          /\ f[n + 1].type = 0 => h[n + 1].start <= h[n].start /\ h[n + 1].end >= h[n].end
      BY <2>2, <2>3, <1>1, WithRecordParse
    <3>2. QED
      BY <3>1, <2>2 DEF Parse
  <2>5. n + 1 = i => h[n + 1].start <= r.base /\ h[n + 1].end >= r.base + Len(r.data)
    <3>1. f[n + 1].type = 0 => /\ h[n + 1].start <= f[n + 1].base
                               /\ h[n + 1].end >= f[n + 1].base + Len(f[n + 1].data)
      BY <2>2, <2>3, <1>1, WithRecordParse
    <3>2. QED
      BY <3>1, <1>2
  <2>6. /\ h[n].start \in Int /\ h[n].end \in Int
        /\ h[n + 1].start \in Int /\ h[n + 1].end \in Int
    BY <2>2 DEF Parse
  <2>7. n + 1 >= i => h[n + 1].start <= r.base /\ h[n + 1].end >= r.base + Len(r.data)
    <3>1. n >= i => h[n].start <= r.base /\ h[n].end >= r.base + Len(r.data)
      BY <1>7
    <3>2. n + 1 >= i => n >= i \/ n + 1 = i
      OBVIOUS
    <3>3. QED
      BY <3>1, <3>2, <2>4, <2>5, <2>6, <1>4, SMTT(60)
  <2>8. QED
    BY <2>1, <2>7
<1>8. N \in T
  <2>1. 0 .. N \subseteq T
    <3> HIDE DEF T
    <3>1. QED
      BY <1>1, <1>6, <1>7, Counting
  <2>2. N \in 0 .. N
    BY <1>1
  <2>3. QED
    BY <2>1, <2>2
<1>9. QED
  BY <1>4, <1>5, <1>8

(* The image holds what the last record to cover a word says. *)
LEMMA ImageIsFileWord ==
    ASSUME bench \in Bench, NEW f \in File, NEW a \in 0 .. (BufferWords - 1)
    PROVE  Image(f)[a] = FileWord(f, a)
<1> DEFINE h == Parsed(f)
           N == Len(f)
           At(n) == {i \in 1 .. n : f[i].type = 0 /\ a \in Span(f[i])}
           Word(i) == f[i].data[(a - f[i].base) + 1]
           T == {n \in 0 .. N :
                   \/ At(n) = {} /\ h[n].image[a] = Erased
                   \/ \E i \in At(n) : (\A j \in At(n) : j <= i) /\ h[n].image[a] = Word(i)}
<1>1. /\ N \in Nat /\ BufferWords \in Nat /\ DOMAIN f = 1 .. N
      /\ \A i \in 1 .. N : f[i] \in FileRecord /\ f[i].base + Len(f[i].data) <= BufferWords
  BY FileRecords
<1>2. /\ h \in [0 .. N -> Parse] /\ h[0] = Fresh
      /\ \A n \in 1 .. N : h[n] = WithRecord(h[n - 1], f[n])
  BY ParsedIs
<1>3. 0 \in T
  <2>1. At(0) = {}
    OBVIOUS
  <2>2. h[0].image[a] = Erased
    BY <1>2 DEF Fresh
  <2>3. QED
    BY <2>1, <2>2, <1>1
<1>4. ASSUME NEW n \in 0 .. (N - 1), n \in T PROVE n + 1 \in T
  <2> HIDE DEF h, N
  <2>1. n + 1 \in 1 .. N /\ (n + 1) - 1 = n /\ n \in 0 .. N /\ n \in Nat
    BY <1>1
  <2>2. h[n + 1] = WithRecord(h[n], f[n + 1]) /\ h[n] \in Parse
    BY <2>1, <1>2
  <2>3. f[n + 1] \in FileRecord /\ f[n + 1].base + Len(f[n + 1].data) <= BufferWords
    BY <2>1, <1>1
  <2>4. CASE f[n + 1].type = 0 /\ a \in Span(f[n + 1])
    <3>1. h[n + 1].image[a] = Word(n + 1)
      BY <2>2, <2>3, <2>4, <1>1, WithRecordParse
    <3>2. n + 1 \in At(n + 1) /\ \A j \in At(n + 1) : j <= n + 1
      BY <2>1, <2>4
    <3> HIDE DEF At, Word
    <3>3. \E i \in At(n + 1) : (\A j \in At(n + 1) : j <= i) /\ h[n + 1].image[a] = Word(i)
      BY <3>1, <3>2
    <3>4. QED
      BY <3>3, <2>1
  <2>5. CASE ~ (f[n + 1].type = 0 /\ a \in Span(f[n + 1]))
    <3>1. h[n + 1].image[a] = h[n].image[a]
      <4>1. CASE f[n + 1].type # 0
        BY <4>1, <2>2, <2>3, <1>1, WithRecordParse
      <4>2. CASE f[n + 1].type = 0
        BY <4>2, <2>2, <2>3, <2>5, <1>1, WithRecordParse
      <4>3. QED
        BY <4>1, <4>2
    <3>2. At(n + 1) = At(n)
      BY <2>1, <2>5
    <3> HIDE DEF At, Word
    <3>3. QED
      BY <3>1, <3>2, <2>1, <1>4
  <2>6. QED
    BY <2>4, <2>5
<1>5. N \in T
  <2>1. 0 .. N \subseteq T
    <3> HIDE DEF T
    <3>1. QED
      BY <1>1, <1>3, <1>4, Counting, ZenonT(60)
  <2>2. N \in 0 .. N
    BY <1>1
  <2>3. QED
    BY <2>1, <2>2
<1>6. Image(f)[a] = h[N].image[a]
  BY DEF Image
<1> DEFINE rec == {i \in DOMAIN f : f[i].type = 0 /\ a \in Span(f[i])}
           last == CHOOSE i \in rec : \A j \in rec : j <= i
<1>7. rec = At(N)
  BY <1>1
<1>8. FileWord(f, a) = IF rec = {} THEN Erased ELSE Word(last)
  BY SMTT(60) DEF FileWord
<1>9. CASE rec = {}
  BY <1>5, <1>6, <1>7, <1>8, <1>9
<1>10. CASE rec # {}
  <2>1. PICK i \in rec : (\A j \in rec : j <= i) /\ h[N].image[a] = Word(i)
    BY <1>5, <1>7, <1>10
  <2>2. last \in rec /\ \A j \in rec : j <= last
    <3> HIDE DEF rec
    <3>1. QED
      BY <2>1, Zenon
  <2>3. last \in Nat /\ i \in Nat /\ last <= i /\ i <= last
    <3>1. rec \subseteq Nat
      BY <1>1
    <3> HIDE DEF rec, last
    <3>2. QED
      BY <2>1, <2>2, <3>1
  <2> HIDE DEF last, rec, Word
  <2>4. last = i
    BY <2>3
  <2>5. QED
    BY <2>1, <2>4, <1>6, <1>8, <1>10
<1>11. QED
  BY <1>9, <1>10

-----------------------------------------------------------------------------
(* The inductive invariant. *)

Packet == [kind : {"none", "setPage", "setLeave", "getInfo", "data"},
           header : {NoHeader} \union (0 .. FlashWords), words : Seq(Value)]

TypeDevice ==
    /\ bench \in Bench
    /\ flash \in [Words -> Value]
    /\ buf \in [0 .. (PageWords - 1) -> Value \union {Unfilled}]
    /\ rx \in Packet
    /\ reply \in {"none", "info", "empty"}
    /\ currentAddress \in 0 .. FlashWords /\ offset \in 0 .. BlockWords
    /\ wr \in [address : 0 .. FlashWords, words : Seq(Value)]
    /\ pc \in InLoader \union {"app", "off"}

TypeHost ==
    /\ stage \in {"closed", "ask", "size", "block", "data", "status", "leave", "leaving"}
    /\ file \in File \union {NoFile}
    /\ startAddr \in 0 .. BufferWords /\ endAddr \in 0 .. BufferWords
    /\ sent \in 0 .. BlockWords /\ first \in 0 .. FlashWords

Booleans ==
    /\ rww \in BOOLEAN /\ userRW \in BOOLEAN /\ exitMainloop \in BOOLEAN
    /\ leave \in BOOLEAN /\ linked \in BOOLEAN /\ ok \in BOOLEAN /\ clean \in BOOLEAN

\* Uploads cover whole pages of the flash.
CoverInv == covered \subseteq Words /\ \A a \in covered : PageOf(a) \subseteq covered

TypeInv == TypeDevice /\ TypeHost /\ CoverInv

Sending == stage \in {"block", "data", "status"}
Waiting == rx.kind = "data"      \* a data packet is not finished with

Run(a, n) == a .. (a + n - 1)

\* Who is connected, and who works.
LinkInv ==
    /\ ~ linked => rx = None
    /\ linked => OnBus
    /\ pc \in InWrite => Waiting
    /\ Waiting => userRW /\ pc \in {"poll"} \union InWrite /\ reply # "info"
    /\ reply = "info" => pc = "poll"

\* The page of a, if a is not its first word, is erased.
Open(a) == a % PageWords # 0 => \A w \in OwnPage(a) : flash[w] = Erased

\* Where the packet in the buffer goes, while it is there.
Target == IF offset = 0 THEN rx.header ELSE currentAddress

PacketInv ==
    pc = "poll" /\ Waiting =>
        /\ rx.words # <<>>
        /\ offset = 0 <=> rx.header # NoHeader
        /\ offset + Len(rx.words) <= BlockWords
        /\ Run(Target, Len(rx.words)) \subseteq covered
        /\ Open(Target)

\* Where the next word to load goes, when that is settled.
WriteInv ==
    pc \in InWrite =>
        /\ Run(wr.address, Len(wr.words)) \subseteq covered
        /\ pc \in {"word", "erasing", "fill"} => wr.words # <<>>
        /\ pc = "end" => wr.words = <<>>
        /\ pc \in {"erasing", "fill", "write", "writing"} => wr.address % PageWords = 0
        /\ pc = "fill" => \A w \in OwnPage(wr.address) : flash[w] = Erased
        /\ pc \in {"write", "writing"} =>
              /\ wr.address - 1 \in covered
              /\ \A w \in OwnPage(wr.address - 1) : flash[w] = Erased
        /\ pc \in {"word", "end"} => Open(wr.address)

\* The uploader's loop.
LoopInv ==
    /\ stage \in {"ask", "size"} =>
        /\ file \in File
        /\ startAddr = StartAddress(file) /\ endAddr = EndAddress(file) /\ startAddr < endAddr
    /\ Sending =>
        /\ file \in File
        /\ startAddr % BlockWords = 0 /\ endAddr % BlockWords = 0 /\ endAddr % PageWords = 0
        /\ startAddr < endAddr /\ endAddr <= FlashWords - Reserve
        /\ startAddr .. (endAddr - 1) \subseteq covered
        /\ stage = "status" => sent = BlockWords
        /\ stage = "data" => sent < BlockWords

\* The report and what the device has of it.
ReportInv ==
    Sending /\ linked =>
        /\ pc \in {"poll"} \union InWrite
        /\ stage = "block" => rx = None /\ Open(startAddr)
        /\ stage \in {"data", "status"} =>
            \/ /\ stage = "data" /\ rx.kind = "setPage" /\ sent = 0
               /\ Open(startAddr)
            \/ /\ rx = None /\ userRW /\ reply # "info" /\ offset = sent
               /\ sent > 0 => currentAddress = startAddr + sent
               /\ Open(startAddr + sent)
            \/ /\ Waiting /\ sent > 0
               /\ pc = "poll" => /\ offset + Len(rx.words) = sent
                                 /\ Target + Len(rx.words) = startAddr + sent
               /\ pc # "poll" => /\ offset = sent
                                 /\ wr.address + Len(wr.words) = startAddr + sent

IInv == TypeInv /\ LinkInv /\ PacketInv /\ WriteInv /\ LoopInv /\ ReportInv

-----------------------------------------------------------------------------
(* The steps of the firmware. *)

USE DEF Waiting

(* The first word of a run that uploads have covered. *)
LEMMA RunCovered ==
    ASSUME IInv, NEW a \in Int, NEW n \in Nat, n > 0, Run(a, n) \subseteq covered
    PROVE  /\ a \in covered /\ a \in Words /\ a \in 0 .. FlashWords /\ a + 1 \in 0 .. FlashWords
           /\ Run(a + 1, n - 1) \subseteq covered
<1>1. FlashWords \in Nat /\ covered \subseteq Words
  BY Geometry DEF IInv, TypeInv, TypeDevice, CoverInv
<1>2. a \in Run(a, n) /\ Run(a + 1, n - 1) \subseteq Run(a, n)
  BY DEF Run
<1>3. a \in Words
  BY <1>1, <1>2
<1>4. a \in 0 .. FlashWords /\ a + 1 \in 0 .. FlashWords
  BY <1>1, <1>3 DEF Words
<1>5. QED
  BY <1>2, <1>3, <1>4

LEMMA Untouched ==
    ASSUME UNCHANGED <<bench, flash, rx, offset, currentAddress, wr, pc, covered>>,
           PacketInv, WriteInv
    PROVE  PacketInv' /\ WriteInv'
BY DEF PacketInv, WriteInv, Open, Run, Target, OwnPage, PageOf, RoundDown, PageWords, Writable

LEMMA InitOK == Init => IInv
<1> SUFFICES ASSUME Init PROVE IInv
  OBVIOUS
<1>1. /\ PageWords \in Nat \ {0} /\ BlockWords \in Nat \ {0}
      /\ FlashWords \in Nat /\ BufferWords \in Nat
  BY Geometry DEF Init
<1>2. TypeInv
  <2>1. TypeDevice
    <3>1. None \in Packet
      BY DEF None, Packet
    <3>2. NotWriting \in [address : 0 .. FlashWords, words : Seq(Value)]
      BY <1>1 DEF NotWriting
    <3>3. QED
      BY <1>1, <3>1, <3>2, DataAssumption DEF Init, TypeDevice, Words, EmptyBuf, InLoader
  <2>2. TypeHost /\ CoverInv
    BY <1>1 DEF Init, TypeHost, CoverInv
  <2>3. QED
    BY <2>1, <2>2 DEF TypeInv
<1>3. LinkInv /\ PacketInv /\ WriteInv /\ LoopInv /\ ReportInv
  BY DEF Init, LinkInv, PacketInv, WriteInv, LoopInv, ReportInv, None, InWrite, Sending
<1>4. QED
  BY <1>2, <1>3 DEF IInv

(* The firmware does not touch the uploader. *)
LEMMA HostUntouched ==
    ASSUME IInv, UNCHANGED <<bench, host>>
    PROVE  TypeHost' /\ CoverInv' /\ LoopInv'
BY DEF IInv, TypeInv, TypeHost, CoverInv, LoopInv, host, Sending, PageWords, PageOf, RoundDown, File

LEMMA ProcessSetupStep ==
    ASSUME IInv, ProcessSetup, bench' = bench
    PROVE  IInv'
<1>1. PageWords \in Nat \ {0} /\ BlockWords \in Nat \ {0}
  BY Geometry DEF IInv, TypeInv, TypeDevice
<1>2. TypeInv'
  <2>1. TypeDevice'
    BY <1>1 DEF IInv, TypeInv, TypeDevice, ProcessSetup, SetPage, SetLeave, GetInfo, None, Packet,
                InLoader, InWrite, PageWords
  <2>2. QED
    BY <2>1, HostUntouched DEF TypeInv, ProcessSetup
<1>3. LinkInv'
  BY DEF IInv, LinkInv, ProcessSetup, SetPage, SetLeave, GetInfo, host, None, OnBus, InWrite
<1>4. PacketInv' /\ WriteInv' /\ LoopInv'
  <2>1. PacketInv' /\ WriteInv'
    BY DEF PacketInv, WriteInv, ProcessSetup, SetPage, SetLeave, GetInfo, None, InWrite
  <2>2. QED
    BY <2>1, HostUntouched DEF ProcessSetup
<1>5. ReportInv'
  <2> SUFFICES ASSUME Sending, linked
               PROVE  ReportInv'
    BY DEF ReportInv, ProcessSetup, host, Sending
  <2>1. stage # "block" /\ rx.kind = "setPage" /\ SetPage /\ sent = 0 /\ Open(startAddr)
    BY DEF IInv, ReportInv, ProcessSetup, SetPage, SetLeave, GetInfo, None, Sending
  <2>2. startAddr + 0 = startAddr
    BY <1>1 DEF IInv, TypeInv, TypeHost
  <2>3. QED
    BY <2>1, <2>2 DEF ReportInv, ProcessSetup, SetPage, host, None, Open, OwnPage, PageOf,
                      RoundDown, PageWords, Writable
<1>6. QED
  BY <1>2, <1>3, <1>4, <1>5 DEF IInv

LEMMA WriteBeginStep ==
    ASSUME IInv, WriteBegin, bench' = bench
    PROVE  IInv'
<1> DEFINE n == Len(rx.words)
<1>1. PageWords \in Nat \ {0} /\ BlockWords \in Nat \ {0} /\ FlashWords \in Nat
  BY Geometry DEF IInv, TypeInv, TypeDevice
<1>2. /\ pc = "poll" /\ rx.kind = "data" /\ userRW /\ rx.words # <<>> /\ offset + n <= BlockWords
      /\ Run(Target, n) \subseteq covered /\ Open(Target)
  BY DEF IInv, PacketInv, WriteBegin
<1>3. rx.words \in Seq(Value) /\ n \in Nat /\ n > 0 /\ offset \in Nat
  BY <1>1, <1>2, EmptySeq DEF IInv, TypeInv, TypeDevice, Packet
<1>4. Target \in 0 .. FlashWords
  <2>1. Target \in Int
    BY <1>1 DEF Target, IInv, TypeInv, TypeDevice, Packet, NoHeader
  <2>2. Target \in Words
    BY <2>1, <1>2, <1>3, RunCovered
  <2>3. QED
    BY <2>2, <1>1 DEF Words
<1>5. offset' = offset + n
  <2> DEFINE size == 2 * BlockWords
             sum == offset + n
  <2>1. sum \in Int /\ 0 <= sum /\ sum < 0 + size /\ size \in Nat \ {0}
    BY <1>1, <1>2, <1>3
  <2>2. offset' = sum % size
    BY DEF WriteBegin
  <2> HIDE DEF size, sum
  <2>3. 0 % size = 0
    BY <2>1, SelfMultiple
  <2>4. sum % size = sum - 0
    BY <2>1, <2>3, DownIs
  <2>5. QED
    BY <2>1, <2>2, <2>4 DEF sum
<1>6. /\ wr' = [address |-> Target, words |-> rx.words] /\ pc' = "word"
      /\ UNCHANGED <<flash, buf, rww, rx, userRW, reply, currentAddress, exitMainloop, host>>
  BY DEF WriteBegin, Target
<1> HIDE DEF n
<1>7. TypeInv'
  <2>1. offset' \in 0 .. BlockWords
    BY <1>1, <1>2, <1>3, <1>5
  <2>2. wr' \in [address : 0 .. FlashWords, words : Seq(Value)]
    BY <1>3, <1>4, <1>6
  <2>3. TypeDevice'
    BY <2>1, <2>2, <1>6 DEF IInv, TypeInv, TypeDevice, InLoader, InWrite, PageWords
  <2>4. QED
    BY <2>3, <1>6, HostUntouched DEF TypeInv
<1>8. LinkInv'
  BY <1>2, <1>6 DEF IInv, LinkInv, host, None, OnBus, InWrite
<1>9. PacketInv' /\ LoopInv'
  BY <1>6, HostUntouched DEF PacketInv
<1>10. WriteInv'
  BY <1>2, <1>6 DEF n, WriteInv, host, Open, Run, OwnPage, PageOf, RoundDown, PageWords, Writable
<1>11. ReportInv'
  <2> SUFFICES ASSUME Sending, linked
               PROVE  ReportInv'
    BY <1>6 DEF ReportInv, host, Sending
  <2>1. /\ stage # "block" /\ sent > 0
        /\ offset + n = sent /\ Target + n = startAddr + sent
    BY <1>2 DEF IInv, ReportInv, None, n, Sending
  <2>2. QED
    BY <2>1, <1>2, <1>5, <1>6 DEF ReportInv, host, InWrite, n
<1>12. QED
  BY <1>7, <1>8, <1>9, <1>10, <1>11 DEF IInv

(* A step of usbFunctionWrite() leaves the uploader, its report and the packet alone. *)
LEMMA InsideWrite ==
    ASSUME IInv, bench' = bench, pc \in InWrite, pc' \in InWrite,
           UNCHANGED <<rx, userRW, reply, currentAddress, offset, exitMainloop, host>>,
           wr' \in [address : 0 .. FlashWords, words : Seq(Value)],
           wr'.address + Len(wr'.words) = wr.address + Len(wr.words)
    PROVE  LinkInv' /\ PacketInv' /\ LoopInv' /\ ReportInv'
<1>1. LinkInv' /\ PacketInv' /\ LoopInv'
  BY HostUntouched DEF IInv, LinkInv, PacketInv, host, None, OnBus, InWrite
<1>2. ReportInv'
  <2> SUFFICES ASSUME Sending, linked
               PROVE  ReportInv'
    BY DEF ReportInv, host, Sending
  <2>1. Waiting /\ pc # "poll" /\ pc' # "poll"
    BY DEF IInv, LinkInv, InWrite
  <2>2. stage # "block" /\ sent > 0 /\ offset = sent /\ wr.address + Len(wr.words) = startAddr + sent
    BY <2>1 DEF IInv, ReportInv, None, Sending
  <2>3. QED
    BY <2>1, <2>2 DEF ReportInv, host
<1>3. QED
  BY <1>1, <1>2

LEMMA EraseStep ==
    ASSUME IInv, PageErase \/ PageErased, bench' = bench
    PROVE  IInv'
<1>1. PageWords \in Nat \ {0} /\ BlockWords \in Nat \ {0} /\ FlashWords \in Nat
  BY Geometry DEF IInv, TypeInv, TypeDevice
<1>2. TypeInv'
  <2>1. TypeDevice'
    BY DataAssumption DEF IInv, TypeInv, TypeDevice, PageErase, PageErased, PageReads,
                          InLoader, InWrite, PageWords
  <2>2. QED
    BY <2>1, HostUntouched DEF TypeInv, PageErase, PageErased
<1>3. WriteInv'
  <2>1. CASE PageErase
    BY <2>1 DEF IInv, WriteInv, PageErase, host, Open, Run, InWrite, PageWords
  <2>2. CASE PageErased
    <3>1. \A w \in OwnPage(wr.address) \cap Words : flash'[w] = Erased
      BY <2>2 DEF PageErased, PageReads, IInv, TypeInv, TypeDevice
    <3>2. OwnPage(wr.address) \subseteq Words
      <4>1. wr.address \in Int /\ wr.words \in Seq(Value)
        BY <1>1 DEF IInv, TypeInv, TypeDevice
      <4>2. Len(wr.words) \in Nat /\ Len(wr.words) > 0
            /\ Run(wr.address, Len(wr.words)) \subseteq covered
        BY <2>2, <4>1, EmptySeq DEF PageErased, IInv, WriteInv, InWrite
      <4>3. wr.address \in covered
        BY <4>1, <4>2, RunCovered
      <4>4. QED
        BY <4>3 DEF IInv, TypeInv, CoverInv, OwnPage
    <3>3. QED
      BY <2>2, <3>1, <3>2 DEF IInv, WriteInv, PageErased, host, Open, Run, InWrite, PageWords,
                              OwnPage, PageOf, RoundDown, Writable
  <2>3. QED
    BY <2>1, <2>2
<1>4. LinkInv' /\ PacketInv' /\ LoopInv' /\ ReportInv'
  <2>1. /\ pc \in InWrite /\ pc' \in InWrite
        /\ UNCHANGED <<rx, userRW, reply, currentAddress, offset, exitMainloop, host, wr>>
    BY DEF PageErase, PageErased, InWrite
  <2>2. wr' \in [address : 0 .. FlashWords, words : Seq(Value)]
    BY <2>1 DEF IInv, TypeInv, TypeDevice
  <2>3. QED
    BY <2>1, <2>2, InsideWrite
<1>5. QED
  BY <1>2, <1>3, <1>4 DEF IInv

LEMMA PageFillStep ==
    ASSUME IInv, PageFill, bench' = bench
    PROVE  IInv'
<1> DEFINE a == wr.address
           i == a % PageWords
           words == Tail(wr.words)
<1>1. PageWords \in Nat \ {0} /\ FlashWords \in Nat
  BY Geometry DEF IInv, TypeInv, TypeDevice
<1>2. pc \in {"word", "fill"} /\ wr.words # <<>> /\ Run(a, Len(wr.words)) \subseteq covered
  BY DEF PageFill, IInv, WriteInv, InWrite
<1>3. a \in Int /\ wr.words \in Seq(Value)
  BY <1>1 DEF IInv, TypeInv, TypeDevice
<1>4. /\ words \in Seq(Value) /\ Len(words) = Len(wr.words) - 1 /\ Len(wr.words) \in Nat
      /\ Len(wr.words) > 0 /\ Head(wr.words) \in Value
  BY <1>2, <1>3, HeadTailProperties, EmptySeq
<1>5. /\ a \in covered /\ a \in Words /\ a + 1 \in 0 .. FlashWords
      /\ Run(a + 1, Len(words)) \subseteq covered
  BY <1>2, <1>3, <1>4, RunCovered
<1>6. /\ wr' = [address |-> a + 1, words |-> words]
      /\ pc' = IF (a + 1) % PageWords = 0 THEN "write" ELSE NextWord(words)
      /\ UNCHANGED <<flash, rww, rx, userRW, reply, currentAddress, offset, exitMainloop, host>>
  BY DEF PageFill
<1>7. \A w \in OwnPage(a) : flash[w] = Erased
  <2>1. CASE pc = "fill"
    BY <2>1 DEF IInv, WriteInv, InWrite
  <2>2. CASE pc # "fill"
    BY <2>2, <1>2 DEF PageFill, IInv, WriteInv, InWrite, Open
  <2>3. QED
    BY <2>1, <2>2
<1>8. buf' \in [0 .. (PageWords - 1) -> Value \union {Unfilled}]
  <2>1. i \in 0 .. (PageWords - 1)
    BY <1>1, <1>3, Remainder
  <2>2. PICK v \in {Head(wr.words), buf[i]} \ {Unfilled} : buf' = [buf EXCEPT ![i] = v]
    BY DEF PageFill
  <2>3. buf \in [0 .. (PageWords - 1) -> Value \union {Unfilled}]
    BY DEF IInv, TypeInv, TypeDevice
  <2> HIDE DEF i
  <2>4. v \in Value \union {Unfilled}
    BY <2>1, <2>2, <2>3, <1>4
  <2>5. QED
    BY <2>2, <2>3, <2>4
<1> HIDE DEF a, i, words
<1>9. pc' \in {"write", "word", "end"}
  BY <1>6 DEF NextWord
<1>10. wr' \in [address : 0 .. FlashWords, words : Seq(Value)]
  BY <1>4, <1>5, <1>6
<1>11. TypeInv'
  <2>1. TypeDevice'
    BY <1>6, <1>8, <1>9, <1>10 DEF IInv, TypeInv, TypeDevice, InLoader, InWrite, PageWords
  <2>2. QED
    BY <2>1, <1>6, HostUntouched DEF TypeInv
<1>12. WriteInv'
  <2>1. wr'.address = a + 1 /\ wr'.words = words /\ (a + 1) - 1 = a
    BY <1>3, <1>6 DEF a
  <2>2. Run(wr'.address, Len(wr'.words)) \subseteq covered
    BY <1>5, <2>1
  <2>3. CASE (a + 1) % PageWords = 0
    BY <2>1, <2>2, <2>3, <1>5, <1>6, <1>7
       DEF WriteInv, host, PageWords, OwnPage, PageOf, RoundDown, Writable, Run
  <2>4. CASE (a + 1) % PageWords # 0
    <3>1. \A w \in OwnPage(a + 1) : flash[w] = Erased
      <4>1. PageOf(a + 1) = PageOf(a)
        BY <2>4, <1>3, NextInPage DEF IInv, TypeInv, TypeDevice, a
      <4>2. QED
        BY <4>1, <1>7 DEF OwnPage
    <3>2. pc' = NextWord(words)
      BY <1>6, <2>4
    <3>3. (pc' = "word" /\ words # <<>>) \/ (pc' = "end" /\ words = <<>>)
      BY <3>2 DEF NextWord
    <3>4. QED
      BY <3>1, <3>3, <2>1, <2>2, <1>6
         DEF WriteInv, Open, host, PageWords, OwnPage, PageOf, RoundDown, Writable, Run
  <2>5. QED
    BY <2>3, <2>4
<1>13. LinkInv' /\ PacketInv' /\ LoopInv' /\ ReportInv'
  <2>1. pc \in InWrite /\ pc' \in InWrite
    BY <1>2, <1>9 DEF InWrite
  <2>2. wr'.address + Len(wr'.words) = wr.address + Len(wr.words)
    <3>1. wr'.address = a + 1 /\ wr'.words = words
      BY <1>6
    <3>2. ASSUME NEW m \in Nat, NEW n, n = m - 1 PROVE (a + 1) + n = a + m
      BY <1>3, <3>2
    <3>3. (a + 1) + Len(words) = a + Len(wr.words)
      BY <1>4, <3>2
    <3>4. QED
      BY <3>1, <3>3 DEF a
  <2>3. QED
    BY <2>1, <2>2, <1>6, <1>10, InsideWrite
<1>14. QED
  BY <1>11, <1>12, <1>13 DEF IInv

LEMMA PageWriteStep ==
    ASSUME IInv, PageWrite \/ PageWritten, bench' = bench
    PROVE  IInv'
<1>1. PageWords \in Nat \ {0} /\ FlashWords \in Nat
  BY Geometry DEF IInv, TypeInv, TypeDevice
<1>2. /\ pc \in {"write", "writing"} /\ pc' \in {"writing", "word", "end"}
      /\ UNCHANGED <<rx, userRW, reply, currentAddress, offset, wr, exitMainloop, host>>
  BY DEF PageWrite, PageWritten, NextWord
<1>3. TypeInv'
  <2>1. flash' \in [Words -> Value]
    <3>1. CASE PageWrite
      BY <3>1 DEF PageWrite, IInv, TypeInv, TypeDevice
    <3>2. CASE PageWritten
      <4>1. flash \in [Words -> Value] /\ buf \in [0 .. (PageWords - 1) -> Value \union {Unfilled}]
        BY DEF IInv, TypeInv, TypeDevice
      <4>2. ASSUME NEW w \in Words PROVE Programmed(flash[w], buf[w % PageWords]) \in Value
        <5>1. w % PageWords \in 0 .. (PageWords - 1)
          BY <1>1, Remainder DEF Words
        <5>2. flash[w] \in Value /\ buf[w % PageWords] \in Value \union {Unfilled}
          BY <5>1, <4>1
        <5>3. QED
          BY <5>2, DataAssumption DEF Programmed
      <4>3. QED
        BY <3>2, <4>1, <4>2 DEF PageWritten, PageProgrammed
    <3>3. QED
      BY <3>1, <3>2
  <2>2. buf' \in [0 .. (PageWords - 1) -> Value \union {Unfilled}]
    BY DEF PageWrite, PageWritten, IInv, TypeInv, TypeDevice, EmptyBuf
  <2>3. TypeDevice'
    BY <2>1, <2>2, <1>2 DEF IInv, TypeInv, TypeDevice, InLoader, InWrite, PageWords, Words
  <2>4. QED
    BY <2>3, <1>2, HostUntouched DEF TypeInv
<1>4. WriteInv'
  <2>1. CASE PageWrite
    BY <2>1 DEF IInv, WriteInv, PageWrite, host, Run, InWrite, PageWords, OwnPage, PageOf,
                RoundDown, Writable
  <2>2. CASE PageWritten
    <3>1. /\ (pc' = "word" /\ wr.words # <<>>) \/ (pc' = "end" /\ wr.words = <<>>)
          /\ wr.address % PageWords = 0 /\ Run(wr.address, Len(wr.words)) \subseteq covered
      BY <2>2 DEF PageWritten, NextWord, IInv, WriteInv, InWrite
    <3>2. QED
      BY <3>1, <1>2 DEF WriteInv, Open, Run, host, PageWords
  <2>3. QED
    BY <2>1, <2>2
<1>5. LinkInv' /\ PacketInv' /\ LoopInv' /\ ReportInv'
  <2>1. pc \in InWrite /\ pc' \in InWrite
    BY <1>2 DEF InWrite
  <2>2. wr' \in [address : 0 .. FlashWords, words : Seq(Value)]
    BY <1>2 DEF IInv, TypeInv, TypeDevice
  <2>3. QED
    BY <2>1, <2>2, <1>2, InsideWrite
<1>6. QED
  BY <1>3, <1>4, <1>5 DEF IInv

LEMMA WriteEndStep ==
    ASSUME IInv, WriteEnd, bench' = bench
    PROVE  IInv'
<1>1. /\ pc = "end" /\ wr.words = <<>> /\ Open(wr.address) /\ userRW
  BY DEF WriteEnd, IInv, WriteInv, LinkInv, InWrite
<1>2. wr.address \in 0 .. FlashWords /\ FlashWords \in Nat
  BY Geometry DEF IInv, TypeInv, TypeDevice
<1>3. TypeInv'
  <2>1. None \in Packet /\ NotWriting \in [address : 0 .. FlashWords, words : Seq(Value)]
    BY <1>2 DEF None, Packet, NotWriting
  <2>2. reply' \in {"none", "info", "empty"} /\ rx' \in Packet /\ currentAddress' \in 0 .. FlashWords
        /\ wr' \in [address : 0 .. FlashWords, words : Seq(Value)] /\ pc' \in InLoader
    BY <1>2, <2>1 DEF WriteEnd, IInv, TypeInv, TypeDevice, InLoader
  <2>3. TypeDevice'
    BY <2>2 DEF WriteEnd, IInv, TypeInv, TypeDevice, InLoader, PageWords
  <2>4. QED
    BY <2>3, HostUntouched DEF TypeInv, WriteEnd
<1>4. LinkInv'
  BY DEF WriteEnd, IInv, LinkInv, host, None, OnBus, InWrite
<1>5. PacketInv' /\ WriteInv'
  BY DEF WriteEnd, PacketInv, WriteInv, None, InWrite
<1>6. LoopInv'
  BY HostUntouched DEF WriteEnd
<1>7. ReportInv'
  <2> SUFFICES ASSUME Sending, linked
               PROVE  ReportInv'
    BY DEF ReportInv, WriteEnd, host, Sending
  <2>1. rx.kind = "data"
    BY <1>1 DEF IInv, LinkInv, InWrite
  <2>2. stage # "block" /\ sent > 0 /\ offset = sent /\ wr.address + Len(wr.words) = startAddr + sent
    BY <1>1, <2>1 DEF IInv, ReportInv, None, Sending
  <2>3. wr.address = startAddr + sent
    BY <1>1, <1>2, <2>2
  <2>4. reply' # "info"
    BY <1>1 DEF WriteEnd, IInv, LinkInv, InWrite
  <2>5. Open(startAddr + sent)
    BY <1>1, <2>3
  <2>6. QED
    BY <2>2, <2>3, <2>4, <2>5, <1>1 DEF ReportInv, WriteEnd, host, None, Open, OwnPage, PageOf,
         RoundDown, PageWords, Writable
<1>8. QED
  BY <1>3, <1>4, <1>5, <1>6, <1>7 DEF IInv

-----------------------------------------------------------------------------
(* Leaving the boot loader, power loss and reset. *)

LEMMA GoneStep ==
    ASSUME IInv, LeaveBootloader \/ PowerLoss \/ Reset, bench' = bench
    PROVE  IInv'
<1>1. PageWords \in Nat \ {0} /\ FlashWords \in Nat /\ BlockWords \in Nat \ {0}
  BY Geometry DEF IInv, TypeInv, TypeDevice
<1>2. /\ rx' = None /\ pc' \notin InWrite /\ (Reset => ~ linked) /\ (~ Reset => linked' = FALSE)
      /\ reply' # "info" \/ Reset
      /\ UNCHANGED <<stage, file, startAddr, endAddr, sent, first, covered>>
  BY DEF IInv, LinkInv, LeaveBootloader, PowerLoss, Reset, InWrite, OnBus, host
<1>3. TypeInv'
  <2>1. flash' \in [Words -> Value]
    <3>1. CASE UNCHANGED flash
      BY <3>1 DEF IInv, TypeInv, TypeDevice
    <3>2. CASE PowerLoss
      <4>1. flash \in [Words -> Value] /\ Garbled \in Value
        BY DataAssumption DEF IInv, TypeInv, TypeDevice
      <4>2. Interrupted \in [Words -> Value]
        BY <4>1 DEF Interrupted, PageReads
      <4>3. QED
        BY <3>2, <4>2 DEF PowerLoss
    <3>3. QED
      BY <3>1, <3>2 DEF LeaveBootloader, Reset
  <2>2. None \in Packet /\ NotWriting \in [address : 0 .. FlashWords, words : Seq(Value)]
    BY <1>1 DEF None, Packet, NotWriting
  <2>3. buf' \in [0 .. (PageWords - 1) -> Value \union {Unfilled}]
        /\ wr' \in [address : 0 .. FlashWords, words : Seq(Value)]
    BY <2>2 DEF LeaveBootloader, PowerLoss, Reset, IInv, TypeInv, TypeDevice, EmptyBuf
  <2>4. pc' \in InLoader \union {"app", "off"} /\ reply' \in {"none", "info", "empty"}
        /\ currentAddress' \in 0 .. FlashWords /\ offset' \in 0 .. BlockWords
    BY <1>1 DEF LeaveBootloader, PowerLoss, Reset, IInv, TypeInv, TypeDevice, InLoader
  <2>5. TypeDevice'
    BY <2>1, <2>2, <2>3, <2>4, <1>2 DEF IInv, TypeInv, TypeDevice, PageWords
  <2>6. TypeHost' /\ CoverInv'
    BY <1>2 DEF IInv, TypeInv, TypeHost, CoverInv, PageOf, RoundDown, PageWords, File
  <2>7. QED
    BY <2>5, <2>6 DEF TypeInv
<1>4. LinkInv'
  BY <1>2 DEF IInv, LinkInv, LeaveBootloader, PowerLoss, Reset, None, OnBus, InWrite, host
<1>5. PacketInv' /\ WriteInv' /\ ReportInv'
  BY <1>2 DEF PacketInv, WriteInv, ReportInv, None, Reset, host
<1>6. LoopInv'
  BY <1>2 DEF IInv, LoopInv, Sending, PageWords, File
<1>7. QED
  BY <1>3, <1>4, <1>5, <1>6 DEF IInv

-----------------------------------------------------------------------------
(* The steps of the uploader. *)

LEMMA StartStep ==
    ASSUME IInv, NEW f \in File \union {NoFile}, NEW l, Start(f, l), bench' = bench
    PROVE  IInv'
<1>1. BlockWords \in Nat \ {0} /\ BufferWords \in Nat
  BY Geometry DEF IInv, TypeInv, TypeDevice
<1>2. /\ stage' \in {"ask", "leave"} /\ linked' = TRUE /\ OnBus /\ sent' = 0
      /\ file' = f /\ UNCHANGED <<device, first, covered>>
  BY DEF Start
<1>3. startAddr' \in 0 .. BufferWords /\ endAddr' \in 0 .. BufferWords
  <2>1. CASE f = NoFile
    BY <2>1 DEF Start, IInv, TypeInv, TypeHost
  <2>2. CASE f # NoFile
    BY <2>2, Addresses DEF Start, IInv, TypeInv, TypeDevice
  <2>3. QED
    BY <2>1, <2>2
<1>4. TypeInv'
  <2>1. TypeDevice'
    BY <1>2 DEF IInv, TypeInv, TypeDevice, device, PageWords
  <2>2. TypeHost'
    BY <1>1, <1>2, <1>3 DEF IInv, TypeInv, TypeHost, File
  <2>3. CoverInv'
    BY <1>2 DEF IInv, TypeInv, CoverInv, PageOf, RoundDown, PageWords
  <2>4. QED
    BY <2>1, <2>2, <2>3 DEF TypeInv
<1>5. LinkInv'
  BY <1>2 DEF IInv, LinkInv, device, OnBus, InWrite
<1>6. PacketInv' /\ WriteInv'
  BY <1>2, Untouched DEF IInv, device
<1>7. LoopInv'
  <2>1. CASE f = NoFile
    BY <2>1 DEF Start, LoopInv, Sending
  <2>2. CASE f # NoFile
    BY <2>2, <1>2 DEF Start, LoopInv, Sending, File
  <2>3. QED
    BY <2>1, <2>2
<1>8. ReportInv'
  BY <1>2 DEF ReportInv, Sending
<1>9. QED
  BY <1>4, <1>5, <1>6, <1>7, <1>8 DEF IInv

LEMMA EndStep ==
    ASSUME IInv, Left \/ Failed \/ Abort, bench' = bench
    PROVE  IInv'
<1>1. /\ stage' = "closed" /\ reply' \in {reply, "none"}
      /\ UNCHANGED <<flash, buf, rx, userRW, currentAddress, offset, wr, exitMainloop, pc,
                     file, startAddr, endAddr, sent, linked, first, covered>>
  BY DEF Left, Failed, Abort, Close, device
<1>2. TypeInv'
  BY <1>1 DEF IInv, TypeInv, TypeDevice, TypeHost, CoverInv, PageOf, RoundDown, PageWords, File
<1>3. LinkInv'
  BY <1>1 DEF IInv, LinkInv, OnBus, InWrite
<1>4. PacketInv' /\ WriteInv'
  BY <1>1, Untouched DEF IInv
<1>5. LoopInv' /\ ReportInv'
  BY <1>1 DEF LoopInv, ReportInv, Sending
<1>6. QED
  BY <1>2, <1>3, <1>4, <1>5 DEF IInv

LEMMA SendSetupStep ==
    ASSUME IInv, SendSetup, bench' = bench
    PROVE  IInv'
<1>1. BlockWords \in Nat \ {0}
  BY Geometry DEF IInv, TypeInv, TypeDevice
<1>2. /\ linked /\ OnBus /\ rx = None /\ sent' = 0
      /\ UNCHANGED <<flash, buf, rww, userRW, reply, currentAddress, offset, wr, exitMainloop, pc,
                     file, startAddr, endAddr, linked, first, covered>>
  BY DEF SendSetup, Send
<1>3. PICK r \in {"getInfo", "setPage", "setLeave"} : rx' = Setup(r)
  BY DEF SendSetup, Send
<1>4. rx' \in Packet /\ rx'.kind = r
  BY <1>3 DEF Setup, Packet
<1>5. pc \notin InWrite
  BY <1>2 DEF IInv, LinkInv, None
<1>6. TypeInv'
  <2>1. stage' \in {"size", "data", "leaving"}
    BY DEF SendSetup
  <2>2. TypeDevice'
    BY <1>2, <1>4 DEF IInv, TypeInv, TypeDevice, PageWords
  <2>3. TypeHost'
    BY <1>1, <1>2, <2>1 DEF IInv, TypeInv, TypeHost, File
  <2>4. CoverInv'
    BY <1>2 DEF IInv, TypeInv, CoverInv, PageOf, RoundDown, PageWords
  <2>5. QED
    BY <2>2, <2>3, <2>4 DEF TypeInv
<1>7. LinkInv'
  BY <1>2, <1>4, <1>5 DEF IInv, LinkInv, OnBus, InWrite
<1>8. PacketInv' /\ WriteInv'
  BY <1>2, <1>4, <1>5 DEF PacketInv, WriteInv, InWrite
<1>9. LoopInv' /\ ReportInv'
  <2>1. /\ stage' \in {"size", "data", "leaving"}
        /\ stage' = "size" => stage = "ask"
        /\ stage' = "data" => stage = "block" /\ rx'.kind = "setPage"
    BY DEF SendSetup, Send, Setup
  <2>2. LoopInv'
    <3>1. CASE stage' = "size"
      BY <3>1, <2>1, <1>2 DEF IInv, LoopInv, Sending, File
    <3>2. CASE stage' = "data"
      BY <3>2, <2>1, <1>1, <1>2 DEF IInv, LoopInv, Sending, PageWords, File
    <3>3. CASE stage' = "leaving"
      BY <3>3 DEF LoopInv, Sending
    <3>4. QED
      BY <3>1, <3>2, <3>3, <2>1
  <2>3. ReportInv'
    BY <2>1, <1>2 DEF IInv, ReportInv, Sending, Open, OwnPage, PageOf, RoundDown, PageWords, Writable
  <2>4. QED
    BY <2>2, <2>3
<1>10. QED
  BY <1>6, <1>7, <1>8, <1>9 DEF IInv

(* The range of an upload, rounded to units of blocks and pages. *)
LEMMA RoundedRange ==
    ASSUME bench \in Bench, NEW s \in Nat, NEW e \in Nat, s < e, e <= FlashWords - Reserve
    PROVE  LET s2 == RoundDown(s, Unit)
               e2 == RoundDown(e + Unit - 1, Unit)
           IN  /\ s2 \in Nat /\ e2 \in Nat /\ s2 <= s /\ e <= e2 /\ e2 <= FlashWords - Reserve
               /\ s2 % BlockWords = 0 /\ e2 % BlockWords = 0
               /\ s2 % PageWords = 0 /\ e2 % PageWords = 0
<1> DEFINE u == Unit
           last == FlashWords - Reserve
           x == e + u - 1
           s2 == RoundDown(s, u)
           e2 == RoundDown(x, u)
<1>1. /\ PageWords \in Nat \ {0} /\ BlockWords \in Nat \ {0} /\ u \in Nat \ {0}
      /\ last \in Nat /\ last % u = 0 /\ u % PageWords = 0 /\ u % BlockWords = 0
  BY Geometry
<1> HIDE DEF u, last
<1>2. /\ x \in Int /\ x = (e + u) - 1 /\ x < last + u
      /\ last \in Int /\ u \in Int /\ s \in Int /\ 0 \in Int /\ 0 <= s
  BY <1>1 DEF last
<1> HIDE DEF x
<1>3. 0 % u = 0 /\ u % u = 0
  BY <1>1, SelfMultiple
<1>4. s2 \in Int /\ s2 % u = 0 /\ s2 <= s
  BY <1>1, Down
<1>5. 0 <= s2
  BY <1>1, <1>2, <1>3, DownBetween
<1>6. e2 \in Int /\ e2 % u = 0 /\ e2 <= x /\ x < e2 + u
  BY <1>1, <1>2, Down
<1>7. e2 + u <= last + u
  <2>1. (last + u) % u = 0
    BY <1>1, <1>2, <1>3, SumOfMultiples, Zenon
  <2>2. last + u \in Int
    BY <1>2
  <2>3. QED
    BY <2>1, <2>2, <1>1, <1>2, DownBetween
<1> HIDE DEF s2, e2
<1>8. s2 % BlockWords = 0 /\ e2 % BlockWords = 0 /\ s2 % PageWords = 0 /\ e2 % PageWords = 0
  BY <1>1, <1>4, <1>6, MultipleOfMultiple
<1>9. e <= e2 /\ e2 <= last /\ s2 \in Nat /\ e2 \in Nat
  BY <1>1, <1>2, <1>4, <1>5, <1>6, <1>7
<1>10. QED
  BY <1>4, <1>8, <1>9 DEF s2, e2, u, last, x

LEMMA WholePages ==
    ASSUME bench \in Bench, NEW lo \in Nat, NEW hi \in Nat, hi <= FlashWords,
           lo % PageWords = 0, hi % PageWords = 0
    PROVE  /\ lo .. (hi - 1) \subseteq Words
           /\ \A a \in lo .. (hi - 1) : PageOf(a) \subseteq lo .. (hi - 1)
<1>1. PageWords \in Nat \ {0} /\ FlashWords \in Nat
  BY Geometry
<1>2. lo .. (hi - 1) \subseteq Words
  BY <1>1 DEF Words
<1>3. ASSUME NEW a \in lo .. (hi - 1) PROVE PageOf(a) \subseteq lo .. (hi - 1)
  <2>1. a \in Int /\ lo <= a /\ a < hi /\ lo \in Int /\ hi \in Int
    OBVIOUS
  <2>2. lo <= RoundDown(a, PageWords) /\ RoundDown(a, PageWords) + PageWords <= hi
    BY <2>1, <1>1, DownBetween
  <2>3. RoundDown(a, PageWords) \in Int
    BY <2>1, <1>1, Down
  <2>4. QED
    BY <2>1, <2>2, <2>3, <1>1 DEF PageOf
<1>4. QED
  BY <1>2, <1>3

LEMMA ReadInfoStep ==
    ASSUME IInv, ReadInfo, bench' = bench
    PROVE  IInv'
<1>1. /\ PageWords \in Nat \ {0} /\ BlockWords \in Nat \ {0} /\ FlashWords \in Nat
      /\ FlashWords - Reserve \in 0 .. FlashWords /\ BufferWords \in Nat /\ FlashWords <= BufferWords
  BY Geometry DEF IInv, TypeInv, TypeDevice
<1>2. /\ stage = "size" /\ linked /\ rx = None /\ pc = "poll" /\ reply' = "none"
      /\ UNCHANGED <<flash, buf, rww, rx, userRW, currentAddress, offset, wr, exitMainloop, pc,
                     file, leave, sent, linked>>
  BY DEF ReadInfo, Answered, IInv, LinkInv
<1>3. TypeDevice'
  BY <1>2 DEF IInv, TypeInv, TypeDevice, PageWords
<1>4. LinkInv'
  BY <1>2 DEF IInv, LinkInv, None, OnBus, InWrite
<1>5. PacketInv' /\ WriteInv'
  BY <1>2 DEF PacketInv, WriteInv, None, InWrite
<1>6. CASE endAddr > FlashWords - Reserve
  <2>1. stage' = "closed" /\ UNCHANGED <<startAddr, endAddr, first, covered>>
    BY <1>6 DEF ReadInfo, Close
  <2>2. TypeHost' /\ CoverInv'
    BY <2>1, <1>2 DEF IInv, TypeInv, TypeHost, CoverInv, PageOf, RoundDown, PageWords, File
  <2>3. LoopInv' /\ ReportInv'
    BY <2>1 DEF LoopInv, ReportInv, Sending
  <2>4. QED
    BY <2>2, <2>3, <1>3, <1>4, <1>5 DEF IInv, TypeInv
<1>7. CASE ~ (endAddr > FlashWords - Reserve)
  <2>1. /\ startAddr' = RoundDown(startAddr, Unit) /\ endAddr' = RoundDown(endAddr + Unit - 1, Unit)
        /\ stage' = "block" /\ first' = startAddr'
        /\ covered' = covered \union (startAddr' .. (endAddr' - 1))
    BY <1>7 DEF ReadInfo
  <2>2. file \in File /\ startAddr < endAddr /\ startAddr \in Nat /\ endAddr \in Nat
    BY <1>1, <1>2 DEF IInv, LoopInv, TypeInv, TypeHost
  <2>3. endAddr <= FlashWords - Reserve
    BY <1>1, <1>7, <2>2
  <2>4. /\ startAddr' \in Nat /\ endAddr' \in Nat /\ startAddr' <= startAddr /\ endAddr <= endAddr'
        /\ endAddr' <= FlashWords - Reserve
        /\ startAddr' % BlockWords = 0 /\ endAddr' % BlockWords = 0
        /\ startAddr' % PageWords = 0 /\ endAddr' % PageWords = 0
    <3>1. bench \in Bench
      BY DEF IInv, TypeInv, TypeDevice
    <3>2. QED
      BY <3>1, <2>1, <2>2, <2>3, RoundedRange
  <2>5. /\ startAddr' \in Nat /\ endAddr' \in Nat /\ startAddr' < endAddr'
        /\ startAddr' <= FlashWords /\ endAddr' <= FlashWords
    BY <2>2, <2>4, <1>1
  <2>6. TypeHost'
    BY <2>1, <2>5, <1>1, <1>2 DEF IInv, TypeInv, TypeHost, File
  <2>7. CoverInv'
    <3> DEFINE range == startAddr' .. (endAddr' - 1)
    <3>1. bench \in Bench
      BY DEF IInv, TypeInv, TypeDevice
    <3>2. range \subseteq Words /\ \A a \in range : PageOf(a) \subseteq range
      BY <3>1, <2>4, <2>5, WholePages
    <3>3. \A a : PageOf(a)' = PageOf(a)
      BY DEF PageOf, RoundDown, PageWords
    <3>4. covered' = covered \union range /\ CoverInv
      BY <2>1 DEF IInv, TypeInv
    <3> HIDE DEF range
    <3>5. QED
      BY <3>2, <3>3, <3>4 DEF CoverInv
  <2>8. LoopInv'
    BY <2>1, <2>2, <2>4, <2>5, <1>2 DEF LoopInv, Sending, PageWords, File
  <2>9. ReportInv'
    BY <2>1, <2>4, <1>2 DEF ReportInv, Open, PageWords
  <2>10. QED
    BY <2>6, <2>7, <2>8, <2>9, <1>3, <1>4, <1>5 DEF IInv, TypeInv
<1>8. QED
  BY <1>6, <1>7

(* There is a block of the range where the loop is. *)
LEMMA BlockInRange ==
    ASSUME IInv, Sending
    PROVE  /\ startAddr \in Nat /\ endAddr \in Nat /\ startAddr + BlockWords <= endAddr
           /\ endAddr <= FlashWords /\ FlashWords <= BufferWords
           /\ FlashWords \in Nat /\ BufferWords \in Nat /\ BlockWords \in Nat \ {0}
<1>1. /\ BlockWords \in Nat \ {0} /\ FlashWords \in Nat /\ BufferWords \in Nat
      /\ FlashWords <= BufferWords /\ FlashWords - Reserve \in 0 .. FlashWords
  BY Geometry DEF IInv, TypeInv, TypeDevice
<1>2. /\ startAddr \in Nat /\ endAddr \in Nat /\ startAddr < endAddr
      /\ startAddr % BlockWords = 0 /\ endAddr % BlockWords = 0
      /\ endAddr <= FlashWords - Reserve
  BY <1>1 DEF IInv, TypeInv, TypeHost, LoopInv
<1>3. startAddr + BlockWords <= endAddr
  <2>1. startAddr \in Int /\ endAddr \in Int
    BY <1>2
  <2>2. QED
    BY <2>1, <1>1, <1>2, NextMultiple
<1>4. QED
  BY <1>1, <1>2, <1>3

LEMMA ReadStatusStep ==
    ASSUME IInv, ReadStatus, bench' = bench
    PROVE  IInv'
<1>1. /\ stage = "status" /\ linked /\ rx = None /\ reply' = "none" /\ Sending
      /\ UNCHANGED <<flash, buf, rww, rx, userRW, currentAddress, offset, wr, exitMainloop, pc,
                     file, endAddr, sent, linked, first, covered>>
      /\ startAddr' = startAddr + BlockWords
      /\ stage' \in {"block", "leave", "closed"}
      /\ stage' = "block" => startAddr' < endAddr
  BY DEF ReadStatus, Answered, Close, Sending
<1>2. /\ startAddr \in Nat /\ endAddr \in Nat /\ startAddr + BlockWords <= endAddr
      /\ endAddr <= BufferWords /\ BufferWords \in Nat /\ BlockWords \in Nat \ {0}
  BY <1>1, BlockInRange
<1>3. sent = BlockWords /\ pc = "poll" /\ Open(startAddr + BlockWords)
  <2>1. sent = BlockWords
    BY <1>1 DEF IInv, LoopInv
  <2>2. QED
    BY <2>1, <1>1 DEF IInv, ReportInv, LinkInv, None
<1>4. TypeInv'
  <2>1. TypeDevice' /\ CoverInv'
    BY <1>1 DEF IInv, TypeInv, TypeDevice, CoverInv, PageOf, RoundDown, PageWords
  <2>2. startAddr' \in 0 .. BufferWords
    BY <1>1, <1>2
  <2>3. TypeHost'
    BY <2>2, <1>1 DEF IInv, TypeInv, TypeHost, File
  <2>4. QED
    BY <2>1, <2>3 DEF TypeInv
<1>5. LinkInv'
  BY <1>1 DEF IInv, LinkInv, None, OnBus, InWrite
<1>6. PacketInv' /\ WriteInv'
  BY <1>1, Untouched DEF IInv
<1>7. LoopInv'
  <2>1. (startAddr + BlockWords) % BlockWords = 0
    <3>1. startAddr \in Int /\ BlockWords \in Int /\ startAddr % BlockWords = 0
      BY <1>1, <1>2 DEF IInv, LoopInv
    <3>2. BlockWords % BlockWords = 0
      BY <1>2, SelfMultiple
    <3>3. QED
      BY <3>1, <3>2, <1>2, SumOfMultiples
  <2>2. startAddr' .. (endAddr' - 1) \subseteq startAddr .. (endAddr - 1)
    BY <1>1, <1>2
  <2>3. QED
    BY <2>1, <2>2, <1>1 DEF IInv, LoopInv, Sending, PageWords, File
<1>8. ReportInv'
  BY <1>1, <1>3 DEF ReportInv, Sending, Open, OwnPage, PageOf, RoundDown, PageWords, Writable
<1>9. QED
  BY <1>4, <1>5, <1>6, <1>7, <1>8 DEF IInv

LEMMA CutBounds ==
    ASSUME sent \in Nat, sent < BlockWords
    PROVE  Cut \in Nat /\ Cut > 0 /\ sent + Cut \in Nat /\ sent + Cut <= BlockWords
<1>1. /\ BlockWords \in Nat /\ PacketWords \in Nat /\ PacketWords > 0
      /\ PacketWords - HeaderWords \in Nat /\ PacketWords - HeaderWords > 0
  BY GeometryAssumption
<1>2. QED
  BY <1>1 DEF Cut

(* The packet that is sent, word by word. *)
LEMMA PacketIs ==
    ASSUME IInv, stage = "data"
    PROVE  /\ Cut \in Nat /\ Cut > 0 /\ sent \in Nat /\ sent + Cut <= BlockWords
           /\ NextPacket \in Packet /\ NextPacket.kind = "data"
           /\ NextPacket.header = IF sent = 0 THEN startAddr ELSE NoHeader
           /\ Len(NextPacket.words) = Cut
           /\ \A i \in 1 .. Cut : NextPacket.words[i] = Image(file)[(startAddr + sent) + (i - 1)]
<1> DEFINE block == Block(file, startAddr)
           words == SubSeq(block, sent + 1, sent + Cut)
<1>1. /\ startAddr \in Nat /\ endAddr \in Nat /\ startAddr + BlockWords <= endAddr
      /\ endAddr <= FlashWords /\ FlashWords <= BufferWords
      /\ FlashWords \in Nat /\ BufferWords \in Nat /\ BlockWords \in Nat \ {0}
  BY BlockInRange DEF Sending
<1>2. sent \in Nat /\ sent < BlockWords /\ file \in File /\ bench \in Bench
  BY <1>1 DEF IInv, LoopInv, Sending, TypeInv, TypeDevice, TypeHost
<1>3. Cut \in Nat /\ Cut > 0 /\ sent + Cut \in Nat /\ sent + Cut <= BlockWords
  BY <1>2, CutBounds
<1>4. Image(file) \in [0 .. (BufferWords - 1) -> Value]
  BY <1>2, Addresses
<1>5. ASSUME NEW i \in 1 .. BlockWords
      PROVE  block[i] = Image(file)[startAddr + (i - 1)] /\ block[i] \in Value
  <2>1. startAddr + (i - 1) \in 0 .. (BufferWords - 1)
    BY <1>1
  <2>2. block[i] = Image(file)[startAddr + (i - 1)]
    BY DEF Block
  <2>3. QED
    BY <2>1, <2>2, <1>4
<1> HIDE DEF block
<1>6. /\ words \in Seq(Value) /\ Len(words) = Cut
      /\ \A i \in 1 .. Cut : words[i] = block[sent + i]
  <2> DEFINE m == sent + 1
             n == sent + Cut
  <2>1. /\ m \in Int /\ n \in Int /\ m <= n /\ (n - m) + 1 = Cut
        /\ \A i \in m .. n : i \in 1 .. BlockWords
    <3>1. ASSUME NEW c \in Nat, c > 0, sent + c <= BlockWords
          PROVE  /\ sent + 1 \in Int /\ sent + c \in Int /\ sent + 1 <= sent + c
                 /\ ((sent + c) - (sent + 1)) + 1 = c
                 /\ \A i \in sent + 1 .. sent + c : i \in 1 .. BlockWords
      BY <1>1, <1>2, <3>1
    <3>2. QED
      BY <3>1, <1>3
  <2>2. \A i \in m .. n : block[i] \in Value
    BY <2>1, <1>5
  <2> HIDE DEF m, n
  <2>3. /\ SubSeq(block, m, n) \in Seq(Value)
        /\ Len(SubSeq(block, m, n)) = IF m <= n THEN (n - m) + 1 ELSE 0
        /\ \A i \in 1 .. (n - m) + 1 : SubSeq(block, m, n)[i] = block[m + i - 1]
    BY <2>1, <2>2, SubSeqProperties
  <2>4. \A i \in 1 .. Cut : m + i - 1 = sent + i
    BY <1>2, <1>3 DEF m
  <2>5. QED
    BY <2>1, <2>3, <2>4 DEF m, n
<1>7. NextPacket = [kind |-> "data", header |-> IF sent = 0 THEN startAddr ELSE NoHeader,
                    words |-> words]
  BY DEF NextPacket, Data, block
<1> HIDE DEF words
<1>8. (IF sent = 0 THEN startAddr ELSE NoHeader) \in {NoHeader} \union (0 .. FlashWords)
  BY <1>1
<1>9. NextPacket \in Packet
  BY <1>6, <1>7, <1>8 DEF Packet
<1>10. ASSUME NEW i \in 1 .. Cut
       PROVE  words[i] = Image(file)[(startAddr + sent) + (i - 1)]
  <2>1. sent + i \in 1 .. BlockWords /\ startAddr + ((sent + i) - 1) = (startAddr + sent) + (i - 1)
    BY <1>1, <1>2, <1>3
  <2>2. QED
    BY <2>1, <1>5, <1>6
<1>11. QED
  BY <1>2, <1>3, <1>6, <1>7, <1>9, <1>10

LEMMA SendDataStep ==
    ASSUME IInv, SendData, bench' = bench
    PROVE  IInv'
<1> DEFINE t == startAddr + sent
<1>1. /\ stage = "data" /\ linked /\ OnBus /\ rx = None /\ rx' = NextPacket /\ sent' = sent + Cut
      /\ stage' = IF sent' = BlockWords THEN "status" ELSE "data"
      /\ UNCHANGED <<flash, buf, rww, userRW, reply, currentAddress, offset, wr, exitMainloop, pc,
                     file, startAddr, endAddr, linked, first, covered>>
  BY DEF SendData, Send
<1>2. /\ Cut \in Nat /\ Cut > 0 /\ sent \in Nat /\ sent + Cut <= BlockWords
      /\ rx' \in Packet /\ rx'.kind = "data"
      /\ rx'.header = IF sent = 0 THEN startAddr ELSE NoHeader
      /\ Len(rx'.words) = Cut
  BY <1>1, PacketIs
<1>3. /\ startAddr \in Nat /\ endAddr \in Nat /\ startAddr + BlockWords <= endAddr
      /\ BlockWords \in Nat \ {0}
  BY <1>1, BlockInRange DEF Sending
<1>4. /\ pc = "poll" /\ userRW /\ reply # "info" /\ offset = sent
      /\ sent > 0 => currentAddress = t
      /\ Open(t)
  <2>1. pc = "poll"
    BY <1>1 DEF IInv, LinkInv, ReportInv, Sending, None
  <2>2. QED
    BY <2>1, <1>1 DEF IInv, ReportInv, Sending, None
<1>5. Target' = t
  <2>1. CASE sent = 0
    BY <2>1, <1>1, <1>2, <1>3, <1>4 DEF Target
  <2>2. CASE sent > 0
    BY <2>2, <1>1, <1>2, <1>4 DEF Target
  <2>3. QED
    BY <2>1, <2>2, <1>2
<1>6. rx'.words # <<>>
  BY <1>2
<1>7. Run(t, Cut) \subseteq covered
  <2>1. Run(t, Cut) \subseteq startAddr .. (endAddr - 1)
    BY <1>2, <1>3 DEF Run
  <2>2. startAddr .. (endAddr - 1) \subseteq covered
    BY <1>1 DEF IInv, LoopInv, Sending
  <2>3. QED
    BY <2>1, <2>2
<1>8. TypeInv'
  <2>1. TypeDevice' /\ CoverInv'
    BY <1>1, <1>2 DEF IInv, TypeInv, TypeDevice, CoverInv, PageOf, RoundDown, PageWords
  <2>2. sent' \in 0 .. BlockWords
    BY <1>1, <1>2, <1>3
  <2>3. TypeHost'
    BY <2>2, <1>1 DEF IInv, TypeInv, TypeHost, File
  <2>4. QED
    BY <2>1, <2>3 DEF TypeInv
<1>9. LinkInv'
  BY <1>1, <1>2, <1>4 DEF IInv, LinkInv, OnBus, InWrite
<1>10. PacketInv' /\ WriteInv'
  <2>1. WriteInv'
    BY <1>1, <1>4 DEF WriteInv, InWrite
  <2>2. Run(Target', Len(rx'.words)) \subseteq covered'
    BY <1>1, <1>2, <1>5, <1>7
  <2>3. Open(Target)'
    BY <1>1, <1>4, <1>5 DEF Open, OwnPage, PageOf, RoundDown, PageWords, Writable
  <2>4. offset' = 0 <=> rx'.header # NoHeader
    BY <1>1, <1>2, <1>3, <1>4 DEF NoHeader
  <2>5. offset' + Len(rx'.words) <= BlockWords
    BY <1>1, <1>2, <1>4
  <2>6. QED
    BY <2>1, <2>2, <2>3, <2>4, <2>5, <1>6 DEF PacketInv, Run
<1>11. LoopInv'
  <2>1. stage' = "status" => sent' = BlockWords
    BY <1>1
  <2>2. stage' = "data" => sent' < BlockWords
    BY <1>1, <1>2, <1>3
  <2>3. QED
    BY <2>1, <2>2, <1>1 DEF IInv, LoopInv, Sending, PageWords, File
<1>12. ReportInv'
  <2>1. offset' + Len(rx'.words) = sent' /\ Target' + Len(rx'.words) = startAddr' + sent' /\ sent' > 0
    BY <1>1, <1>2, <1>3, <1>4, <1>5
  <2>2. stage' # "block" /\ rx'.kind = "data" /\ pc' = "poll"
    BY <1>1, <1>2, <1>4
  <2>3. QED
    BY <2>1, <2>2 DEF ReportInv
<1>13. QED
  BY <1>8, <1>9, <1>10, <1>11, <1>12 DEF IInv

-----------------------------------------------------------------------------
(* The invariant holds. *)

LEMMA BooleansInit == Init => Booleans
BY Zenon DEF Init, Booleans

LEMMA BooleansStep ==
    ASSUME Booleans, [Next]_<<vars, bench>>
    PROVE  Booleans'
<1> USE DEF Booleans
<1>1. CASE ProcessSetup
  BY <1>1, Zenon DEF ProcessSetup, SetPage, SetLeave, GetInfo, host
<1>2. CASE Write
  <2> USE DEF host
  <2>1. CASE WriteBegin
    BY <2>1, Zenon DEF WriteBegin
  <2>2. CASE PageErase
    BY <2>2, Zenon DEF PageErase
  <2>3. CASE PageErased
    BY <2>3, Zenon DEF PageErased
  <2>4. CASE PageFill
    BY <2>4, Zenon DEF PageFill
  <2>5. CASE PageWrite
    BY <2>5, Zenon DEF PageWrite
  <2>6. CASE PageWritten
    BY <2>6, Zenon DEF PageWritten
  <2>7. CASE WriteEnd
    BY <2>7, Zenon DEF WriteEnd
  <2>8. QED
    BY <1>2, <2>1, <2>2, <2>3, <2>4, <2>5, <2>6, <2>7, Zenon DEF Write
<1>3. CASE LeaveBootloader
  BY <1>3, Zenon DEF LeaveBootloader
<1>4. CASE Transfer
  <2>1. CASE SendSetup
    BY <2>1, Zenon DEF SendSetup
  <2>2. CASE ReadInfo
    BY <2>2, Zenon DEF ReadInfo, Close
  <2>3. CASE SendData
    BY <2>3, Zenon DEF SendData
  <2>4. CASE ReadStatus
    BY <2>4, Zenon DEF ReadStatus, Close
  <2>5. CASE Left \/ Failed
    BY <2>5, Zenon DEF Left, Failed, Close, device
  <2>6. QED
    BY <1>4, <2>1, <2>2, <2>3, <2>4, <2>5, Zenon DEF Transfer
<1>5. CASE Disturbance
  BY <1>5, Zenon DEF Disturbance, Abort, PowerLoss, Reset, Close, device, host
<1>6. ASSUME NEW f, NEW l \in BOOLEAN, Start(f, l) PROVE Booleans'
  BY <1>6, Zenon DEF Start, device
<1>7. CASE UNCHANGED <<vars, bench>>
  BY <1>7, Zenon DEF vars, device, host
<1>8. QED
  BY <1>1, <1>2, <1>3, <1>4, <1>5, <1>6, <1>7, Zenon DEF Next, Firmware

LEMMA StutterStep ==
    ASSUME IInv, UNCHANGED <<vars, bench>>
    PROVE  IInv'
<1> USE DEF vars
<1>1. TypeInv' /\ LoopInv'
  <2>1. TypeDevice'
    BY DEF IInv, TypeInv, TypeDevice, device, PageWords
  <2>2. QED
    BY <2>1, HostUntouched DEF TypeInv
<1>2. LinkInv'
  BY DEF IInv, LinkInv, device, host, OnBus, InWrite
<1>3. PacketInv' /\ WriteInv'
  BY Untouched DEF IInv, device, host
<1>4. ReportInv'
  BY DEF IInv, ReportInv, Sending, Target, Open, OwnPage, PageOf, RoundDown, PageWords, Writable,
         device, host, InWrite
<1>5. QED
  BY <1>1, <1>2, <1>3, <1>4 DEF IInv

LEMMA IInvStep ==
    ASSUME IInv, [Next]_<<vars, bench>>
    PROVE  IInv'
<1>1. CASE Next
  <2>1. bench' = bench
    BY <1>1 DEF Next
  <2>2. CASE Firmware
    BY <2>1, <2>2, ProcessSetupStep, WriteBeginStep, EraseStep, PageFillStep, PageWriteStep,
       WriteEndStep, GoneStep DEF Firmware, Write
  <2>3. CASE Transfer
    BY <2>1, <2>3, SendSetupStep, ReadInfoStep, SendDataStep, ReadStatusStep, EndStep DEF Transfer
  <2>4. CASE Disturbance
    BY <2>1, <2>4, EndStep, GoneStep DEF Disturbance
  <2>5. CASE \E f \in File \union {NoFile}, l \in BOOLEAN : Start(f, l)
    BY <2>1, <2>5, StartStep
  <2>6. QED
    BY <1>1, <2>2, <2>3, <2>4, <2>5 DEF Next
<1>2. CASE UNCHANGED <<vars, bench>>
  BY <1>2, StutterStep
<1>3. QED
  BY <1>1, <1>2

(* The inductive invariant of uploader, receive buffer and usbFunctionWrite():  *)
(* who works, where the next word goes, and that the page it goes to is erased. *)
THEOREM Invariance == Spec => [](IInv /\ Booleans)
<1>1. Init => IInv /\ Booleans
  BY InitOK, BooleansInit
<1>2. IInv /\ Booleans /\ [Next]_<<vars, bench>> => (IInv /\ Booleans)'
  BY IInvStep, BooleansStep
<1>3. QED
  BY <1>1, <1>2, PTL DEF Spec

(* Every variable keeps its type, for every geometry and every set of files:   *)
(* no address, offset or length the firmware or the uploader computes leaves   *)
(* its range (currentAddress and offset of usbFunctionWrite(), startAddr of    *)
(* uploadData()).                                                              *)
THEOREM TypeCorrect == Spec => []TypeOK
<1>1. IInv /\ Booleans => TypeOK
  <2> SUFFICES ASSUME IInv, Booleans PROVE TypeOK
    OBVIOUS
  <2>1. BlockWords \in Nat \ {0} /\ offset \in 0 .. BlockWords
    BY Geometry DEF IInv, TypeInv, TypeDevice
  <2>2. offset \in 0 .. (2 * BlockWords - 1)
    BY <2>1
  <2>3. /\ flash \in [Words -> Value]
        /\ buf \in [0 .. (PageWords - 1) -> Value \union {Unfilled}]
        /\ reply \in {"none", "info", "empty"} /\ currentAddress \in 0 .. FlashWords
        /\ rx \in Packet /\ wr \in [address : 0 .. FlashWords, words : Seq(Value)]
        /\ pc \in InLoader \union {"app", "off"}
    BY DEF IInv, TypeInv, TypeDevice
  <2>4. /\ rx.kind \in {"none", "setPage", "setLeave", "getInfo", "data"}
        /\ rx.header \in {NoHeader} \union (0 .. FlashWords) /\ rx.words \in Seq(Value)
        /\ wr.address \in 0 .. FlashWords /\ wr.words \in Seq(Value)
    BY <2>3 DEF Packet
  <2>5. TypeHost /\ covered \subseteq Words
    BY DEF IInv, TypeInv, CoverInv
  <2>6. QED
    BY <2>2, <2>3, <2>4, <2>5, Zenon DEF TypeOK, TypeHost, Booleans
<1>2. QED
  BY <1>1, Invariance, PTL

(* usbFunctionWrite()'s position and the uploader's agree whenever the firmware *)
(* has taken what was sent, and it looks for a header exactly in the packets    *)
(* that have one, for every size of packets and blocks and wherever uploads are *)
(* given up.                                                                    *)
THEOREM ReportsInStep == Spec => []ReportInStep
<1>1. IInv => ReportInStep
  <2> SUFFICES ASSUME IInv PROVE ReportInStep
    OBVIOUS
  <2>1. ASSUME stage \in {"data", "status"}, linked, rx = None
        PROVE  /\ userRW /\ offset = sent
               /\ sent > 0 => currentAddress = startAddr + sent
    BY <2>1 DEF IInv, ReportInv, Sending, None
  <2>2. pc = "poll" /\ rx.kind = "data" /\ userRW => (offset = 0 <=> rx.header # NoHeader)
    BY DEF IInv, PacketInv
  <2>3. QED
    BY <2>1, <2>2 DEF ReportInStep
<1>2. QED
  BY <1>1, Invariance, PTL

(* boot_page_write() only ever writes an erased page: no word is programmed     *)
(* twice, whatever uploads are given up and however pages and blocks divide.    *)
THEOREM NothingOverprogrammed == Spec => []NeverOverprogrammed
<1>1. IInv => NeverOverprogrammed
  BY DEF IInv, WriteInv, NeverOverprogrammed, InWrite
<1>2. QED
  BY <1>1, Invariance, PTL

(* The page being erased or written is one of an upload. *)
LEMMA TouchedIsCovered ==
    ASSUME IInv
    PROVE  /\ pc = "erasing" => OwnPage(wr.address) \subseteq covered
           /\ pc = "writing" => OwnPage(wr.address - 1) \subseteq covered
<1>1. ASSUME pc = "erasing" PROVE wr.address \in covered
  <2>1. /\ wr.words # <<>> /\ Run(wr.address, Len(wr.words)) \subseteq covered
    BY <1>1 DEF IInv, WriteInv, InWrite
  <2>2. wr.address \in Int /\ wr.words \in Seq(Value) /\ FlashWords \in Nat
    BY Geometry DEF IInv, TypeInv, TypeDevice
  <2>3. Len(wr.words) \in Nat /\ Len(wr.words) > 0
    BY <2>1, <2>2, EmptySeq
  <2>4. QED
    BY <2>1, <2>2, <2>3, RunCovered
<1>2. pc = "writing" => wr.address - 1 \in covered
  BY DEF IInv, WriteInv, InWrite
<1>3. QED
  BY <1>1, <1>2 DEF IInv, TypeInv, CoverInv, OwnPage

LEMMA RestStep ==
    ASSUME IInv, RestIntact, [Next]_<<vars, bench>>
    PROVE  RestIntact'
<1>1. flash \in [Words -> Value] /\ DOMAIN flash = Words
  BY DEF IInv, TypeInv, TypeDevice
<1>2. covered \subseteq covered'
  BY ZenonT(60) DEF Next, Firmware, Write, Transfer, Disturbance, ProcessSetup, WriteBegin, PageErase, PageErased,
         PageFill, PageWrite, PageWritten, WriteEnd, LeaveBootloader, SendSetup, ReadInfo, SendData,
         ReadStatus, Left, Failed, Abort, PowerLoss, Reset, Start, vars, host, device
<1>3. ASSUME NEW w \in Words, w \notin covered PROVE flash'[w] = flash[w]
  <2>1. CASE PageErased
    BY <2>1, <1>1, <1>3, TouchedIsCovered DEF PageErased, PageReads
  <2>2. CASE PageWritten
    BY <2>2, <1>1, <1>3, TouchedIsCovered DEF PageWritten, PageProgrammed
  <2>3. CASE PowerLoss
    BY <2>3, <1>1, <1>3, TouchedIsCovered DEF PowerLoss, Interrupted, PageReads, PageProgrammed
  <2>4. CASE UNCHANGED flash
    BY <2>4
  <2>5. QED
    BY <2>1, <2>2, <2>3, <2>4
       DEF Next, Firmware, Write, Transfer, Disturbance, ProcessSetup, WriteBegin, PageErase,
         PageFill, PageWrite, WriteEnd, LeaveBootloader, SendSetup, ReadInfo, SendData,
         ReadStatus, Left, Failed, Abort, Reset, Start, vars, host, device
<1>4. QED
  BY <1>2, <1>3 DEF RestIntact, Words

(* Whatever is aborted and whenever power fails, words outside the pages of the *)
(* files uploaded so far are as they were before the first upload.              *)
THEOREM RestIsIntact == Spec => []RestIntact
<1>1. Init => RestIntact
  BY DEF Init, RestIntact
<1>2. IInv /\ RestIntact /\ [Next]_<<vars, bench>> => RestIntact'
  BY RestStep
<1>3. QED
  BY <1>1, <1>2, Invariance, PTL DEF Spec

(* The application starts with its flash readable: whatever page was left half  *)
(* done, leaveBootloader() has enabled the RWW section.                         *)
THEOREM AppIsReadable == Spec => []AppReadable
<1>1. Init => AppReadable
  BY DEF Init, AppReadable
<1>2. AppReadable /\ [Next]_<<vars, bench>> => AppReadable'
  <2> SUFFICES ASSUME AppReadable, [Next]_<<vars, bench>> PROVE AppReadable'
    OBVIOUS
  <2>1. CASE UNCHANGED <<rww, pc>>
    BY <2>1 DEF AppReadable
  <2>2. CASE pc' # "app" \/ rww' = TRUE
    BY <2>2 DEF AppReadable
  <2>3. QED
    BY <2>1, <2>2
       DEF Next, Firmware, Write, Transfer, Disturbance, ProcessSetup, SetPage, SetLeave, GetInfo,
           WriteBegin, PageErase, PageErased, PageFill, PageWrite, PageWritten, WriteEnd, NextWord,
           LeaveBootloader, SendSetup, ReadInfo, SendData, ReadStatus, Left, Failed, Abort,
           PowerLoss, Reset, Start, vars, host, device
<1>3. QED
  BY <1>1, <1>2, PTL DEF Spec

-----------------------------------------------------------------------------
(* The range of the upload and how far it has come. *)

Ended == ok \/ stage \in {"leave", "leaving"}

DoneInv ==
    /\ stage # "closed" => ~ ok
    /\ Sending => first <= StartAddress(file) /\ endAddr >= EndAddress(file)
    /\ Ended /\ file # NoFile =>
          /\ first <= StartAddress(file)
          /\ EndAddress(file) <= RoundDown(startAddr, PageWords)

LEMMA DoneStep ==
    ASSUME IInv, DoneInv, [Next]_<<vars, bench>>
    PROVE  DoneInv'
<1>1. bench' = bench
  BY DEF Next
<1>2. CASE UNCHANGED <<stage, file, first, endAddr, startAddr, ok>>
  BY <1>1, <1>2 DEF DoneInv, Sending, Ended, RoundDown, PageWords
<1>3. CASE Left \/ Failed \/ Abort
  BY <1>1, <1>3 DEF Left, Failed, Abort, Close, DoneInv, Sending, Ended, RoundDown, PageWords
<1>4. CASE SendSetup \/ SendData
  <2>1. /\ UNCHANGED <<file, first, endAddr, startAddr, ok>>
        /\ stage # "closed"
        /\ stage' \in {"block", "data", "status"} => Sending
        /\ stage' \in {"leave", "leaving"} => stage \in {"leave", "leaving"}
    BY <1>4 DEF SendSetup, SendData, Sending
  <2>2. stage' # "closed" => ~ ok'
    BY <2>1 DEF DoneInv
  <2>3. (Sending' => Sending) /\ (Ended' => Ended)
    BY <2>1 DEF Sending, Ended
  <2>4. RoundDown(startAddr', PageWords') = RoundDown(startAddr, PageWords)
    BY <1>1, <2>1 DEF PageWords
  <2>5. QED
    BY <2>1, <2>2, <2>3, <2>4 DEF DoneInv
<1>5. CASE \E f \in File \union {NoFile}, l \in BOOLEAN : Start(f, l)
  BY <1>5 DEF Start, DoneInv, Sending, Ended
<1>6. CASE ReadInfo
  <2>1. CASE endAddr > FlashWords - Reserve
    BY <1>6, <2>1 DEF ReadInfo, Close, DoneInv, Sending, Ended
  <2>2. CASE ~ (endAddr > FlashWords - Reserve)
    <3>1. /\ stage = "size" /\ stage' = "block" /\ file' = file /\ ok' = ok /\ first' = startAddr'
          /\ startAddr' = RoundDown(startAddr, Unit) /\ endAddr' = RoundDown(endAddr + Unit - 1, Unit)
      BY <1>6, <2>2 DEF ReadInfo
    <3>2. /\ bench \in Bench /\ startAddr = StartAddress(file) /\ endAddr = EndAddress(file)
          /\ startAddr \in Nat /\ endAddr \in Nat /\ startAddr < endAddr
          /\ FlashWords - Reserve \in Nat
      BY <3>1, Geometry DEF IInv, TypeInv, TypeDevice, TypeHost, LoopInv
    <3>3. endAddr <= FlashWords - Reserve
      BY <2>2, <3>2
    <3>4. startAddr' <= startAddr /\ endAddr <= endAddr'
      BY <3>1, <3>2, <3>3, RoundedRange
    <3>5. QED
      BY <3>1, <3>2, <3>4 DEF DoneInv, Sending, Ended
  <2>3. QED
    BY <2>1, <2>2
<1>7. CASE ReadStatus
  <2>1. /\ stage = "status" /\ Sending /\ file' = file /\ first' = first /\ endAddr' = endAddr
        /\ startAddr' = startAddr + BlockWords
    BY <1>7 DEF ReadStatus, Sending
  <2>2. CASE startAddr' < endAddr
    <3>1. startAddr' \in Int /\ endAddr \in Int
      BY <2>1, BlockInRange
    <3>2. ~ (startAddr' >= endAddr)
      BY <3>1, <2>2
    <3>3. stage' = "block" /\ ok' = ok
      BY <3>2, <1>7 DEF ReadStatus
    <3>4. ~ ok'
      BY <3>3, <2>1 DEF DoneInv
    <3>5. Sending' /\ ~ Ended'
      BY <3>3, <3>4 DEF Sending, Ended
    <3>6. QED
      BY <2>1, <3>3, <3>4, <3>5 DEF DoneInv
  <2>3. CASE startAddr' >= endAddr
    <3>1. /\ startAddr' \in Int /\ endAddr \in Int /\ EndAddress(file) \in Int
          /\ endAddr % PageWords = 0 /\ PageWords \in Nat \ {0}
      <4>1. startAddr \in Nat /\ endAddr \in Nat /\ BlockWords \in Nat
        BY <2>1, BlockInRange
      <4>2. bench \in Bench /\ file \in File /\ endAddr % PageWords = 0
        BY <2>1 DEF IInv, TypeInv, TypeDevice, LoopInv
      <4>3. EndAddress(file) \in 0 .. BufferWords
        BY <4>2, Addresses
      <4>4. QED
        BY <4>1, <4>2, <4>3, <2>1, Geometry
    <3>2. endAddr <= RoundDown(startAddr', PageWords) /\ RoundDown(startAddr', PageWords) \in Int
      BY <3>1, <2>3, DownBetween, Down
    <3>3. first <= StartAddress(file) /\ endAddr >= EndAddress(file)
      BY <2>1 DEF DoneInv
    <3>4. EndAddress(file) <= RoundDown(startAddr', PageWords)
      BY <3>1, <3>2, <3>3
    <3>5. stage' \in {"leave", "closed"} /\ (stage' = "leave" => ok' = ok)
      BY <1>7, <2>3, <3>1 DEF ReadStatus, Close
    <3>6. QED
      BY <3>3, <3>4, <3>5, <2>1, <1>1 DEF DoneInv, Sending, Ended, RoundDown, PageWords
  <2>4. startAddr' < endAddr \/ startAddr' >= endAddr
    BY <1>7 DEF ReadStatus
  <2>5. QED
    BY <2>2, <2>3, <2>4
<1>8. QED
  BY <1>2, <1>3, <1>4, <1>5, <1>6, <1>7
     DEF Next, Firmware, Write, Transfer, Disturbance, ProcessSetup, WriteBegin, PageErase, PageErased,
         PageFill, PageWrite, PageWritten, WriteEnd, LeaveBootloader, PowerLoss, Reset, vars, host

(* When an uploader ends with success, every word of the file has been          *)
(* acknowledged in a complete page: the loop of uploadData() reaches the end of *)
(* every record parseIntelHex() has read, whatever their order and overlap.     *)
THEOREM SuccessMeansComplete == Spec => []SuccessIsComplete
<1>1. Init => DoneInv
  BY DEF Init, DoneInv, Sending, Ended
<1>2. IInv /\ DoneInv /\ [Next]_<<vars, bench>> => DoneInv'
  BY DoneStep
<1>3. IInv /\ DoneInv => SuccessIsComplete
  <2> SUFFICES ASSUME IInv, DoneInv, Ended, file # NoFile, NEW r \in Records(file), NEW a \in Span(r)
               PROVE  a \in first .. (RoundDown(startAddr, PageWords) - 1)
    BY DEF SuccessIsComplete, Ended
  <2>1. /\ bench \in Bench /\ file \in File /\ first \in Nat
        /\ startAddr \in Int /\ PageWords \in Nat \ {0} /\ BufferWords \in Nat
    BY Geometry DEF IInv, TypeInv, TypeDevice, TypeHost
  <2>2. /\ r.base \in Nat /\ r.data \in Seq(Value)
        /\ StartAddress(file) <= r.base /\ EndAddress(file) >= r.base + Len(r.data)
    BY <2>1, RangeOfRecords
  <2>3. StartAddress(file) \in Int /\ EndAddress(file) \in Int
    <3>1. StartAddress(file) \in 0 .. BufferWords /\ EndAddress(file) \in 0 .. BufferWords
      BY <2>1, Addresses
    <3>2. QED
      BY <2>1, <3>1
  <2>4. RoundDown(startAddr, PageWords) \in Int
    BY <2>1, Down
  <2>5. first <= StartAddress(file) /\ EndAddress(file) <= RoundDown(startAddr, PageWords)
    BY DEF DoneInv
  <2>6. Len(r.data) \in Nat /\ a \in Int /\ r.base <= a /\ a < r.base + Len(r.data)
    <3>1. ASSUME NEW n \in Nat, NEW b \in Nat, a \in b .. (b + n - 1)
          PROVE  a \in Int /\ b <= a /\ a < b + n
      BY <3>1
    <3>2. a \in r.base .. (r.base + Len(r.data) - 1)
      BY DEF Span
    <3>3. Len(r.data) \in Nat
      BY <2>2
    <3>4. QED
      BY <2>2, <3>1, <3>2, <3>3
  <2> DEFINE n == Len(r.data)
             b == r.base
             d == RoundDown(startAddr, PageWords)
             s == StartAddress(file)
             e == EndAddress(file)
  <2> HIDE DEF n, b, d, s, e
  <2>7. /\ b \in Int /\ n \in Int /\ s \in Int /\ e \in Int /\ d \in Int /\ a \in Int /\ first \in Int
        /\ first <= s /\ s <= b /\ b <= a /\ a < b + n /\ b + n <= e /\ e <= d
    BY <2>1, <2>2, <2>3, <2>4, <2>5, <2>6 DEF n, b, d, s, e
  <2>8. a \in first .. (d - 1)
    BY <2>7
  <2>9. QED
    BY <2>8 DEF d
<1>4. QED
  BY <1>1, <1>2, <1>3, Invariance, PTL DEF Spec

-----------------------------------------------------------------------------
(* What has been loaded: the words of the file on their way from the report    *)
(* through the page buffer into the flash.                                     *)

USE DEF Waiting

Live == Sending /\ linked
Full == pc \in {"write", "writing"}      \* the buffer has all words of a page

\* Where the next word goes.
At ==
    IF pc \in InWrite THEN wr.address
    ELSE IF Waiting THEN Target
    ELSE IF stage = "block" THEN startAddr ELSE startAddr + sent

\* The words before this one that the upload has passed are in the flash.
Settled ==
    IF ~ Live THEN RoundDown(startAddr, PageWords)
    ELSE IF Full THEN At - PageWords ELSE RoundDown(At, PageWords)

Good(a) == Writable(a) => flash[a] = Image(file)[a]

IdleInv == Uploaded /\ ~ Sending => ~ Waiting

WordsInv ==
    Live =>
        /\ pc = "poll" /\ Waiting =>
              \A i \in 1 .. Len(rx.words) : rx.words[i] = Image(file)[Target + (i - 1)]
        /\ pc \in InWrite =>
              /\ \A i \in 1 .. Len(wr.words) : wr.words[i] = Image(file)[wr.address + (i - 1)]
              /\ startAddr <= wr.address /\ (Full => startAddr < wr.address)

FullBuf == \A i \in 0 .. (PageWords - 1) : buf[i] = Image(file)[(At - PageWords) + i]
PartBuf ==
    \A i \in 0 .. (PageWords - 1) :
        buf[i] = IF i < At % PageWords THEN Image(file)[RoundDown(At, PageWords) + i] ELSE Unfilled

BufInv ==
    Live /\ clean =>
        /\ Full => (Writable(At - 1) => FullBuf)
        /\ ~ Full => (Writable(At) => PartBuf)

UploadInv == Uploaded /\ clean => \A a \in first .. (Settled - 1) : Good(a)

LoadInv == IdleInv /\ WordsInv /\ BufInv /\ UploadInv

LEMMA AtIs ==
    ASSUME IInv, Live
    PROVE  /\ At \in Nat /\ startAddr \in Nat /\ PageWords \in Nat \ {0}
           /\ Full => At % PageWords = 0 /\ At = wr.address
           /\ pc \notin InWrite => startAddr <= At
           /\ bench \in Bench /\ file \in File /\ Image(file) \in [0 .. (BufferWords - 1) -> Value]
           /\ pc = "poll" \/ pc \in InWrite
<1>1. /\ startAddr \in Nat /\ endAddr \in Nat /\ startAddr + BlockWords <= endAddr
      /\ endAddr <= FlashWords /\ FlashWords <= BufferWords
      /\ FlashWords \in Nat /\ BufferWords \in Nat /\ BlockWords \in Nat \ {0}
  BY BlockInRange DEF Live
<1>2. bench \in Bench /\ file \in File /\ sent \in Nat /\ offset \in Nat
  BY <1>1 DEF IInv, TypeInv, TypeDevice, TypeHost, LoopInv, Live
<1>3. PageWords \in Nat \ {0} /\ Image(file) \in [0 .. (BufferWords - 1) -> Value]
  BY <1>2, Geometry, Addresses
<1>4. pc = "poll" \/ pc \in InWrite
  BY DEF IInv, ReportInv, Live
<1>5. Full => At % PageWords = 0 /\ At = wr.address
  BY DEF Full, At, InWrite, IInv, WriteInv
<1>6. CASE pc \in InWrite
  <2>1. At = wr.address /\ wr.address \in Nat
    BY <1>6, <1>1 DEF At, IInv, TypeInv, TypeDevice
  <2>2. QED
    BY <2>1, <1>1, <1>2, <1>3, <1>4, <1>5, <1>6
<1>7. CASE pc = "poll" /\ Waiting
  <2>1. /\ rx.words # <<>> /\ rx.words \in Seq(Value)
        /\ Run(Target, Len(rx.words)) \subseteq covered
    BY <1>7 DEF IInv, PacketInv, TypeInv, TypeDevice, Packet
  <2>2. Len(rx.words) \in Nat
    BY <2>1
  <2>3. Target \in Int
    BY <1>1 DEF Target, IInv, TypeInv, TypeDevice, Packet, NoHeader
  <2>4. offset + Len(rx.words) = sent /\ Target + Len(rx.words) = startAddr + sent
    BY <1>7 DEF IInv, ReportInv, Live, Sending, None
  <2>5. At = Target
    BY <1>7 DEF At, InWrite
  <2>6. ASSUME NEW n \in Nat, offset + n = sent, Target + n = startAddr + sent
        PROVE  Target \in Nat /\ startAddr <= Target
    BY <2>3, <2>6, <1>1, <1>2
  <2>7. QED
    BY <2>2, <2>4, <2>5, <2>6, <1>1, <1>2, <1>3, <1>4, <1>5
<1>8. CASE pc = "poll" /\ ~ Waiting
  <2>1. At \in Nat /\ startAddr <= At
    BY <1>8, <1>1, <1>2 DEF At, InWrite
  <2>2. QED
    BY <2>1, <1>1, <1>2, <1>3, <1>4, <1>5
<1>9. QED
  BY <1>4, <1>6, <1>7, <1>8

\* usbFunctionWrite() works only while the upload goes on.
LEMMA WriteIsLive ==
    ASSUME IInv, IdleInv, Uploaded, pc \in InWrite
    PROVE  Live
BY DEF IInv, LinkInv, IdleInv, Live, None, InWrite

\* A step that neither loads a word nor ends a page.
LEMMA SamePlace ==
    ASSUME LoadInv, UNCHANGED <<bench, flash, buf, file, first, clean>>,
           Settled' = Settled, Uploaded' => Uploaded,
           Live' => Live /\ At' = At /\ (Full' <=> Full)
    PROVE  BufInv' /\ UploadInv'
<1>1. PageWords' = PageWords
  BY DEF PageWords
<1>2. ASSUME Live', clean'
      PROVE  /\ Full' => (Writable(At' - 1) => FullBuf')
             /\ ~ Full' => (Writable(At') => PartBuf')
  <2>1. /\ Full => (Writable(At - 1) => FullBuf)
        /\ ~ Full => (Writable(At) => PartBuf)
    BY <1>2 DEF LoadInv, BufInv
  <2>2. At' = At /\ (Full' <=> Full)
    BY <1>2
  <2>3. FullBuf' = FullBuf /\ PartBuf' = PartBuf
    BY <1>1, <2>2 DEF FullBuf, PartBuf, RoundDown
  <2>4. Writable(At') = Writable(At) /\ Writable(At' - 1) = Writable(At - 1)
    BY <2>2
  <2>5. QED
    BY <2>1, <2>2, <2>3, <2>4
<1>3. UploadInv'
  BY DEF UploadInv, LoadInv, Good, Writable
<1>4. QED
  BY <1>2, <1>3 DEF BufInv

LEMMA ProcessSetupLoads ==
    ASSUME IInv, LoadInv, ProcessSetup, bench' = bench
    PROVE  LoadInv'
<1>1. /\ pc = "poll" /\ pc' \in {"poll", "exit"} /\ ~ Waiting /\ ~ Waiting'
      /\ rx.kind \in {"setPage", "setLeave", "getInfo"} /\ rx # None
      /\ UNCHANGED <<bench, flash, buf, file, first, clean, stage, linked, startAddr, sent, ok>>
  BY DEF ProcessSetup, SetPage, SetLeave, GetInfo, None, host
<1>2. (Live' <=> Live) /\ (Uploaded' => Uploaded) /\ ~ Full /\ ~ Full'
  BY <1>1 DEF Live, Sending, Uploaded, Full
<1>3. ASSUME Live PROVE At' = At
  BY <1>1, <1>3 DEF At, InWrite
<1>4. Settled' = Settled
  BY <1>1, <1>2, <1>3 DEF Settled, RoundDown, PageWords
<1>5. IdleInv' /\ WordsInv'
  BY <1>1 DEF IdleInv, WordsInv, InWrite
<1>6. QED
  BY <1>1, <1>2, <1>3, <1>4, <1>5, SamePlace DEF LoadInv

LEMMA WriteBeginLoads ==
    ASSUME IInv, LoadInv, WriteBegin, bench' = bench
    PROVE  LoadInv'
<1>1. /\ pc = "poll" /\ pc' = "word" /\ Waiting /\ Waiting'
      /\ wr' = [address |-> Target, words |-> rx.words]
      /\ UNCHANGED <<bench, flash, buf, file, first, clean, stage, linked, startAddr, sent, ok>>
  BY DEF WriteBegin, Target, host
<1>2. (Live' <=> Live) /\ (Uploaded' => Uploaded) /\ ~ Full /\ ~ Full'
  BY <1>1 DEF Live, Sending, Uploaded, Full
<1>3. At' = At /\ At = Target
  BY <1>1 DEF At, InWrite
<1>4. Settled' = Settled
  BY <1>1, <1>2, <1>3 DEF Settled, RoundDown, PageWords
<1>5. IdleInv'
  BY <1>1 DEF IdleInv, LoadInv, Uploaded, Sending
<1>6. WordsInv'
  <2> SUFFICES ASSUME Live PROVE WordsInv'
    BY <1>2 DEF WordsInv
  <2>1. \A i \in 1 .. Len(rx.words) : rx.words[i] = Image(file)[Target + (i - 1)]
    BY <1>1 DEF LoadInv, WordsInv
  <2>2. startAddr <= Target
    BY <1>1, <1>3, AtIs DEF InWrite
  <2>3. QED
    BY <1>1, <1>2, <2>1, <2>2 DEF WordsInv, InWrite
<1>7. QED
  BY <1>1, <1>2, <1>3, <1>4, <1>5, <1>6, SamePlace DEF LoadInv

\* usbFunctionWrite() goes on, and the packet is the same.
LEMMA InsideLoads ==
    ASSUME LoadInv, bench' = bench, pc \in InWrite, pc' \in InWrite,
           UNCHANGED <<rx, wr, host>>, Full' => Full
    PROVE  /\ IdleInv' /\ WordsInv' /\ (Live' <=> Live) /\ (Uploaded' => Uploaded) /\ At' = At
           /\ UNCHANGED <<file, first, clean, startAddr>>
<1>1. /\ pc # "poll" /\ pc' # "poll"
      /\ UNCHANGED <<file, first, clean, stage, linked, startAddr, sent, ok>>
  BY DEF InWrite, host
<1>2. (Live' <=> Live) /\ (Uploaded' <=> Uploaded) /\ (Sending' <=> Sending) /\ At' = At
  BY <1>1 DEF Live, Sending, Uploaded, At
<1>3. IdleInv'
  BY <1>2 DEF IdleInv, LoadInv
<1>4. WordsInv'
  BY <1>1, <1>2 DEF WordsInv, LoadInv
<1>5. QED
  BY <1>1, <1>2, <1>3, <1>4

LEMMA PageBeginLoads ==
    ASSUME IInv, LoadInv, PageErase \/ PageWrite, bench' = bench
    PROVE  LoadInv'
<1>1. /\ pc \in InWrite /\ pc' \in InWrite
      /\ UNCHANGED <<bench, flash, buf, rx, wr, host>>
      /\ (Full' <=> Full)
  BY DEF PageErase, PageWrite, InWrite, Full
<1>2. /\ IdleInv' /\ WordsInv' /\ (Live' <=> Live) /\ (Uploaded' => Uploaded) /\ At' = At
      /\ UNCHANGED <<file, first, clean, startAddr>>
  BY <1>1, InsideLoads
<1>3. Settled' = Settled
  BY <1>1, <1>2 DEF Settled, RoundDown, PageWords
<1>4. QED
  BY <1>1, <1>2, <1>3, SamePlace DEF LoadInv

LEMMA PageErasedLoads ==
    ASSUME IInv, LoadInv, PageErased, bench' = bench
    PROVE  LoadInv'
<1>1. /\ pc = "erasing" /\ pc' = "fill" /\ pc \in InWrite /\ pc' \in InWrite
      /\ UNCHANGED <<bench, buf, rx, wr, host>> /\ ~ Full /\ ~ Full'
      /\ flash' = PageReads(wr.address, Erased)
  BY DEF PageErased, InWrite, Full
<1>2. /\ IdleInv' /\ WordsInv' /\ (Live' <=> Live) /\ (Uploaded' => Uploaded) /\ At' = At
      /\ UNCHANGED <<file, first, clean, startAddr>>
  BY <1>1, InsideLoads
<1>3. PageWords' = PageWords
  BY <1>1 DEF PageWords
<1>4. BufInv'
  <2>1. ASSUME Live', clean', Writable(At') PROVE PartBuf'
    <3>1. PartBuf
      BY <2>1, <1>1, <1>2 DEF LoadInv, BufInv
    <3>2. QED
      BY <3>1, <1>1, <1>2, <1>3 DEF PartBuf, RoundDown
  <2>2. QED
    BY <2>1, <1>1 DEF BufInv
<1>5. UploadInv'
  <2> SUFFICES ASSUME Uploaded, clean, NEW a \in first .. (Settled' - 1), Writable(a)
               PROVE  flash'[a] = Image(file)[a]
    BY <1>2 DEF UploadInv, Good
  <2>1. Live /\ Settled' = Settled /\ Settled = RoundDown(wr.address, PageWords)
    BY <1>1, <1>2, <1>3, WriteIsLive DEF LoadInv, Settled, At
  <2>2. flash[a] = Image(file)[a]
    BY <2>1 DEF LoadInv, UploadInv, Good
  <2>3. flash'[a] = flash[a]
    <3>1. a \in Int /\ a < RoundDown(wr.address, PageWords) /\ 0 <= a
      <4>1. first \in Nat /\ wr.address \in Int /\ PageWords \in Nat \ {0}
        BY <2>1, <1>1, AtIs, Geometry DEF At, IInv, TypeInv, TypeHost, TypeDevice
      <4>2. RoundDown(wr.address, PageWords) \in Int
        BY <4>1, Down
      <4>3. QED
        BY <4>1, <4>2, <2>1
    <3>2. a \notin OwnPage(wr.address)
      <4>1. wr.address \in Int /\ PageWords \in Nat \ {0}
        BY <2>1, <1>1, AtIs DEF At
      <4>2. RoundDown(wr.address, PageWords) \in Int
        BY <4>1, Down
      <4>3. QED
        BY <3>1, <4>2 DEF OwnPage, PageOf
    <3>3. a \in DOMAIN flash
      <4>1. FlashWords \in Nat /\ BootStart \in 0 .. FlashWords /\ DOMAIN flash = 0 .. (FlashWords - 1)
        BY <2>1, AtIs, Geometry DEF IInv, TypeInv, TypeDevice, Words
      <4>2. QED
        BY <4>1, <3>1 DEF Writable
    <3>4. QED
      BY <3>2, <3>3, <1>1 DEF PageReads
  <2>4. QED
    BY <2>2, <2>3
<1>6. QED
  BY <1>2, <1>4, <1>5 DEF LoadInv

LEMMA PageFillLoads ==
    ASSUME IInv, LoadInv, PageFill, bench' = bench
    PROVE  LoadInv'
<1> DEFINE a == wr.address
           i == a % PageWords
           words == Tail(wr.words)
<1>1. /\ PageWords \in Nat \ {0} /\ FlashWords \in Nat /\ bench \in Bench
      /\ BootStart \in 0 .. FlashWords
  BY Geometry DEF IInv, TypeInv, TypeDevice
<1>2. /\ pc \in {"word", "fill"} /\ pc \in InWrite /\ pc # "poll" /\ wr.words # <<>> /\ a \in Nat
      /\ wr.words \in Seq(Value)
  BY <1>1 DEF PageFill, IInv, WriteInv, InWrite, TypeInv, TypeDevice
<1>3. /\ wr' = [address |-> a + 1, words |-> words]
      /\ pc' = IF (a + 1) % PageWords = 0 THEN "write" ELSE NextWord(words)
      /\ UNCHANGED <<bench, flash, rx, host>>
  BY DEF PageFill
<1>4. /\ UNCHANGED <<file, first, clean, stage, linked, startAddr, sent, ok>>
      /\ pc' \in {"write", "word", "end"} /\ pc' \in InWrite /\ pc' # "poll"
      /\ Full' <=> (a + 1) % PageWords = 0
  BY <1>3 DEF host, NextWord, InWrite, Full
<1>5. /\ (Live' <=> Live) /\ (Uploaded' <=> Uploaded) /\ (Sending' <=> Sending) /\ ~ Full
      /\ At = a /\ At' = a + 1 /\ PageWords' = PageWords
  BY <1>2, <1>3, <1>4 DEF Live, Sending, Uploaded, Full, At, PageWords
<1>6. /\ Head(wr.words) = wr.words[1] /\ wr.words[1] \in Value
      /\ Len(wr.words) \in Nat /\ Len(words) = Len(wr.words) - 1 /\ 1 \in 1 .. Len(wr.words)
      /\ \A j \in 1 .. Len(words) : words[j] = wr.words[j + 1] /\ j + 1 \in 1 .. Len(wr.words)
  <2>1. Len(wr.words) \in Nat /\ Len(wr.words) > 0
    BY <1>2, EmptySeq
  <2>2. Head(wr.words) = wr.words[1] /\ Len(words) = Len(wr.words) - 1
    BY <1>2, <2>1
  <2>3. \A j \in 1 .. Len(words) : words[j] = wr.words[j + 1]
    BY <1>2, <2>1, <2>2
  <2>4. wr.words[1] \in Value
    BY <1>2, <2>1, ElementOfSeq
  <2>5. QED
    BY <2>1, <2>2, <2>3, <2>4
<1>7. i \in 0 .. (PageWords - 1) /\ a \in Int
  <2>1. a \in Int
    BY <1>2
  <2> HIDE DEF a
  <2>2. QED
    BY <2>1, <1>1, Remainder
<1>8. PICK v \in {Head(wr.words), buf[i]} \ {Unfilled} : buf' = [buf EXCEPT ![i] = v]
  BY DEF PageFill
<1>9. IdleInv'
  BY <1>3, <1>5 DEF IdleInv, LoadInv
<1> HIDE DEF a, i, words
<1>10. WordsInv'
  <2> SUFFICES ASSUME Live PROVE WordsInv'
    BY <1>5 DEF WordsInv
  <2>1. /\ \A j \in 1 .. Len(wr.words) : wr.words[j] = Image(file)[a + (j - 1)]
        /\ startAddr <= a
    BY <1>2 DEF LoadInv, WordsInv, a
  <2>2. ASSUME NEW j \in 1 .. Len(words)
        PROVE  words[j] = Image(file)[(a + 1) + (j - 1)]
    <3>1. words[j] = wr.words[j + 1] /\ j + 1 \in 1 .. Len(wr.words)
      BY <1>6
    <3>2. a + ((j + 1) - 1) = (a + 1) + (j - 1)
      BY <1>2
    <3>3. QED
      BY <3>1, <3>2, <2>1
  <2>3. startAddr <= a + 1 /\ startAddr < a + 1
    BY <2>1, <1>2, AtIs
  <2>4. QED
    BY <1>3, <1>4, <1>5, <2>2, <2>3 DEF WordsInv
<1>11. RoundDown(a, PageWords) = IF (a + 1) % PageWords = 0 THEN (a + 1) - PageWords
                                 ELSE RoundDown(a + 1, PageWords)
  <2>1. CASE (a + 1) % PageWords = 0
    <3>1. ((a + 1) - PageWords) % PageWords = 0 /\ (a + 1) - PageWords \in Int
      BY <2>1, <1>1, <1>2, SelfMultiple, SumOfMultiples, SMTT(60)
    <3>2. (a + 1) - PageWords <= a /\ a < ((a + 1) - PageWords) + PageWords
      BY <1>1, <1>2
    <3>3. QED
      BY <2>1, <3>1, <3>2, <1>1, <1>2, DownIs, SMTT(60)
  <2>2. CASE (a + 1) % PageWords # 0
    BY <2>2, <1>1, <1>2, NextInPage
  <2>3. QED
    BY <2>1, <2>2
<1>12. Settled' = Settled
  <2>1. CASE ~ Live
    BY <2>1, <1>4, <1>5 DEF Settled
  <2>2. CASE Live
    <3>1. Settled = RoundDown(a, PageWords)
      BY <2>2, <1>5 DEF Settled
    <3>2. Settled' = IF (a + 1) % PageWords = 0 THEN (a + 1) - PageWords
                     ELSE RoundDown(a + 1, PageWords)
      BY <2>2, <1>4, <1>5 DEF Settled
    <3>3. QED
      BY <3>1, <3>2, <1>11
  <2>3. QED
    BY <2>1, <2>2
<1>13. UploadInv'
  BY <1>3, <1>4, <1>5, <1>12 DEF UploadInv, LoadInv, Good, Writable
<1>14. ASSUME Live, clean, Writable(a)
       PROVE  \A j \in 0 .. (PageWords - 1) :
                  buf'[j] = IF j <= i THEN Image(file)[RoundDown(a, PageWords) + j] ELSE Unfilled
  <2>1. \A j \in 0 .. (PageWords - 1) :
            buf[j] = IF j < i THEN Image(file)[RoundDown(a, PageWords) + j] ELSE Unfilled
    BY <1>14, <1>5 DEF LoadInv, BufInv, PartBuf, i
  <2>2. buf[i] = Unfilled
    BY <2>1, <1>7
  <2>3. v = wr.words[1]
    BY <2>2, <1>6, <1>8
  <2>4. wr.words[1] = Image(file)[a]
    <3>1. wr.words[1] = Image(file)[a + (1 - 1)]
      BY <1>2, <1>6, <1>14 DEF LoadInv, WordsInv, a
    <3>2. a + (1 - 1) = a
      BY <1>2
    <3>3. QED
      BY <3>1, <3>2
  <2>5. RoundDown(a, PageWords) + i = a
    <3>1. RoundDown(a, PageWords) \in Int /\ i = a - RoundDown(a, PageWords)
      BY <1>1, <1>7, Down DEF i
    <3>2. QED
      BY <3>1, <1>7
  <2>6. DOMAIN buf = 0 .. (PageWords - 1)
    BY DEF IInv, TypeInv, TypeDevice
  <2>7. ASSUME NEW j \in 0 .. (PageWords - 1)
        PROVE  buf'[j] = IF j <= i THEN Image(file)[RoundDown(a, PageWords) + j] ELSE Unfilled
    <3>1. CASE j = i
      BY <3>1, <2>3, <2>4, <2>5, <2>6, <1>7, <1>8
    <3>2. CASE j # i
      <4>1. buf'[j] = buf[j]
        BY <3>2, <2>6, <1>8
      <4>2. j <= i <=> j < i
        BY <3>2, <1>7
      <4>3. QED
        BY <4>1, <4>2, <2>1
    <3>3. QED
      BY <3>1, <3>2
  <2>8. QED
    BY <2>7
<1>15. BufInv'
  <2>1. ASSUME Live, clean, (a + 1) % PageWords = 0, Writable((a + 1) - 1)
        PROVE  FullBuf'
    <3>1. (a + 1) - 1 = a
      BY <1>2
    <3>2. i = PageWords - 1
      <4>1. RoundDown(a, PageWords) = (a + 1) - PageWords
        BY <2>1, <1>11
      <4>2. i = a - RoundDown(a, PageWords)
        BY <1>1, <1>7, Down DEF i
      <4>3. QED
        BY <4>1, <4>2, <1>1, <1>2
    <3>3. \A j \in 0 .. (PageWords - 1) : j <= i
      BY <3>2, <1>1
    <3>4. \A j \in 0 .. (PageWords - 1) : buf'[j] = Image(file)[((a + 1) - PageWords) + j]
      BY <2>1, <3>1, <3>3, <1>11, <1>14
    <3>5. QED
      BY <3>4, <1>4, <1>5 DEF FullBuf
  <2>2. ASSUME Live, clean, (a + 1) % PageWords # 0, Writable(a + 1)
        PROVE  PartBuf'
    <3>1. Writable(a)
      BY <2>2, <1>1, <1>2 DEF Writable
    <3>2. (a + 1) % PageWords = i + 1
      BY <2>2, <1>1, <1>7, NextInPage DEF i
    <3>3. \A j \in 0 .. (PageWords - 1) : j <= i <=> j < (a + 1) % PageWords
      BY <3>2, <1>7
    <3>4. \A j \in 0 .. (PageWords - 1) :
              buf'[j] = IF j < (a + 1) % PageWords THEN Image(file)[RoundDown(a + 1, PageWords) + j]
                        ELSE Unfilled
      BY <2>2, <3>1, <3>3, <1>11, <1>14
    <3>5. QED
      BY <3>4, <1>4, <1>5 DEF PartBuf
  <2>3. QED
    BY <2>1, <2>2, <1>4, <1>5 DEF BufInv, Writable
<1>16. QED
  BY <1>9, <1>10, <1>13, <1>15 DEF LoadInv

LEMMA PageWrittenLoads ==
    ASSUME IInv, LoadInv, PageWritten, bench' = bench
    PROVE  LoadInv'
<1> DEFINE a == wr.address
           d == a - PageWords
<1>1. /\ pc = "writing" /\ pc' \in {"word", "end"} /\ pc \in InWrite /\ pc' \in InWrite
      /\ UNCHANGED <<bench, rx, wr, host>> /\ Full /\ ~ Full'
      /\ flash' = PageProgrammed(a - 1)
      /\ buf' = EmptyBuf \/ ~ Writable(a - 1)
  BY DEF PageWritten, NextWord, InWrite, Full
<1>2. /\ IdleInv' /\ WordsInv' /\ (Live' <=> Live) /\ (Uploaded' => Uploaded) /\ At' = At
      /\ UNCHANGED <<file, first, clean, startAddr>>
  BY <1>1, InsideLoads
<1>3. /\ PageWords' = PageWords /\ At = a /\ bench \in Bench
      /\ PageWords \in Nat \ {0} /\ a \in Nat /\ a % PageWords = 0
      /\ FlashWords \in Nat /\ BootStart \in 0 .. FlashWords
      /\ DOMAIN flash = Words
  BY <1>1, Geometry DEF PageWords, At, IInv, TypeInv, TypeDevice, WriteInv
<1>4. RoundDown(a, PageWords) = a /\ d \in Int
  BY <1>3 DEF RoundDown
<1>5. BufInv'
  <2>1. ASSUME Live', clean', Writable(At') PROVE PartBuf'
    <3>1. Writable(a - 1)
      BY <2>1, <1>2, <1>3 DEF Writable
    <3>2. buf' = EmptyBuf /\ EmptyBuf = [i \in 0 .. (PageWords - 1) |-> Unfilled]
      BY <3>1, <1>1 DEF EmptyBuf
    <3>3. \A i \in 0 .. (PageWords - 1) : ~ (i < a % PageWords)
      BY <1>3
    <3>4. \A i \in 0 .. (PageWords - 1) :
              buf'[i] = IF i < a % PageWords THEN Image(file)[RoundDown(a, PageWords) + i] ELSE Unfilled
      BY <3>2, <3>3
    <3>5. QED
      BY <3>4, <1>2, <1>3 DEF PartBuf
  <2>2. QED
    BY <2>1, <1>1 DEF BufInv
<1>6. UploadInv'
  <2> SUFFICES ASSUME Uploaded, clean, NEW w \in first .. (Settled' - 1), Writable(w)
               PROVE  flash'[w] = Image(file)[w]
    BY <1>2 DEF UploadInv, Good
  <2>1. Live /\ Settled' = a /\ Settled = d
    BY <1>1, <1>2, <1>3, <1>4, WriteIsLive DEF LoadInv, Settled
  <2>2. w \in Nat /\ w < a /\ first \in Nat /\ first <= w
    <3>1. first \in Nat
      BY <1>3 DEF IInv, TypeInv, TypeHost
    <3>2. QED
      BY <3>1, <2>1, <1>3
  <2>3. w \in Words
    BY <2>2, <1>3 DEF Words, Writable
  <2>4. flash'[w] = IF w \in OwnPage(a - 1) THEN Programmed(flash[w], buf[w % PageWords]) ELSE flash[w]
    BY <2>3, <1>1, <1>3 DEF PageProgrammed
  <2>5. PageOf(a - 1) = d .. (a - 1)
    <3>1. (a - 1) + 1 = a /\ a - 1 \in Int
      BY <1>3
    <3>2. QED
      BY <3>1, <1>3, NextInPage
  <2> HIDE DEF a
  <2>6. CASE w < d
    <3>1. w \in first .. (d - 1)
      BY <2>2, <2>6, <1>3, <1>4
    <3>2. flash[w] = Image(file)[w]
      <4>1. w \in first .. (Settled - 1)
        BY <3>1, <2>1
      <4>2. QED
        BY <4>1 DEF LoadInv, UploadInv, Good
    <3>3. w \notin OwnPage(a - 1)
      BY <2>2, <2>5, <2>6, <1>3, <1>4 DEF OwnPage
    <3>4. QED
      BY <3>2, <3>3, <2>4
  <2>7. CASE ~ (w < d)
    <3>1. w \in PageOf(a - 1)
      BY <2>2, <2>5, <2>7, <1>3, <1>4
    <3>2. w \in OwnPage(a - 1) /\ Writable(a - 1)
      <4>1. a - 1 \in Int
        BY <1>3
      <4>2. Writable(w) <=> Writable(a - 1)
        BY <3>1, <4>1, <1>3, Page
      <4>3. QED
        BY <3>1, <4>2 DEF OwnPage
    <3>3. flash[w] = Erased
      BY <3>2, <1>1 DEF IInv, WriteInv, a
    <3>4. buf[w % PageWords] = Image(file)[w]
      <4>1. FullBuf
        BY <3>2, <2>1, <1>1, <1>3 DEF LoadInv, BufInv
      <4>2. w % PageWords \in 0 .. (PageWords - 1)
        BY <2>2, <1>3, Remainder
      <4>3. w % PageWords = w - d
        <5>1. d % PageWords = 0
          <6>1. a \in Int /\ PageWords \in Int /\ PageWords % PageWords = 0
            BY <1>3, SelfMultiple
          <6>2. QED
            BY <6>1, <1>3, SumOfMultiples
        <5>2. d <= w /\ w < d + PageWords /\ w \in Int
          BY <2>2, <2>7, <1>3, <1>4
        <5> HIDE DEF d
        <5>3. QED
          BY <5>1, <5>2, <1>3, <1>4, DownIs
      <4>4. d + (w % PageWords) = w
        BY <4>3, <2>2, <1>4
      <4>5. buf[w % PageWords] = Image(file)[d + (w % PageWords)]
        BY <4>1, <4>2, <1>3 DEF FullBuf
      <4>6. QED
        BY <4>4, <4>5
    <3>5. Image(file)[w] \in Value
      <4>1. Image(file) \in [0 .. (BufferWords - 1) -> Value] /\ FlashWords <= BufferWords
            /\ BufferWords \in Nat
        BY <2>1, <1>3, AtIs, Geometry
      <4>2. QED
        BY <4>1, <2>3, <1>3 DEF Words
    <3>6. QED
      BY <3>2, <3>3, <3>4, <3>5, <2>4, DataAssumption DEF Programmed
  <2>8. QED
    BY <2>6, <2>7
<1>7. QED
  BY <1>2, <1>5, <1>6 DEF LoadInv

LEMMA WriteEndLoads ==
    ASSUME IInv, LoadInv, WriteEnd, bench' = bench
    PROVE  LoadInv'
<1>1. /\ pc = "end" /\ pc' = "poll" /\ pc \in InWrite /\ Waiting /\ ~ Waiting' /\ wr.words = <<>>
      /\ UNCHANGED <<bench, flash, buf, file, first, clean, stage, linked, startAddr, sent, ok>>
  BY DEF WriteEnd, IInv, LinkInv, WriteInv, InWrite, None, host
<1>2. (Live' <=> Live) /\ (Uploaded' => Uploaded) /\ ~ Full /\ ~ Full'
  BY <1>1 DEF Live, Sending, Uploaded, Full
<1>3. ASSUME Live PROVE At' = At
  <2>1. wr.address + 0 = startAddr + sent /\ stage # "block"
    BY <1>1, <1>3 DEF IInv, ReportInv, Live, Sending, None, InWrite
  <2>2. wr.address \in Int
    BY <1>1, <1>3, AtIs DEF At
  <2>3. QED
    BY <2>1, <2>2, <1>1 DEF At, InWrite
<1>4. Settled' = Settled
  BY <1>1, <1>2, <1>3 DEF Settled, RoundDown, PageWords
<1>5. IdleInv' /\ WordsInv'
  BY <1>1 DEF IdleInv, WordsInv, InWrite
<1>6. QED
  BY <1>1, <1>2, <1>3, <1>4, <1>5, SamePlace DEF LoadInv

(* What the flash holds below Settled survives what happens to the words that  *)
(* are not settled.                                                            *)
LEMMA SettledIs ==
    ASSUME IInv, LoadInv, Live
    PROVE  /\ Settled \in Int /\ RoundDown(startAddr, PageWords) \in Int
           /\ RoundDown(startAddr, PageWords) <= Settled
<1>1. /\ At \in Nat /\ startAddr \in Nat /\ PageWords \in Nat \ {0}
      /\ Full => At % PageWords = 0 /\ At = wr.address
      /\ pc \notin InWrite => startAddr <= At
  BY AtIs
<1>2. startAddr <= At /\ (Full => startAddr < At)
  <2>1. CASE pc \in InWrite
    BY <2>1 DEF LoadInv, WordsInv, At
  <2>2. CASE pc \notin InWrite
    BY <2>2, <1>1 DEF Full, InWrite
  <2>3. QED
    BY <2>1, <2>2
<1>3. startAddr \in Int /\ At \in Int
  BY <1>1
<1>4. /\ RoundDown(startAddr, PageWords) \in Int /\ RoundDown(startAddr, PageWords) % PageWords = 0
      /\ RoundDown(startAddr, PageWords) <= startAddr
  BY <1>1, <1>3, Down
<1>5. CASE Full
  <2>1. RoundDown(startAddr, PageWords) + PageWords <= At
    BY <1>1, <1>2, <1>3, <1>5, DownBetween
  <2>2. Settled = At - PageWords
    BY <1>5 DEF Settled
  <2>3. QED
    BY <2>1, <2>2, <1>1, <1>4
<1>6. CASE ~ Full
  <2>1. Settled = RoundDown(At, PageWords) /\ RoundDown(At, PageWords) \in Int
    BY <1>1, <1>3, <1>6, Down DEF Settled
  <2>2. RoundDown(startAddr, PageWords) <= At
    BY <1>2, <1>3, <1>4
  <2>3. RoundDown(startAddr, PageWords) <= RoundDown(At, PageWords)
    BY <2>2, <1>1, <1>3, <1>4, DownBetween
  <2>4. QED
    BY <2>1, <2>3, <1>4
<1>7. QED
  BY <1>5, <1>6

LEMMA PowerLossLoads ==
    ASSUME IInv, LoadInv, PowerLoss, bench' = bench
    PROVE  LoadInv'
<1>1. /\ pc' = "off" /\ ~ Waiting' /\ linked' = FALSE /\ flash' = Interrupted
      /\ UNCHANGED <<bench, file, first, clean, stage, startAddr, ok>>
  BY DEF PowerLoss, None
<1>2. ~ Live' /\ (Uploaded' <=> Uploaded) /\ Settled' = RoundDown(startAddr, PageWords)
  BY <1>1 DEF Live, Uploaded, Settled, RoundDown, PageWords
<1>3. IdleInv' /\ WordsInv' /\ BufInv'
  BY <1>1, <1>2 DEF IdleInv, WordsInv, BufInv
<1>4. UploadInv'
  <2> SUFFICES ASSUME Uploaded, clean,
                      NEW w \in first .. (RoundDown(startAddr, PageWords) - 1), Writable(w)
               PROVE  flash'[w] = Image(file)[w]
    BY <1>1, <1>2 DEF UploadInv, Good
  <2>1. /\ PageWords \in Nat \ {0} /\ FlashWords \in Nat /\ BootStart \in 0 .. FlashWords
        /\ first \in Nat /\ startAddr \in Int /\ bench \in Bench /\ DOMAIN flash = Words
    BY Geometry DEF IInv, TypeInv, TypeDevice, TypeHost
  <2>2. RoundDown(startAddr, PageWords) \in Int
    BY <2>1, Down
  <2>3. w \in Words /\ w \in Int /\ w < RoundDown(startAddr, PageWords) /\ first <= w
    BY <2>1, <2>2 DEF Words, Writable
  <2>4. ASSUME Live PROVE w < Settled /\ Settled \in Int
    BY <2>2, <2>3, <2>4, SettledIs
  <2>5. flash[w] = Image(file)[w]
    <3>1. w \in first .. (Settled - 1)
      <4>1. CASE Live
        BY <4>1, <2>1, <2>3, <2>4
      <4>2. CASE ~ Live
        BY <4>2 DEF Settled
      <4>3. QED
        BY <4>1, <4>2
    <3>2. QED
      BY <3>1 DEF LoadInv, UploadInv, Good
  <2>6. CASE pc = "erasing"
    <3>1. Live /\ wr.address \in Int /\ Settled = RoundDown(wr.address, PageWords)
      <4>1. Live /\ At = wr.address /\ ~ Full
        BY <2>6, WriteIsLive DEF LoadInv, At, InWrite, Full
      <4>2. wr.address \in Int
        BY <4>1, AtIs
      <4>3. QED
        BY <4>1, <4>2 DEF Settled
    <3>2. w \notin OwnPage(wr.address)
      BY <3>1, <2>3, <2>4 DEF OwnPage, PageOf
    <3>3. flash'[w] = flash[w]
      BY <3>2, <2>1, <2>3, <2>6, <1>1 DEF Interrupted, PageReads
    <3>4. QED
      BY <3>3, <2>5
  <2>7. CASE pc = "writing"
    <3>1. Live /\ wr.address \in Int /\ wr.address % PageWords = 0 /\ Settled = wr.address - PageWords
      <4>1. Live /\ At = wr.address /\ Full
        BY <2>7, WriteIsLive DEF LoadInv, At, InWrite, Full
      <4>2. wr.address \in Int /\ wr.address % PageWords = 0
        BY <4>1, AtIs
      <4>3. QED
        BY <4>1, <4>2 DEF Settled
    <3>2. w \notin OwnPage(wr.address - 1)
      <4>1. wr.address - 1 \in Int /\ (wr.address - 1) + 1 = wr.address
        BY <3>1
      <4>2. PageOf(wr.address - 1) = (wr.address - PageWords) .. (wr.address - 1)
        BY <4>1, <3>1, <2>1, NextInPage
      <4>3. QED
        BY <4>2, <3>1, <2>1, <2>3, <2>4 DEF OwnPage
    <3>3. PageProgrammed(wr.address - 1)[w] = flash[w]
      BY <3>2, <2>1, <2>3 DEF PageProgrammed
    <3>4. flash'[w] = flash[w]
      BY <3>3, <2>1, <2>3, <2>7, <1>1 DEF Interrupted
    <3>5. QED
      BY <3>4, <2>5
  <2>8. CASE pc \notin {"erasing", "writing"}
    BY <2>5, <2>8, <1>1 DEF Interrupted
  <2>9. QED
    BY <2>6, <2>7, <2>8
<1>5. QED
  BY <1>3, <1>4 DEF LoadInv

LEMMA GoneLoads ==
    ASSUME IInv, LoadInv, LeaveBootloader \/ Reset, bench' = bench
    PROVE  LoadInv'
<1>1. /\ pc' \in {"app", "poll", "exit"} /\ pc \in {"exit", "off"} /\ ~ Waiting' /\ linked' = FALSE
      /\ UNCHANGED <<bench, flash, file, first, clean, stage, startAddr, ok>>
      /\ ~ Live
  BY DEF LeaveBootloader, Reset, None, host, IInv, LinkInv, ReportInv, OnBus, InWrite, Live
<1>2. ~ Live' /\ (Uploaded' <=> Uploaded) /\ Settled' = Settled
  BY <1>1 DEF Live, Uploaded, Settled, RoundDown, PageWords
<1>3. IdleInv' /\ WordsInv' /\ BufInv'
  BY <1>1, <1>2 DEF IdleInv, WordsInv, BufInv
<1>4. UploadInv'
  BY <1>1, <1>2 DEF UploadInv, LoadInv, Good, Writable
<1>5. QED
  BY <1>3, <1>4 DEF LoadInv

LEMMA StartOrFailLoads ==
    ASSUME \/ \E f \in File \union {NoFile}, l \in BOOLEAN : Start(f, l)
           \/ Failed \/ Abort
    PROVE  LoadInv'
<1>1. ~ Live' /\ ~ Uploaded'
  BY DEF Start, Failed, Abort, Close, Live, Sending, Uploaded
<1>2. QED
  BY <1>1 DEF LoadInv, IdleInv, WordsInv, BufInv, UploadInv

LEMMA SendSetupLoads ==
    ASSUME IInv, DoneInv, LoadInv, SendSetup, bench' = bench
    PROVE  LoadInv'
<1>1. /\ rx = None /\ ~ Waiting /\ ~ Waiting' /\ linked /\ sent' = 0
      /\ UNCHANGED <<flash, buf, pc, file, first, clean, linked, startAddr, ok, wr>>
      /\ \/ stage = "ask" /\ stage' = "size"
         \/ stage = "block" /\ stage' = "data"
         \/ stage = "leave" /\ stage' = "leaving"
  BY DEF SendSetup, Send, Setup, None
<1>2. pc \notin InWrite /\ ~ Full /\ ~ Full'
  BY <1>1 DEF IInv, LinkInv, None, Full, InWrite
<1>3. (Live' <=> Live) /\ (Uploaded' => Uploaded)
  BY <1>1 DEF Live, Sending, Uploaded, DoneInv
<1>4. ASSUME Live PROVE At' = At
  <2>1. startAddr + 0 = startAddr
    BY <1>4, AtIs
  <2>2. stage = "block" /\ stage' = "data"
    BY <1>1, <1>4 DEF Live, Sending
  <2>3. At = startAddr
    BY <2>2, <1>1, <1>2 DEF At
  <2>4. At' = startAddr + 0
    BY <2>2, <1>1, <1>2 DEF At
  <2>5. QED
    BY <2>1, <2>3, <2>4
<1>5. Settled' = Settled
  BY <1>1, <1>2, <1>3, <1>4 DEF Settled, RoundDown, PageWords
<1>6. IdleInv' /\ WordsInv'
  BY <1>1, <1>2 DEF IdleInv, WordsInv
<1>7. QED
  BY <1>1, <1>2, <1>3, <1>4, <1>5, <1>6, SamePlace DEF LoadInv

LEMMA ReadInfoLoads ==
    ASSUME IInv, DoneInv, LoadInv, ReadInfo, bench' = bench
    PROVE  LoadInv'
<1>1. /\ stage = "size" /\ linked /\ rx = None /\ ~ Waiting /\ ~ Waiting' /\ pc = "poll" /\ pc' = "poll"
      /\ UNCHANGED <<bench, flash, buf, file, linked>> /\ ~ Full'
      /\ ok' = ok \/ ok' = FALSE
  BY DEF ReadInfo, Answered, Close, IInv, LinkInv, None, Full
<1>2. IdleInv' /\ WordsInv'
  BY <1>1 DEF IdleInv, WordsInv, InWrite
<1>3. CASE endAddr > FlashWords - Reserve
  <2>1. ~ Live' /\ ~ Uploaded'
    BY <1>3 DEF ReadInfo, Close, Live, Sending, Uploaded
  <2>2. QED
    BY <2>1, <1>2 DEF LoadInv, BufInv, UploadInv
<1>4. CASE ~ (endAddr > FlashWords - Reserve)
  <2>1. /\ startAddr' = RoundDown(startAddr, Unit) /\ stage' = "block" /\ first' = startAddr'
        /\ clean' = (buf = EmptyBuf)
    BY <1>4 DEF ReadInfo
  <2>2. /\ PageWords \in Nat \ {0} /\ Unit \in Nat \ {0} /\ Unit % PageWords = 0 /\ startAddr \in Int
    BY Geometry DEF IInv, TypeInv, TypeDevice, TypeHost
  <2>3. startAddr' \in Int /\ startAddr' % PageWords = 0
    <3>1. startAddr' \in Int /\ startAddr' % Unit = 0
      BY <2>1, <2>2, Down
    <3>2. QED
      BY <3>1, <2>2, MultipleOfMultiple
  <2>4. At' = startAddr' /\ PageWords' = PageWords /\ Live'
    BY <2>1, <1>1 DEF At, InWrite, PageWords, Live, Sending
  <2>5. RoundDown(startAddr', PageWords) = startAddr'
    <3>1. ASSUME NEW s \in Int, s % PageWords = 0 PROVE RoundDown(s, PageWords) = s
      <4>1. s <= s /\ s < s + PageWords
        BY <2>2
      <4>2. QED
        BY <4>1, <3>1, <2>2, DownIs
    <3>2. QED
      BY <3>1, <2>3
  <2>6. BufInv'
    <3>1. ASSUME clean' PROVE PartBuf'
      <4>1. buf' = [i \in 0 .. (PageWords - 1) |-> Unfilled]
        BY <3>1, <2>1, <1>1 DEF EmptyBuf
      <4>2. \A i \in 0 .. (PageWords - 1) : ~ (i < startAddr' % PageWords)
        BY <2>3
      <4>3. \A i \in 0 .. (PageWords - 1) :
                buf'[i] = IF i < startAddr' % PageWords
                          THEN Image(file')[RoundDown(startAddr', PageWords) + i] ELSE Unfilled
        BY <4>1, <4>2
      <4>4. QED
        BY <4>3, <2>4 DEF PartBuf
    <3>2. QED
      BY <3>1, <1>1 DEF BufInv
  <2>7. UploadInv'
    <3>1. Settled' = startAddr'
      BY <2>4, <2>5, <1>1 DEF Settled
    <3>2. first' .. (Settled' - 1) = {}
      BY <3>1, <2>1, <2>3
    <3>3. QED
      BY <3>2 DEF UploadInv
  <2>8. QED
    BY <2>6, <2>7, <1>2 DEF LoadInv
<1>5. QED
  BY <1>3, <1>4

LEMMA SendDataLoads ==
    ASSUME IInv, IInv', LoadInv, SendData, bench' = bench
    PROVE  LoadInv'
<1>1. /\ stage = "data" /\ linked /\ rx = None /\ rx' = NextPacket /\ ~ Waiting
      /\ stage' \in {"data", "status"}
      /\ sent' = sent + Cut
      /\ UNCHANGED <<bench, flash, buf, pc, file, startAddr, linked, ok, first, clean,
                     offset, currentAddress>>
  BY DEF SendData, Send, None
<1>2. /\ Cut \in Nat /\ sent \in Nat /\ sent + Cut <= BlockWords
      /\ Waiting' /\ rx'.header = IF sent = 0 THEN startAddr ELSE NoHeader
      /\ Len(rx'.words) = Cut
      /\ \A i \in 1 .. Cut : rx'.words[i] = Image(file)[(startAddr + sent) + (i - 1)]
  BY <1>1, PacketIs
<1>3. pc = "poll" /\ ~ Full /\ ~ Full' /\ Live /\ Live' /\ (Uploaded' => Uploaded)
  BY <1>1 DEF IInv, ReportInv, LinkInv, None, Full, InWrite, Live, Sending, Uploaded
<1>4. Target' = startAddr + sent
  <2>1. startAddr \in Nat
    BY <1>3, AtIs
  <2>2. Target' + Len(rx'.words) = startAddr' + sent'
    BY <1>1, <1>2, <1>3 DEF IInv, ReportInv, Live, Sending, None
  <2>3. Target' \in Int
    <3>1. Waiting' /\ pc' = "poll" /\ rx'.header \in {NoHeader} \union (0 .. FlashWords)
          /\ currentAddress' \in 0 .. FlashWords /\ FlashWords \in Nat
      BY <1>1, <1>2, <1>3, Geometry DEF IInv, TypeInv, TypeDevice, Packet
    <3>2. QED
      BY <3>1 DEF Target, NoHeader
  <2>4. ASSUME NEW t \in Int, NEW n \in Nat, t + n = startAddr + (sent + n)
        PROVE  t = startAddr + sent
    BY <2>1, <2>4, <1>2
  <2>5. Target' + Cut = startAddr + (sent + Cut)
    BY <2>2, <1>1, <1>2
  <2>6. QED
    BY <2>3, <2>4, <2>5, <1>2
<1>5. At' = At
  <2>1. At = startAddr + sent
    BY <1>1, <1>3 DEF At, InWrite
  <2>2. At' = Target'
    BY <1>1, <1>2, <1>3 DEF At, InWrite
  <2>3. QED
    BY <2>1, <2>2, <1>4
<1>6. Settled' = Settled
  BY <1>1, <1>3, <1>5 DEF Settled, RoundDown, PageWords
<1>7. IdleInv' /\ WordsInv'
  BY <1>1, <1>2, <1>3, <1>4 DEF IdleInv, WordsInv, InWrite, Live
<1>8. QED
  BY <1>1, <1>3, <1>5, <1>6, <1>7, SamePlace DEF LoadInv

LEMMA ReadStatusLoads ==
    ASSUME IInv, LoadInv, ReadStatus, bench' = bench
    PROVE  LoadInv'
<1>1. /\ stage = "status" /\ linked /\ rx = None /\ ~ Waiting /\ ~ Waiting'
      /\ startAddr' = startAddr + BlockWords /\ stage' \in {"block", "leave", "closed"}
      /\ UNCHANGED <<bench, flash, buf, pc, file, sent, linked, first, clean, wr>>
      /\ file # NoFile
  <2>1. file \in File /\ bench \in Bench
    BY DEF ReadStatus, IInv, LoopInv, Sending, TypeInv, TypeDevice
  <2>2. NoFile \notin File
    BY <2>1, DataAssumption DEF File
  <2>3. QED
    BY <2>1, <2>2 DEF ReadStatus, Answered, Close, None
<1>2. pc = "poll" /\ ~ Full /\ ~ Full' /\ Live /\ (Live' => stage' = "block") /\ Uploaded
      /\ (~ Live' => stage' # "block")
  BY <1>1 DEF IInv, ReportInv, LinkInv, None, Full, InWrite, Live, Sending, Uploaded
<1>3. At = startAddr'
  <2>1. sent = BlockWords
    BY <1>1 DEF IInv, LoopInv, Sending
  <2>2. QED
    BY <2>1, <1>1, <1>2 DEF At, InWrite
<1>4. ASSUME Live' PROVE At' = At
  BY <1>1, <1>2, <1>3, <1>4 DEF At, InWrite
<1>5. Settled' = Settled
  BY <1>1, <1>2, <1>3, <1>4 DEF Settled, RoundDown, PageWords
<1>6. IdleInv' /\ WordsInv'
  BY <1>1, <1>2 DEF IdleInv, WordsInv, InWrite
<1>7. QED
  BY <1>1, <1>2, <1>4, <1>5, <1>6, SamePlace DEF LoadInv

LEMMA LeftLoads ==
    ASSUME IInv, LoadInv, Left, bench' = bench
    PROVE  LoadInv'
<1>1. /\ stage \in {"leave", "leaving"} /\ stage' = "closed"
      /\ UNCHANGED <<bench, flash, rx, file, first, clean, startAddr>>
  BY DEF Left, Close
<1>2. ~ Live /\ ~ Live' /\ (Uploaded' => Uploaded) /\ ~ Sending
  BY <1>1 DEF Live, Sending, Uploaded
<1>3. Settled' = Settled
  BY <1>1, <1>2 DEF Settled, RoundDown, PageWords
<1>4. IdleInv' /\ WordsInv' /\ BufInv'
  BY <1>1, <1>2 DEF IdleInv, WordsInv, BufInv, LoadInv
<1>5. UploadInv'
  BY <1>1, <1>2, <1>3 DEF UploadInv, LoadInv, Good, Writable
<1>6. QED
  BY <1>4, <1>5 DEF LoadInv

LEMMA StutterLoads ==
    ASSUME LoadInv, UNCHANGED <<vars, bench>>
    PROVE  LoadInv'
<1>1. /\ UNCHANGED <<bench, flash, buf, file, first, clean, stage, linked, startAddr, sent, ok, pc,
                     rx, wr, offset, currentAddress>>
  BY DEF vars, device, host
<1>2. /\ (Live' <=> Live) /\ (Uploaded' <=> Uploaded) /\ (Full' <=> Full) /\ (Sending' <=> Sending)
      /\ At' = At /\ Target' = Target
  BY <1>1 DEF Live, Sending, Uploaded, Full, At, Target
<1>3. Settled' = Settled
  BY <1>1, <1>2 DEF Settled, RoundDown, PageWords
<1>4. IdleInv' /\ WordsInv'
  BY <1>1, <1>2 DEF IdleInv, WordsInv, LoadInv
<1>5. QED
  BY <1>1, <1>2, <1>3, <1>4, SamePlace DEF LoadInv

LEMMA LoadStep ==
    ASSUME IInv, DoneInv, LoadInv, [Next]_<<vars, bench>>
    PROVE  LoadInv'
<1>1. CASE Next
  <2>1. bench' = bench /\ IInv'
    BY <1>1, IInvStep DEF Next
  <2>2. CASE Write
    BY <2>1, <2>2, WriteBeginLoads, PageBeginLoads, PageErasedLoads, PageFillLoads, PageWrittenLoads,
       WriteEndLoads DEF Write
  <2>3. CASE ProcessSetup \/ LeaveBootloader \/ Reset \/ PowerLoss
    BY <2>1, <2>3, ProcessSetupLoads, GoneLoads, PowerLossLoads
  <2>4. CASE SendSetup \/ ReadInfo \/ SendData \/ ReadStatus \/ Left
    BY <2>1, <2>4, SendSetupLoads, ReadInfoLoads, SendDataLoads, ReadStatusLoads, LeftLoads
  <2>5. CASE Failed \/ Abort \/ \E f \in File \union {NoFile}, l \in BOOLEAN : Start(f, l)
    BY <2>5, StartOrFailLoads
  <2>6. QED
    BY <1>1, <2>2, <2>3, <2>4, <2>5 DEF Next, Firmware, Transfer, Disturbance
<1>2. CASE UNCHANGED <<vars, bench>>
  BY <1>2, StutterLoads
<1>3. QED
  BY <1>1, <1>2

(* Every complete page of the blocks the host has got a status for holds the   *)
(* words of the file: whatever records they come from and however pages and    *)
(* blocks divide, the status of a block is a promise that survives a power     *)
(* loss.                                                                       *)
THEOREM AcknowledgedIsInFlash == Spec => []AcknowledgedIsLoaded
<1>1. Init => DoneInv /\ LoadInv
  BY DEF Init, DoneInv, LoadInv, IdleInv, WordsInv, BufInv, UploadInv, Live, Sending, Ended, Uploaded
<1>2. IInv /\ DoneInv /\ LoadInv /\ [Next]_<<vars, bench>> => DoneInv' /\ LoadInv'
  BY DoneStep, LoadStep
<1>3. IInv /\ LoadInv => AcknowledgedIsLoaded
  <2> SUFFICES ASSUME IInv, LoadInv, Uploaded, clean,
                      NEW a \in first .. (RoundDown(startAddr, PageWords) - 1), Writable(a)
               PROVE  flash[a] = FileWord(file, a)
    BY DEF AcknowledgedIsLoaded
  <2>1. /\ bench \in Bench /\ file \in File /\ first \in Nat
        /\ BootStart \in 0 .. FlashWords /\ FlashWords \in Nat
        /\ FlashWords <= BufferWords /\ BufferWords \in Nat
        /\ PageWords \in Nat \ {0} /\ startAddr \in Int
    BY Geometry DEF IInv, TypeInv, TypeDevice, TypeHost, Uploaded
  <2>2. RoundDown(startAddr, PageWords) \in Int
    BY <2>1, Down
  <2>3. a \in first .. (Settled - 1)
    <3>1. CASE Live
      <4>1. Settled \in Int /\ RoundDown(startAddr, PageWords) <= Settled
        BY <3>1, SettledIs
      <4>2. QED
        BY <4>1, <2>1, <2>2
    <3>2. CASE ~ Live
      BY <3>2 DEF Settled
    <3>3. QED
      BY <3>1, <3>2
  <2>4. flash[a] = Image(file)[a]
    BY <2>3 DEF LoadInv, UploadInv, Good
  <2>5. a \in 0 .. (BufferWords - 1)
    BY <2>1, <2>2 DEF Writable
  <2>6. QED
    BY <2>1, <2>4, <2>5, ImageIsFileWord
<1>4. QED
  BY <1>1, <1>2, <1>3, Invariance, PTL DEF Spec
=============================================================================
