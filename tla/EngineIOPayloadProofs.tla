------------------------ MODULE EngineIOPayloadProofs ------------------------
(***************************************************************************)
(* The two ends of the wire, for packets of any length.  First the client's *)
(* UTF-8, for one character (SymbolSurvives) and for a text; then the       *)
(* lengths, which are written digit by digit; then the payloads.            *)
(***************************************************************************)
EXTENDS EngineIOPayload, SequenceTheorems, WellFoundedInduction, TLAPS

Readers == [text : Seq(Nat), code : Nat, missing : Nat, least : Nat,
            result : {"ok", "error"}]

\* What a reader is between two symbols.
Ready(r) == r \in Readers /\ r.missing = 0 /\ r.result = "ok"

\* The reader at the end of a symbol c it has read from r on.
HasRead(s, r, c) == Ready(s) /\ s.text = Append(r.text, c)

\* What is read are numbers.
LEMMA CodesAreNumbers == \A c \in CodePoints : c \in Nat
BY SMT DEF CodePoints

LEMMA TextGrows ==
  ASSUME NEW r \in Readers, NEW c \in Nat
  PROVE  r.text \in Seq(Nat) /\ Append(r.text, c) \in Seq(Nat)
<1>1. r.text \in Seq(Nat)
  BY SMT DEF Readers
<1> QED
  BY <1>1, SMT

\* A symbol of one byte, and the first of several.
LEMMA OneByte ==
  ASSUME NEW r, Ready(r), NEW c \in Nat, c < 128
  PROVE  HasRead(DecodeSymbol(r, c), r, c)
<1>1. r \in Readers /\ r.missing = 0 /\ r.result = "ok" /\ Append(r.text, c) \in Seq(Nat)
  BY TextGrows DEF Ready
<1>2. DecodeSymbol(r, c) = Begin(r, Append(r.text, c), c, 0, 0)
  BY <1>1, SMT DEF DecodeSymbol, FirstByte
<1> QED
  BY <1>1, <1>2, SMT DEF Begin, HasRead, Ready, Readers

LEMMA FirstOfMany ==
  ASSUME NEW r, Ready(r), NEW bits \in Nat, NEW n \in Nat, NEW least \in Nat,
         NEW s, s = Begin(r, r.text, bits, n, least)
  PROVE  /\ s \in Readers /\ s.result = "ok" /\ s.text = r.text
         /\ s.code = bits /\ s.missing = n /\ s.least = least
<1>1. r \in Readers /\ r.text \in Seq(Nat) /\ r.result = "ok"
  BY TextGrows DEF Ready
<1> QED
  BY <1>1, SMT DEF Begin, Readers

LEMMA CodesGrow ==
  ASSUME NEW n \in Nat, NEW b \in ContinuationBytes
  PROVE  NextCode(n, b) \in Nat
BY SMT DEF NextCode, ContinuationBytes

\* A byte in the middle of a symbol.
LEMMA InTheMiddle ==
  ASSUME NEW r \in Readers, r.result = "ok", r.missing \in {2, 3}, NEW b \in ContinuationBytes
  PROVE  LET s == DecodeSymbol(r, b) IN
         /\ s \in Readers /\ s.result = "ok" /\ s.text = r.text
         /\ s.code = NextCode(r.code, b) /\ s.missing = r.missing - 1
         /\ s.least = r.least
<1>1. r.text \in Seq(Nat) /\ r.code \in Nat /\ r.least \in Nat
  BY SMT DEF Readers
<1>2. NextCode(r.code, b) \in Nat /\ r.missing - 1 \in Nat
  <2>1. NextCode(r.code, b) \in Nat
    BY <1>1, CodesGrow
  <2> QED
    BY <2>1, SMT
<1>3. DecodeSymbol(r, b) =
        [text |-> r.text, code |-> NextCode(r.code, b), missing |-> r.missing - 1,
         least |-> r.least, result |-> "ok"]
  BY <1>1, SMT DEF DecodeSymbol, Continue, Throws
<1> QED
  BY <1>1, <1>2, <1>3, SMT DEF Readers

\* Its last byte.
LEMMA TheLast ==
  ASSUME NEW r \in Readers, r.result = "ok", r.missing = 1, NEW b \in ContinuationBytes,
         NEW c \in CodePoints, c = NextCode(r.code, b), c >= r.least
  PROVE  HasRead(DecodeSymbol(r, b), r, c)
<1>1. c \in Nat
  BY CodesAreNumbers
<1>2. r.text \in Seq(Nat) /\ Append(r.text, c) \in Seq(Nat)
  BY <1>1, TextGrows
<1>3. r.least \in Nat
  BY SMT DEF Readers
<1>4. ~Throws(r, b)
  BY <1>1, <1>3, SMT DEF Throws
<1>5. DecodeSymbol(r, b) =
        [text |-> Append(r.text, c), code |-> c, missing |-> 0,
         least |-> r.least, result |-> "ok"]
  BY <1>1, <1>4, SMT DEF DecodeSymbol, Continue
<1> QED
  BY <1>1, <1>2, <1>3, <1>5, SMT DEF HasRead, Ready, Readers

\* Its last two and its last three.
LEMMA LastTwo ==
  ASSUME NEW r \in Readers, r.result = "ok", r.missing = 2,
         NEW b1 \in ContinuationBytes, NEW b2 \in ContinuationBytes, NEW c \in CodePoints,
         c = NextCode(NextCode(r.code, b1), b2), c >= r.least
  PROVE  HasRead(DecodeSymbol(DecodeSymbol(r, b1), b2), r, c)
<1> DEFINE s == DecodeSymbol(r, b1)
<1>1. /\ s \in Readers /\ s.result = "ok" /\ s.text = r.text
      /\ s.code = NextCode(r.code, b1) /\ s.missing = r.missing - 1 /\ s.least = r.least
  BY InTheMiddle
<1> HIDE DEF s
<1>2. s.missing = 1 /\ c = NextCode(s.code, b2) /\ c >= s.least
  BY <1>1
<1>3. HasRead(DecodeSymbol(s, b2), s, c)
  BY <1>1, <1>2, TheLast
<1> QED
  BY <1>1, <1>3 DEF HasRead, s

LEMMA LastThree ==
  ASSUME NEW r \in Readers, r.result = "ok", r.missing = 3,
         NEW b1 \in ContinuationBytes, NEW b2 \in ContinuationBytes, NEW b3 \in ContinuationBytes,
         NEW c \in CodePoints,
         c = NextCode(NextCode(NextCode(r.code, b1), b2), b3), c >= r.least
  PROVE  HasRead(DecodeSymbol(DecodeSymbol(DecodeSymbol(r, b1), b2), b3), r, c)
<1> DEFINE s == DecodeSymbol(r, b1)
<1>1. /\ s \in Readers /\ s.result = "ok" /\ s.text = r.text
      /\ s.code = NextCode(r.code, b1) /\ s.missing = r.missing - 1 /\ s.least = r.least
  BY InTheMiddle
<1> HIDE DEF s
<1>2. s.missing = 2 /\ c = NextCode(NextCode(s.code, b2), b3) /\ c >= s.least
  BY <1>1
<1>3. HasRead(DecodeSymbol(DecodeSymbol(s, b2), b3), s, c)
  BY <1>1, <1>2, LastTwo
<1> QED
  BY <1>1, <1>3 DEF HasRead, s

\* The characters of a plane, all of which take at most three bytes in the first.
Plane == 65536

\* A byte that is not the first gives back the six bits it was made of.
LEMMA SixBits ==
  ASSUME NEW c \in Nat, NEW place, NEW n \in Nat, n = c \div place
  PROVE  CreateByte(c, place) \in ContinuationBytes /\ NextCode(n \div 64, CreateByte(c, place)) = n
<1>1. PICK k \in 0 .. 63 : k = n % 64
  BY SMT
<1>2. 128 + k \in ContinuationBytes /\ (128 + k) % 64 = k
  BY SMT DEF ContinuationBytes
<1>3. CreateByte(c, place) = 128 + k
  BY <1>1, SMT DEF CreateByte
<1>4. 64 * (n \div 64) + (n % 64) = n
  BY SMT
<1> QED
  BY <1>1, <1>2, <1>3, <1>4, SMT DEF NextCode

\* How a code is put together again.
LEMMA Codes ==
  ASSUME NEW c \in Nat
  PROVE  /\ CreateByte(c, 1) \in ContinuationBytes
         /\ CreateByte(c, 64) \in ContinuationBytes
         /\ CreateByte(c, 4096) \in ContinuationBytes
         /\ NextCode(c \div 64, CreateByte(c, 1)) = c
         /\ NextCode(c \div 4096, CreateByte(c, 64)) = c \div 64
         /\ NextCode(c \div (4 * Plane), CreateByte(c, 4096)) = c \div 4096
<1>1. c \in Nat /\ c = c \div 1
  BY SMT
<1>2. c \div 64 \in Nat /\ (c \div 64) \div 64 = c \div 4096
  BY SMT
<1>3. c \div 4096 \in Nat /\ (c \div 4096) \div 64 = c \div (4 * Plane)
  BY SMT DEF Plane
<1> QED
  <2>1. /\ CreateByte(c, 1) \in ContinuationBytes
        /\ NextCode(c \div 64, CreateByte(c, 1)) = c
    BY <1>1, SixBits
  <2>2. /\ CreateByte(c, 64) \in ContinuationBytes
        /\ NextCode(c \div 4096, CreateByte(c, 64)) = c \div 64
    <3>1. PICK n \in Nat : n = c \div 64 /\ n \div 64 = c \div 4096
      BY <1>2
    <3>2. \A place : n = c \div place =>
            /\ CreateByte(c, place) \in ContinuationBytes
            /\ NextCode(n \div 64, CreateByte(c, place)) = n
      BY SixBits
    <3>3. CreateByte(c, 64) \in ContinuationBytes /\ NextCode(n \div 64, CreateByte(c, 64)) = n
      BY <3>1, <3>2
    <3> QED
      BY <3>1, <3>3
  <2>3. /\ CreateByte(c, 4096) \in ContinuationBytes
        /\ NextCode(c \div (4 * Plane), CreateByte(c, 4096)) = c \div 4096
    <3>1. PICK n \in Nat : n = c \div 4096 /\ n \div 64 = c \div (4 * Plane)
      BY <1>3
    <3>2. CreateByte(c, 4096) \in ContinuationBytes /\ NextCode(n \div 64, CreateByte(c, 4096)) = n
      BY <3>1, SixBits
    <3> QED
      BY <3>1, <3>2
  <2> QED
    BY <2>1, <2>2, <2>3

LEMMA PlaneIsNat == Plane \in Nat
BY SMT DEF Plane

LEMMA TwoBytes ==
  ASSUME NEW r, Ready(r), NEW c \in CodePoints, 128 <= c, c < 2048
  PROVE  HasRead(DecodeSymbol(DecodeSymbol(r, 192 + c \div 64), CreateByte(c, 1)), r, c)
<1> DEFINE bits == c \div 64
           s == DecodeSymbol(r, 192 + bits)
<1>1. c \in Nat
  BY CodesAreNumbers, SMT
<1>2. bits \in Nat /\ 192 + bits \in 192 .. 223 /\ (192 + bits) % 32 = bits
  BY <1>1, SMT
<1>3. s = Begin(r, r.text, bits, 1, 128)
  BY <1>2, SMT DEF DecodeSymbol, FirstByte, Ready
<1>4. /\ s \in Readers /\ s.result = "ok" /\ s.text = r.text
      /\ s.code = bits /\ s.missing = 1 /\ s.least = 128
  <2>1. 1 \in Nat /\ 128 \in Nat
    BY SMT
  <2> HIDE DEF bits, s
  <2> QED
    BY <1>2, <1>3, <2>1, FirstOfMany
<1>5. CreateByte(c, 1) \in ContinuationBytes /\ NextCode(bits, CreateByte(c, 1)) = c
  BY <1>1, Codes
<1> HIDE DEF bits, s
<1>6. c >= s.least
  BY <1>1, <1>4, SMT
<1>7. HasRead(DecodeSymbol(s, CreateByte(c, 1)), s, c)
  BY <1>4, <1>5, <1>6, TheLast
<1> QED
  BY <1>4, <1>7 DEF HasRead, s, bits

LEMMA ThreeBytes ==
  ASSUME NEW r, Ready(r), NEW c \in CodePoints, 2048 <= c, c < Plane
  PROVE  HasRead(DecodeSymbol(DecodeSymbol(DecodeSymbol(r, 224 + c \div 4096),
                   CreateByte(c, 64)), CreateByte(c, 1)), r, c)
<1> DEFINE bits == c \div 4096
           s == DecodeSymbol(r, 224 + bits)
<1>1. c \in Nat
  BY CodesAreNumbers, SMT
<1>2. bits \in Nat /\ 224 + bits \in 224 .. 239 /\ (224 + bits) % 16 = bits
  BY <1>1, SMT DEF Plane
<1>3. s = Begin(r, r.text, bits, 2, 2048)
  BY <1>2, SMT DEF DecodeSymbol, FirstByte, Ready
<1>4. /\ s \in Readers /\ s.result = "ok" /\ s.text = r.text
      /\ s.code = bits /\ s.missing = 2 /\ s.least = 2048
  <2>1. 2 \in Nat /\ 2048 \in Nat
    BY SMT
  <2> HIDE DEF bits, s
  <2> QED
    BY <1>2, <1>3, <2>1, FirstOfMany
<1>5. /\ CreateByte(c, 64) \in ContinuationBytes /\ CreateByte(c, 1) \in ContinuationBytes
      /\ NextCode(NextCode(bits, CreateByte(c, 64)), CreateByte(c, 1)) = c
  BY <1>1, Codes
<1> HIDE DEF bits, s
<1>6. c >= s.least
  BY <1>1, <1>4, SMT
<1>7. HasRead(DecodeSymbol(DecodeSymbol(s, CreateByte(c, 64)), CreateByte(c, 1)), s, c)
  <2>1. PICK b1 \in ContinuationBytes, b2 \in ContinuationBytes :
          /\ b1 = CreateByte(c, 64) /\ b2 = CreateByte(c, 1)
          /\ c = NextCode(NextCode(s.code, b1), b2)
    BY <1>4, <1>5
  <2>2. HasRead(DecodeSymbol(DecodeSymbol(s, b1), b2), s, c)
    BY <1>4, <1>6, <2>1, LastTwo
  <2> QED
    BY <2>1, <2>2
<1> QED
  BY <1>4, <1>7 DEF HasRead, s, bits

LEMMA FourBytes ==
  ASSUME NEW r, Ready(r), NEW c \in CodePoints, Plane <= c
  PROVE  HasRead(DecodeSymbol(DecodeSymbol(DecodeSymbol(DecodeSymbol(r, 240 + c \div (4 * Plane)),
                   CreateByte(c, 4096)), CreateByte(c, 64)), CreateByte(c, 1)), r, c)
<1> DEFINE bits == c \div (4 * Plane)
           s == DecodeSymbol(r, 240 + bits)
<1>1. c \in Nat /\ c < 17 * Plane
  BY SMT DEF CodePoints, Plane
<1>2. bits \in Nat /\ 240 + bits \in 240 .. 247 /\ (240 + bits) % 8 = bits
  BY <1>1, SMT DEF Plane
<1>3. s = Begin(r, r.text, bits, 3, Plane)
  BY <1>2, SMT DEF DecodeSymbol, FirstByte, Ready, Plane
<1>4. /\ s \in Readers /\ s.result = "ok" /\ s.text = r.text
      /\ s.code = bits /\ s.missing = 3 /\ s.least = Plane
  <2>1. 3 \in Nat /\ Plane \in Nat
    BY SMT DEF Plane
  <2> HIDE DEF bits, s
  <2> QED
    BY <1>2, <1>3, <2>1, FirstOfMany
<1>5. /\ CreateByte(c, 4096) \in ContinuationBytes
      /\ CreateByte(c, 64) \in ContinuationBytes /\ CreateByte(c, 1) \in ContinuationBytes
      /\ NextCode(NextCode(NextCode(bits, CreateByte(c, 4096)), CreateByte(c, 64)),
                  CreateByte(c, 1)) = c
  BY <1>1, Codes
<1> HIDE DEF bits, s
<1>6. c >= s.least
  BY <1>1, <1>4, PlaneIsNat, SMT
<1>7. HasRead(DecodeSymbol(DecodeSymbol(DecodeSymbol(s, CreateByte(c, 4096)),
                CreateByte(c, 64)), CreateByte(c, 1)), s, c)
  <2>1. PICK b1 \in ContinuationBytes, b2 \in ContinuationBytes, b3 \in ContinuationBytes :
          /\ b1 = CreateByte(c, 4096) /\ b2 = CreateByte(c, 64) /\ b3 = CreateByte(c, 1)
          /\ c = NextCode(NextCode(NextCode(s.code, b1), b2), b3)
    BY <1>4, <1>5
  <2>2. HasRead(DecodeSymbol(DecodeSymbol(DecodeSymbol(s, b1), b2), b3), s, c)
    BY <1>4, <1>6, <2>1, LastThree
  <2> QED
    BY <2>1, <2>2
<1> QED
  BY <1>4, <1>7, SMTT(30) DEF HasRead, s, bits

\* A reader after up to four bytes.
Reading(r, e) ==
  LET one   == DecodeSymbol(r, e[1])
      two   == DecodeSymbol(one, e[2])
      three == DecodeSymbol(two, e[3])
  IN IF Len(e) = 1 THEN one
     ELSE IF Len(e) = 2 THEN two
     ELSE IF Len(e) = 3 THEN three
     ELSE DecodeSymbol(three, e[4])

\* Whatever character a text goes on with: a reader between two symbols that is
\* given the bytes encodeCodePoint makes of it has, after the last of them, that
\* character behind its text, and waits for the next symbol.
THEOREM SymbolSurvives ==
  ASSUME NEW r, Ready(r), NEW c \in CodePoints
  PROVE  HasRead(Reading(r, EncodeCodePoint(c)), r, c)
<1>1. c \in Nat
  BY CodesAreNumbers, SMT
<1>2. CASE c < 128
  <2>1. EncodeCodePoint(c) = <<c>>
    BY <1>1, <1>2, SMT DEF EncodeCodePoint, Plane
  <2> QED
    BY <1>1, <1>2, <2>1, OneByte DEF Reading
<1>3. CASE 128 <= c /\ c < 2048
  <2>1. EncodeCodePoint(c) = <<192 + c \div 64, CreateByte(c, 1)>>
    BY <1>1, <1>3, SMT DEF EncodeCodePoint, Plane
  <2> QED
    BY <1>3, <2>1, TwoBytes DEF Reading
<1>4. CASE 2048 <= c /\ c < Plane
  <2>1. EncodeCodePoint(c) = <<224 + c \div 4096, CreateByte(c, 64), CreateByte(c, 1)>>
    BY <1>1, <1>4, SMT DEF EncodeCodePoint, Plane
  <2> QED
    BY <1>4, <2>1, ThreeBytes DEF Reading
<1>5. CASE Plane <= c
  <2>1. EncodeCodePoint(c) = <<240 + c \div (4 * Plane), CreateByte(c, 4096),
                               CreateByte(c, 64), CreateByte(c, 1)>>
    BY <1>1, <1>5, SMT DEF EncodeCodePoint, Plane
  <2> QED
    BY <1>5, <2>1, FourBytes DEF Reading
<1> QED
  BY <1>1, <1>2, <1>3, <1>4, <1>5, SMT DEF Plane

-----------------------------------------------------------------------------
\* Induction: a set of numbers that is not empty has a least one.
LEMMA Least ==
  ASSUME NEW T \in SUBSET Nat, T # {}
  PROVE  \E m \in T : \A k \in T : m <= k
<1> DEFINE R == {ss \in Nat \X Nat : ss[1] < ss[2]}
<1>1. IsWellFoundedOn(R, Nat)
  BY NatLessThanWellFounded, Zenon DEF OpToRel
<1>2. \A x, y \in Nat : ~ (<<y, x>> \in R) => x <= y
  OBVIOUS
<1> HIDE DEF R
<1>3. \E x \in T : \A y \in T : ~ (<<y, x>> \in R)
  BY <1>1, WFMin, Zenon
<1> QED
  BY <1>2, <1>3

LEMMA Induction ==
  ASSUME NEW N \in Nat, NEW S, 0 \in S, \A k \in 0 .. N - 1 : k \in S => k + 1 \in S
  PROVE  \A k \in 0 .. N : k \in S
<1> SUFFICES ASSUME NEW k \in 0 .. N, k \notin S PROVE FALSE
  OBVIOUS
<1> DEFINE T == {j \in 0 .. N : j \notin S}
<1>1. PICK m \in T : \A j \in T : m <= j
  <2>1. T \in SUBSET Nat /\ k \in T
    OBVIOUS
  <2> HIDE DEF T
  <2> QED
    BY <2>1, Least
<1>2. m # 0 /\ m - 1 \in 0 .. N - 1
  OBVIOUS
<1>3. m - 1 \in S
  <2>1. m - 1 \notin T
    BY <1>1, <1>2
  <2>2. m - 1 \in 0 .. N
    OBVIOUS
  <2> QED
    BY <2>1, <2>2
<1>4. (m - 1) + 1 \in S
  BY <1>2, <1>3
<1> QED
  BY <1>4

LEMMA StrongInduction ==
  ASSUME NEW S, \A n \in Nat : (\A k \in 0 .. n - 1 : k \in S) => n \in S
  PROVE  \A n \in Nat : n \in S
<1> SUFFICES ASSUME NEW n \in Nat, n \notin S PROVE FALSE
  OBVIOUS
<1> DEFINE T == {j \in Nat : j \notin S}
<1>1. PICK m \in T : \A j \in T : m <= j
  <2>1. T \in SUBSET Nat /\ n \in T
    OBVIOUS
  <2> HIDE DEF T
  <2> QED
    BY <2>1, Least
<1>2. \A k \in 0 .. m - 1 : k \in S
  BY <1>1
<1> QED
  BY <1>1, <1>2

LEMMA MinOf ==
  ASSUME NEW T \in SUBSET Nat, T # {}
  PROVE  Min(T) \in T /\ \A y \in T : Min(T) <= y
<1> DEFINE P(z) == z \in T /\ \A y \in T : z <= y
<1>1. Min(T) = CHOOSE z : P(z)
  BY Zenon DEF Min
<1>2. \E z : P(z)
  BY Least
<1> HIDE DEF P
<1>3. P(Min(T))
  BY <1>1, <1>2, Zenon
<1> QED
  BY <1>3 DEF P

LEMMA MaxOf ==
  ASSUME NEW n \in Nat, NEW s \in SUBSET (1 .. n), s # {}
  PROVE  /\ Max(s) \in s
         /\ \A y \in s : y <= Max(s)
<1> DEFINE T == {n - y : y \in s}
<1>1. PICK m \in T : \A j \in T : m <= j
  <2>1. T \in SUBSET Nat
    OBVIOUS
  <2>2. PICK y \in s : TRUE
    OBVIOUS
  <2>3. n - y \in T
    OBVIOUS
  <2> HIDE DEF T
  <2> QED
    BY <2>1, <2>3, Least
<1>2. PICK x \in s : m = n - x
  OBVIOUS
<1>3. \A y \in s : x >= y
  <2> TAKE y \in s
  <2>1. n - y \in T
    OBVIOUS
  <2>2. n - x <= n - y
    BY <1>1, <1>2, <2>1
  <2> QED
    BY <2>2
<1>4. \E z \in s : \A y \in s : z >= y
  BY <1>3
<1>5. Max(s) \in s /\ \A y \in s : Max(s) >= y
  <2> DEFINE P(z) == z \in s /\ \A y \in s : z >= y
  <2>1. Max(s) = CHOOSE z : P(z)
    BY Zenon DEF Max
  <2>2. \E z : P(z)
    BY <1>4
  <2> HIDE DEF P
  <2>3. P(Max(s))
    BY <2>1, <2>2, Zenon
  <2> QED
    BY <2>3 DEF P
<1> QED
  BY <1>5

-----------------------------------------------------------------------------
\* The folds: the result is the last of the values they go through.
\* The reader is given one byte after the other.
LEMMA DecodeSteps ==
  ASSUME NEW ps \in Seq(Bytes)
  PROVE  \E g : /\ g[0] = NewReader /\ g[Len(ps)] = UTF8Decode(ps)
                /\ \A i \in 1 .. Len(ps) : g[i] = DecodeSymbol(g[i - 1], ps[i])
<1> DEFINE N == Len(ps)
           G(f, s) == IF s = {} THEN NewReader ELSE DecodeSymbol(f[s \ {Max(s)}], ps[Max(s)])
           F(f, D) == f = [s \in SUBSET D |-> G(f, s)]
<1>1. UTF8Decode(ps) = (CHOOSE f : F(f, DOMAIN ps))[DOMAIN ps]
  BY Zenon DEF UTF8Decode, FoldLeft, MapThenFoldSet
<1>2. N \in Nat /\ DOMAIN ps = 1 .. N
  BY LenProperties
<1> HIDE DEF N
<1>3. \A k \in 0 .. N : \E f : F(f, 1 .. k)
  <2> DEFINE S == {k \in 0 .. N : \E f : F(f, 1 .. k)}
  <2>1. 0 \in S
    <3>1. F([s \in SUBSET (1 .. 0) |-> NewReader], 1 .. 0)
      <4>1. \A s \in SUBSET (1 .. 0) : s = {}
        OBVIOUS
      <4>2. \A f : \A s \in SUBSET (1 .. 0) : G(f, s) = NewReader
        BY <4>1
      <4> HIDE DEF G
      <4> QED
        BY <4>2
    <3> QED
      BY <1>2, <3>1
  <2>2. ASSUME NEW k \in 0 .. N - 1, k \in S PROVE k + 1 \in S
    <3>1. PICK f : F(f, 1 .. k)
      BY <2>2
    <3> DEFINE h == [s \in SUBSET (1 .. k + 1) |->
                       IF k + 1 \in s THEN DecodeSymbol(f[s \ {k + 1}], ps[k + 1]) ELSE f[s]]
    <3>2. \A s \in SUBSET (1 .. k + 1) : h[s] = G(h, s)
      <4> TAKE s \in SUBSET (1 .. k + 1)
      <4>1. CASE k + 1 \in s
        <5>1. Max(s) = k + 1
          <6>1. k + 1 \in Nat /\ s # {}
            BY <1>2, <4>1
          <6>2. Max(s) \in s /\ \A y \in s : y <= Max(s)
            BY <6>1, MaxOf
          <6>3. \A y \in s : y \in Nat /\ y <= k + 1
            BY <1>2
          <6>4. k + 1 <= Max(s) /\ Max(s) <= k + 1 /\ Max(s) \in Nat
            BY <4>1, <6>2, <6>3
          <6> QED
            BY <1>2, <6>4
        <5>2. s \ {k + 1} \in SUBSET (1 .. k) /\ s \ {k + 1} \in SUBSET (1 .. k + 1)
              /\ k + 1 \notin s \ {k + 1}
          BY <1>2
        <5>3. h[s \ {k + 1}] = f[s \ {k + 1}]
          BY <5>2
        <5>4. h[s] = DecodeSymbol(f[s \ {k + 1}], ps[k + 1])
          BY <4>1
        <5> QED
          BY <4>1, <5>1, <5>3, <5>4, Zenon
      <4>2. CASE k + 1 \notin s
        <5>1. s \in SUBSET (1 .. k) /\ s \in SUBSET (1 .. k + 1) /\ k \in Nat
          BY <1>2, <4>2
        <5>2. h[s] = f[s] /\ f[s] = G(f, s)
          BY <3>1, <4>2, <5>1
        <5>3. CASE s = {}
          BY <5>2, <5>3, Zenon
        <5>4. CASE s # {}
          <6>1. s \ {Max(s)} \in SUBSET (1 .. k + 1) /\ k + 1 \notin s \ {Max(s)}
            BY <4>2, <5>1
          <6>2. h[s \ {Max(s)}] = f[s \ {Max(s)}]
            BY <6>1
          <6> QED
            BY <5>2, <6>2, Zenon
        <5> QED
          BY <5>3, <5>4
      <4> QED
        BY <4>1, <4>2
    <3>3. F(h, 1 .. k + 1)
      <4>1. h = [s \in SUBSET (1 .. k + 1) |-> h[s]]
        OBVIOUS
      <4> HIDE DEF h, G
      <4> QED
        BY <3>2, <4>1
    <3> HIDE DEF F
    <3> QED
      BY <1>2, <3>3
  <2> HIDE DEF F
  <2>3. \A k \in 0 .. N : k \in S
    <3> HIDE DEF S
    <3> QED
      BY <1>2, <2>1, <2>2, Induction
  <2> QED
    BY <2>3
<1> DEFINE f == CHOOSE f : F(f, 1 .. N)
<1>4. F(f, 1 .. N)
  <2> HIDE DEF F
  <2>0. N \in 0 .. N
    BY <1>2
  <2>1. \E x : F(x, 1 .. N)
    BY <1>3, <2>0
  <2> QED
    BY <2>1, Zenon
<1>5. UTF8Decode(ps) = f[1 .. N]
  BY <1>1, <1>2, Zenon
<1> HIDE DEF f
<1> DEFINE g == [i \in 0 .. N |-> f[1 .. i]]
<1>6. g[0] = NewReader
  <2>1. {} \in SUBSET (1 .. N) /\ 1 .. 0 = {} /\ g[0] = f[1 .. 0]
    BY <1>2
  <2> QED
    BY <1>4, <2>1
<1>7. g[N] = UTF8Decode(ps)
  BY <1>2, <1>5
<1>8. ASSUME NEW i \in 1 .. N PROVE g[i] = DecodeSymbol(g[i - 1], ps[i])
  <2> HIDE DEF F, g
  <2>1. /\ 1 .. i \in SUBSET (1 .. N) /\ 1 .. i # {} /\ i \in Nat
        /\ (1 .. i) \ {i} = 1 .. i - 1 /\ i - 1 \in 0 .. N /\ i \in 0 .. N
    <3>1. i \in 1 .. i /\ i \in Nat /\ i - 1 \in 0 .. N /\ i \in 0 .. N
      BY <1>2
    <3>2. 1 .. i \in SUBSET (1 .. N)
      BY <1>2
    <3>3. (1 .. i) \ {i} = 1 .. i - 1
      BY <1>2
    <3> QED
      BY <3>1, <3>2, <3>3
  <2>2. Max(1 .. i) = i
    <3>1. Max(1 .. i) \in 1 .. i /\ \A y \in 1 .. i : y <= Max(1 .. i)
      BY <2>1, MaxOf
    <3> QED
      BY <2>1, <3>1
  <2>3. f[1 .. i] = DecodeSymbol(f[(1 .. i) \ {i}], ps[i])
    <3>1. f[1 .. i] = G(f, 1 .. i)
      BY <1>4, <2>1 DEF F
    <3> QED
      BY <2>1, <2>2, <3>1, Zenon
  <2>4. g[i] = f[1 .. i] /\ g[i - 1] = f[1 .. i - 1]
    BY <2>1 DEF g
  <2> QED
    BY <2>1, <2>3, <2>4, Zenon
<1> HIDE DEF g
<1> QED
  BY <1>6, <1>7, <1>8 DEF N

\* A number is read digit by digit.
LEMMA NumberSteps ==
  ASSUME NEW ps \in Seq(Nat)
  PROVE  \E g : /\ g[0] = 0 /\ g[Len(ps)] = Number(ps)
                /\ \A i \in 1 .. Len(ps) : g[i] = 10 * g[i - 1] + ps[i]
<1> DEFINE N == Len(ps)
           G(f, s) == IF s = {} THEN 0 ELSE 10 * f[s \ {Max(s)}] + ps[Max(s)]
           F(f, D) == f = [s \in SUBSET D |-> G(f, s)]
<1>1. Number(ps) = (CHOOSE f : F(f, DOMAIN ps))[DOMAIN ps]
  BY Zenon DEF Number, FoldLeft, MapThenFoldSet
<1>2. N \in Nat /\ DOMAIN ps = 1 .. N
  BY LenProperties
<1> HIDE DEF N
<1>3. \A k \in 0 .. N : \E f : F(f, 1 .. k)
  <2> DEFINE S == {k \in 0 .. N : \E f : F(f, 1 .. k)}
  <2>1. 0 \in S
    <3>1. F([s \in SUBSET (1 .. 0) |-> 0], 1 .. 0)
      <4>1. \A s \in SUBSET (1 .. 0) : s = {}
        OBVIOUS
      <4>2. \A f : \A s \in SUBSET (1 .. 0) : G(f, s) = 0
        BY <4>1
      <4> HIDE DEF G
      <4> QED
        BY <4>2
    <3> QED
      BY <1>2, <3>1
  <2>2. ASSUME NEW k \in 0 .. N - 1, k \in S PROVE k + 1 \in S
    <3>1. PICK f : F(f, 1 .. k)
      BY <2>2
    <3> DEFINE h == [s \in SUBSET (1 .. k + 1) |->
                       IF k + 1 \in s THEN 10 * f[s \ {k + 1}] + ps[k + 1] ELSE f[s]]
    <3>2. \A s \in SUBSET (1 .. k + 1) : h[s] = G(h, s)
      <4> TAKE s \in SUBSET (1 .. k + 1)
      <4>1. CASE k + 1 \in s
        <5>1. Max(s) = k + 1
          <6>1. k + 1 \in Nat /\ s # {}
            BY <1>2, <4>1
          <6>2. Max(s) \in s /\ \A y \in s : y <= Max(s)
            BY <6>1, MaxOf
          <6>3. \A y \in s : y \in Nat /\ y <= k + 1
            BY <1>2
          <6>4. k + 1 <= Max(s) /\ Max(s) <= k + 1 /\ Max(s) \in Nat
            BY <4>1, <6>2, <6>3
          <6> QED
            BY <1>2, <6>4
        <5>2. s \ {k + 1} \in SUBSET (1 .. k) /\ s \ {k + 1} \in SUBSET (1 .. k + 1)
              /\ k + 1 \notin s \ {k + 1}
          BY <1>2
        <5>3. h[s \ {k + 1}] = f[s \ {k + 1}]
          BY <5>2
        <5>4. h[s] = 10 * f[s \ {k + 1}] + ps[k + 1]
          BY <4>1
        <5> QED
          BY <4>1, <5>1, <5>3, <5>4, Zenon
      <4>2. CASE k + 1 \notin s
        <5>1. s \in SUBSET (1 .. k) /\ s \in SUBSET (1 .. k + 1) /\ k \in Nat
          BY <1>2, <4>2
        <5>2. h[s] = f[s] /\ f[s] = G(f, s)
          BY <3>1, <4>2, <5>1
        <5>3. CASE s = {}
          BY <5>2, <5>3, Zenon
        <5>4. CASE s # {}
          <6>1. s \ {Max(s)} \in SUBSET (1 .. k + 1) /\ k + 1 \notin s \ {Max(s)}
            BY <4>2, <5>1
          <6>2. h[s \ {Max(s)}] = f[s \ {Max(s)}]
            BY <6>1
          <6> QED
            BY <5>2, <6>2, Zenon
        <5> QED
          BY <5>3, <5>4
      <4> QED
        BY <4>1, <4>2
    <3>3. F(h, 1 .. k + 1)
      <4>1. h = [s \in SUBSET (1 .. k + 1) |-> h[s]]
        OBVIOUS
      <4> HIDE DEF h, G
      <4> QED
        BY <3>2, <4>1
    <3> HIDE DEF F
    <3> QED
      BY <1>2, <3>3
  <2> HIDE DEF F
  <2>3. \A k \in 0 .. N : k \in S
    <3> HIDE DEF S
    <3> QED
      BY <1>2, <2>1, <2>2, Induction
  <2> QED
    BY <2>3
<1> DEFINE f == CHOOSE f : F(f, 1 .. N)
<1>4. F(f, 1 .. N)
  <2> HIDE DEF F
  <2>0. N \in 0 .. N
    BY <1>2
  <2>1. \E x : F(x, 1 .. N)
    BY <1>3, <2>0
  <2> QED
    BY <2>1, Zenon
<1>5. Number(ps) = f[1 .. N]
  BY <1>1, <1>2, Zenon
<1> HIDE DEF f
<1> DEFINE g == [i \in 0 .. N |-> f[1 .. i]]
<1>6. g[0] = 0
  <2>1. {} \in SUBSET (1 .. N) /\ 1 .. 0 = {} /\ g[0] = f[1 .. 0]
    BY <1>2
  <2> QED
    BY <1>4, <2>1
<1>7. g[N] = Number(ps)
  BY <1>2, <1>5
<1>8. ASSUME NEW i \in 1 .. N PROVE g[i] = 10 * g[i - 1] + ps[i]
  <2> HIDE DEF F, g
  <2>1. /\ 1 .. i \in SUBSET (1 .. N) /\ 1 .. i # {} /\ i \in Nat
        /\ (1 .. i) \ {i} = 1 .. i - 1 /\ i - 1 \in 0 .. N /\ i \in 0 .. N
    <3>1. i \in 1 .. i /\ i \in Nat /\ i - 1 \in 0 .. N /\ i \in 0 .. N
      BY <1>2
    <3>2. 1 .. i \in SUBSET (1 .. N)
      BY <1>2
    <3>3. (1 .. i) \ {i} = 1 .. i - 1
      BY <1>2
    <3> QED
      BY <3>1, <3>2, <3>3
  <2>2. Max(1 .. i) = i
    <3>1. Max(1 .. i) \in 1 .. i /\ \A y \in 1 .. i : y <= Max(1 .. i)
      BY <2>1, MaxOf
    <3> QED
      BY <2>1, <3>1
  <2>3. f[1 .. i] = 10 * f[(1 .. i) \ {i}] + ps[i]
    <3>1. f[1 .. i] = G(f, 1 .. i)
      BY <1>4, <2>1 DEF F
    <3> QED
      BY <2>1, <2>2, <3>1, Zenon
  <2>4. g[i] = f[1 .. i] /\ g[i - 1] = f[1 .. i - 1]
    BY <2>1 DEF g
  <2> QED
    BY <2>1, <2>3, <2>4, Zenon
<1> HIDE DEF g
<1> QED
  BY <1>6, <1>7, <1>8 DEF N

-----------------------------------------------------------------------------
\* The digits of a length.  That the recursion has a solution, and only one.
LEMMA DigitsOf ==
  \A n \in Nat : Digits[n] = IF n < 10 THEN <<n>> ELSE Append(Digits[n \div 10], n % 10)
<1> DEFINE G(f, n) == IF n < 10 THEN <<n>> ELSE Append(f[n \div 10], n % 10)
           F(f, D) == f = [n \in D |-> G(f, n)]
<1>1. Digits = CHOOSE f : F(f, Nat)
  BY Zenon DEF Digits
<1>2. \A n \in Nat : n >= 10 => n \div 10 \in Nat /\ n \div 10 < n
  BY SMT
<1>3. ASSUME NEW N \in Nat PROVE \A k \in 0 .. N : \E f : F(f, 0 .. k)
  <2> DEFINE S == {k \in 0 .. N : \E f : F(f, 0 .. k)}
  <2>1. 0 \in S
    <3>1. F([n \in 0 .. 0 |-> <<n>>], 0 .. 0)
      <4>1. \A f : \A n \in 0 .. 0 : G(f, n) = <<n>>
        BY SMT
      <4> HIDE DEF G
      <4> QED
        BY <4>1
    <3> HIDE DEF F
    <3> QED
      BY <3>1
  <2>2. ASSUME NEW k \in 0 .. N - 1, k \in S PROVE k + 1 \in S
    <3>1. PICK f : F(f, 0 .. k)
      BY <2>2
    <3> DEFINE h == [n \in 0 .. k + 1 |-> IF n = k + 1 THEN G(f, n) ELSE f[n]]
    <3>2. \A n \in 0 .. k + 1 : h[n] = G(h, n)
      <4> TAKE n \in 0 .. k + 1
      <4>1. n >= 10 => n \div 10 \in 0 .. k
        BY <1>2
      <4>2. n >= 10 => h[n \div 10] = f[n \div 10]
        <5> SUFFICES ASSUME n >= 10 PROVE h[n \div 10] = f[n \div 10]
          OBVIOUS
        <5>1. PICK j \in 0 .. k : j = n \div 10
          BY <4>1
        <5>2. j \in 0 .. k + 1 /\ j # k + 1
          OBVIOUS
        <5> QED
          BY <5>1, <5>2
      <4>3. G(h, n) = G(f, n)
        <5>1. CASE n < 10
          BY <5>1
        <5>2. CASE n >= 10
          BY <4>2, <5>2
        <5> QED
          BY <5>1, <5>2
      <4>4. CASE n = k + 1
        <5> HIDE DEF G
        <5> QED
          BY <4>3, <4>4
      <4>5. CASE n # k + 1
        <5>1. n \in 0 .. k
          BY <4>5
        <5>2. f[n] = G(f, n)
          <6> HIDE DEF G
          <6> QED
            BY <3>1, <5>1
        <5> HIDE DEF G
        <5> QED
          BY <4>3, <4>5, <5>2
      <4> QED
        BY <4>4, <4>5
    <3>3. F(h, 0 .. k + 1)
      <4>1. h = [n \in 0 .. k + 1 |-> h[n]]
        OBVIOUS
      <4> HIDE DEF h, G
      <4> QED
        BY <3>2, <4>1
    <3> HIDE DEF F
    <3> QED
      BY <3>3
  <2> HIDE DEF F
  <2>3. \A k \in 0 .. N : k \in S
    <3> HIDE DEF S
    <3> QED
      BY <2>1, <2>2, Induction
  <2> QED
    BY <2>3
<1>4. \A n \in Nat : \E f : F(f, 0 .. n)
  <2> HIDE DEF F
  <2> TAKE n \in Nat
  <2>1. n \in 0 .. n
    OBVIOUS
  <2> QED
    BY <1>3, <2>1
<1> DEFINE S == {n \in Nat : \A N, M \in Nat : \A f, g :
                   n <= N /\ n <= M /\ F(f, 0 .. N) /\ F(g, 0 .. M) => f[n] = g[n]}
<1>5. \A n \in Nat : n \in S
  <2>1. ASSUME NEW n \in Nat, \A k \in 0 .. n - 1 : k \in S PROVE n \in S
    <3> SUFFICES ASSUME NEW N \in Nat, NEW M \in Nat, NEW f, NEW g, n <= N, n <= M,
                        F(f, 0 .. N), F(g, 0 .. M)
                 PROVE  f[n] = g[n]
      <4> HIDE DEF F
      <4> QED
        OBVIOUS
    <3>1. f[n] = G(f, n) /\ g[n] = G(g, n)
      <4>1. n \in 0 .. N /\ n \in 0 .. M
        OBVIOUS
      <4> HIDE DEF G
      <4> QED
        BY <4>1
    <3>2. n >= 10 => f[n \div 10] = g[n \div 10]
      <4> SUFFICES ASSUME n >= 10 PROVE f[n \div 10] = g[n \div 10]
        OBVIOUS
      <4>1. PICK j \in 0 .. n - 1 : j = n \div 10
        BY <1>2
      <4>2. j \in S /\ j <= N /\ j <= M /\ j \in Nat
        <5>1. j \in S
          <6> HIDE DEF S
          <6> QED
            BY <2>1
        <5> HIDE DEF S, F
        <5> QED
          BY <5>1
      <4> HIDE DEF F
      <4>3. f[j] = g[j]
        BY <4>2
      <4> QED
        BY <4>1, <4>3
    <3>3. G(f, n) = G(g, n)
      BY <3>2
    <3> HIDE DEF G
    <3> QED
      BY <3>1, <3>3
  <2> HIDE DEF S
  <2> QED
    BY <2>1, StrongInduction
<1> DEFINE c(n) == CHOOSE f : F(f, 0 .. n)
           h == [n \in Nat |-> c(n)[n]]
<1>6. \A n \in Nat : F(c(n), 0 .. n)
  <2> HIDE DEF F
  <2> TAKE n \in Nat
  <2>1. \E f : F(f, 0 .. n)
    BY <1>4
  <2> QED
    BY <2>1, Zenon
<1> HIDE DEF c
<1>7. \A n \in Nat : h[n] = G(h, n)
  <2> TAKE n \in Nat
  <2>1. h[n] = c(n)[n]
    OBVIOUS
  <2>2. c(n)[n] = G(c(n), n)
    <3>1. n \in 0 .. n
      OBVIOUS
    <3> HIDE DEF G
    <3> QED
      BY <1>6, <3>1
  <2>3. n >= 10 => c(n)[n \div 10] = h[n \div 10]
    <3> SUFFICES ASSUME n >= 10 PROVE c(n)[n \div 10] = h[n \div 10]
      OBVIOUS
    <3>1. PICK j \in Nat : j = n \div 10 /\ j <= n
      BY <1>2
    <3>2. j \in S /\ F(c(n), 0 .. n) /\ F(c(j), 0 .. j)
      <4> HIDE DEF F, S
      <4> QED
        BY <1>5, <1>6
    <3>3. c(n)[j] = c(j)[j]
      <4> HIDE DEF F
      <4> QED
        BY <3>1, <3>2
    <3> QED
      BY <3>1, <3>3
  <2>4. G(c(n), n) = G(h, n)
    <3> HIDE DEF h
    <3> QED
      BY <2>3
  <2> HIDE DEF G, h
  <2> QED
    BY <2>1, <2>2, <2>4
<1>8. F(h, Nat)
  <2>1. h = [n \in Nat |-> h[n]]
    OBVIOUS
  <2> HIDE DEF h, G
  <2> QED
    BY <1>7, <2>1
<1>9. F(Digits, Nat)
  <2> HIDE DEF F, h
  <2> QED
    BY <1>1, <1>8, Zenon
<1>10. \A n \in Nat : Digits[n] = G(Digits, n)
  <2> HIDE DEF G
  <2> QED
    BY <1>9
<1> QED
  BY <1>10

\* A number is read digit by digit: one more digit.
LEMMA NumberAppend ==
  ASSUME NEW ds \in Seq(Nat), NEW d \in Nat, Number(ds) \in Nat
  PROVE  Number(Append(ds, d)) = 10 * Number(ds) + d
<1> DEFINE es == Append(ds, d)
           N == Len(ds)
<1>1. /\ es \in Seq(Nat) /\ Len(es) = N + 1 /\ es[N + 1] = d
      /\ \A i \in 1 .. N : es[i] = ds[i]
      /\ N \in Nat
  BY AppendProperties, LenProperties
<1>2. PICK g : /\ g[0] = 0 /\ g[N] = Number(ds)
               /\ \A i \in 1 .. N : g[i] = 10 * g[i - 1] + ds[i]
  BY NumberSteps
<1> HIDE DEF es
<1>3. PICK h : /\ h[0] = 0 /\ h[N + 1] = Number(es)
               /\ \A i \in 1 .. N + 1 : h[i] = 10 * h[i - 1] + es[i]
  <2>1. \E h : /\ h[0] = 0 /\ h[Len(es)] = Number(es)
               /\ \A i \in 1 .. Len(es) : h[i] = 10 * h[i - 1] + es[i]
    BY <1>1, NumberSteps, Zenon
  <2> QED
    BY <1>1, <2>1
<1> HIDE DEF N
<1> DEFINE S == {k \in 0 .. N : g[k] = h[k]}
<1>4. \A k \in 0 .. N : k \in S
  <2>1. 0 \in S
    BY <1>1, <1>2, <1>3
  <2>2. ASSUME NEW k \in 0 .. N - 1, k \in S PROVE k + 1 \in S
    <3>1. k + 1 \in 1 .. N /\ k + 1 \in 1 .. N + 1 /\ (k + 1) - 1 = k /\ g[k] = h[k]
      BY <1>1, <2>2
    <3>2. g[k + 1] = 10 * g[k] + ds[k + 1] /\ h[k + 1] = 10 * h[k] + es[k + 1]
      BY <1>2, <1>3, <3>1
    <3>3. k + 1 \in 0 .. N
      BY <1>1
    <3> QED
      BY <1>1, <3>1, <3>2, <3>3
  <2> HIDE DEF S
  <2> QED
    BY <1>1, <2>1, <2>2, Induction
<1>5. h[N] = Number(ds)
  BY <1>1, <1>2, <1>4
<1>6. N + 1 \in 1 .. N + 1 /\ (N + 1) - 1 = N
  BY <1>1
<1>7. h[N + 1] = 10 * h[N] + es[N + 1]
  BY <1>3, <1>6
<1> QED
  BY <1>1, <1>3, <1>5, <1>7 DEF es

LEMMA NumberOne ==
  ASSUME NEW d \in Nat
  PROVE  Number(<<d>>) = d
<1> DEFINE ds == <<d>>
<1>1. ds \in Seq(Nat) /\ Len(ds) = 1 /\ ds[1] = d
  OBVIOUS
<1> HIDE DEF ds
<1>2. PICK g : /\ g[0] = 0 /\ g[1] = Number(ds)
               /\ \A i \in 1 .. 1 : g[i] = 10 * g[i - 1] + ds[i]
  BY <1>1, NumberSteps
<1>3. 1 \in 1 .. 1 /\ 1 - 1 = 0
  OBVIOUS
<1>4. g[1] = 10 * g[0] + ds[1]
  BY <1>2, <1>3
<1>5. Number(ds) = d
  BY <1>1, <1>2, <1>4
<1> QED
  BY <1>5 DEF ds

\* A length is read as it was written, whatever it is.
LEMMA LengthSurvives ==
  \A n \in Nat : Digits[n] \in Seq(0 .. 9) /\ Len(Digits[n]) >= 1 /\ Number(Digits[n]) = n
<1> DEFINE S == {n \in Nat : Digits[n] \in Seq(0 .. 9) /\ Len(Digits[n]) >= 1
                             /\ Number(Digits[n]) = n}
<1>1. ASSUME NEW n \in Nat, \A k \in 0 .. n - 1 : k \in S PROVE n \in S
  <2>1. CASE n < 10
    <3> DEFINE w == <<n>>
    <3>1. Digits[n] = w
      <4>1. Digits[n] = IF n < 10 THEN <<n>> ELSE Append(Digits[n \div 10], n % 10)
        BY DigitsOf, Zenon
      <4> QED
        BY <2>1, <4>1
    <3>2. w \in Seq(0 .. 9) /\ Len(w) >= 1
      BY <2>1
    <3>3. Number(w) = n
      BY NumberOne
    <3> HIDE DEF w
    <3> QED
      BY <3>1, <3>2, <3>3, Zenon
  <2>2. CASE n >= 10
    <3>1. PICK q \in Nat, r \in 0 .. 9 : q = n \div 10 /\ r = n % 10 /\ n = 10 * q + r /\ q < n
      <4>1. n \div 10 \in Nat /\ n % 10 \in 0 .. 9 /\ n = 10 * (n \div 10) + (n % 10) /\ n \div 10 < n
        BY <2>2, SMT
      <4> QED
        BY <4>1
    <3>2. q \in S
      BY <1>1, <3>1
    <3>3. Digits[n] = Append(Digits[q], r)
      <4>1. Digits[n] = IF n < 10 THEN <<n>> ELSE Append(Digits[n \div 10], n % 10)
        BY DigitsOf, Zenon
      <4> HIDE DEF S
      <4>2. ~ (n < 10)
        BY <2>2
      <4> QED
        BY <3>1, <4>1, <4>2, Zenon
    <3>4. Digits[q] \in Seq(0 .. 9) /\ Number(Digits[q]) = q
      BY <3>2
    <3>5. Append(Digits[q], r) \in Seq(0 .. 9) /\ Len(Append(Digits[q], r)) >= 1
      BY <3>4, AppendProperties, LenProperties
    <3>6. Digits[q] \in Seq(Nat) /\ r \in Nat
      BY <3>4
    <3>7. Number(Append(Digits[q], r)) = 10 * q + r
      BY <3>4, <3>6, NumberAppend
    <3> QED
      BY <3>1, <3>3, <3>5, <3>7
  <2> QED
    BY <2>1, <2>2
<1>2. \A n \in Nat : n \in S
  <2> HIDE DEF S
  <2> QED
    BY <1>1, StrongInduction
<1> QED
  BY <1>2
-----------------------------------------------------------------------------
\* Sequences put one behind the other.  What is there after each of them.
LEMMA FlattenSteps ==
  ASSUME NEW T, NEW ss \in Seq(Seq(T))
  PROVE  \E g : /\ g[0] = <<>> /\ g[Len(ss)] = FlattenSeq(ss)
                /\ \A i \in 1 .. Len(ss) : g[i] = g[i - 1] \o ss[i]
<1> DEFINE N == Len(ss)
           G(f, i) == IF i = 1 THEN ss[i] ELSE f[i - 1] \o ss[i]
           F(f, D) == f = [i \in D |-> G(f, i)]
<1>1. FlattenSeq(ss) = IF N = 0 THEN ss ELSE (CHOOSE f : F(f, 1 .. N))[N]
  BY Zenon DEF FlattenSeq
<1>2. N \in Nat /\ (N = 0 => ss = <<>>) /\ \A i \in 1 .. N : ss[i] \in Seq(T)
  BY LenProperties, ElementOfSeq, EmptySeq
<1> HIDE DEF N
<1>3. \A k \in 0 .. N : \E f : F(f, 1 .. k)
  <2> DEFINE S == {k \in 0 .. N : \E f : F(f, 1 .. k)}
  <2>1. 0 \in S
    <3>1. F([i \in 1 .. 0 |-> <<>>], 1 .. 0)
      <4>1. 1 .. 0 = {}
        OBVIOUS
      <4> HIDE DEF G
      <4> QED
        BY <4>1
    <3> HIDE DEF F
    <3> QED
      BY <1>2, <3>1
  <2>2. ASSUME NEW k \in 0 .. N - 1, k \in S PROVE k + 1 \in S
    <3>1. PICK f : F(f, 1 .. k)
      BY <2>2
    <3> DEFINE h == [i \in 1 .. k + 1 |-> IF i = k + 1 THEN G(f, i) ELSE f[i]]
    <3>2. \A i \in 1 .. k + 1 : h[i] = G(h, i)
      <4> TAKE i \in 1 .. k + 1
      <4>1. i # 1 => h[i - 1] = f[i - 1]
        BY <1>2
      <4>2. G(h, i) = G(f, i)
        <5> HIDE DEF h
        <5> QED
          BY <4>1
      <4>3. CASE i = k + 1
        <5> HIDE DEF G
        <5> QED
          BY <4>2, <4>3
      <4>4. CASE i # k + 1
        <5>1. i \in 1 .. k
          BY <1>2, <4>4
        <5> HIDE DEF G
        <5>2. f[i] = G(f, i)
          BY <3>1, <5>1
        <5> QED
          BY <4>2, <4>4, <5>2
      <4> QED
        BY <4>3, <4>4
    <3>3. F(h, 1 .. k + 1)
      <4>1. h = [i \in 1 .. k + 1 |-> h[i]]
        OBVIOUS
      <4> HIDE DEF h, G
      <4> QED
        BY <3>2, <4>1
    <3> HIDE DEF F
    <3> QED
      BY <1>2, <3>3
  <2> HIDE DEF F
  <2>3. \A k \in 0 .. N : k \in S
    <3> HIDE DEF S
    <3> QED
      BY <1>2, <2>1, <2>2, Induction
  <2> QED
    BY <2>3
<1> DEFINE f == CHOOSE f : F(f, 1 .. N)
<1>4. F(f, 1 .. N)
  <2> HIDE DEF F
  <2>0. N \in 0 .. N
    BY <1>2
  <2>1. \E x : F(x, 1 .. N)
    BY <1>3, <2>0
  <2> QED
    BY <2>1, Zenon
<1>5. FlattenSeq(ss) = IF N = 0 THEN ss ELSE f[N]
  BY <1>1, Zenon
<1>6. \A i \in 1 .. N : f[i] = G(f, i)
  <2> HIDE DEF f, G
  <2> QED
    BY <1>4
<1> HIDE DEF f
<1> DEFINE g == [i \in 0 .. N |-> IF i = 0 THEN <<>> ELSE f[i]]
<1>7. g[0] = <<>>
  BY <1>2
<1>8. g[N] = FlattenSeq(ss)
  BY <1>2, <1>5
<1>9. ASSUME NEW i \in 1 .. N PROVE g[i] = g[i - 1] \o ss[i]
  <2>1. g[i] = f[i] /\ f[i] = G(f, i) /\ i - 1 \in 0 .. N /\ ss[i] \in Seq(T)
    BY <1>2, <1>6
  <2>2. CASE i = 1
    <3>1. g[i - 1] = <<>> /\ G(f, i) = ss[i]
      BY <1>7, <2>2
    <3>2. <<>> \o ss[i] = ss[i]
      BY <2>1, ConcatEmptySeq
    <3> HIDE DEF g, G
    <3> QED
      BY <2>1, <3>1, <3>2
  <2>3. CASE i # 1
    <3>1. G(f, i) = f[i - 1] \o ss[i]
      BY <2>3
    <3>2. i - 1 # 0
      BY <1>2, <2>3
    <3>3. g[i - 1] = f[i - 1]
      BY <2>1, <3>2
    <3> HIDE DEF g, G
    <3> QED
      BY <2>1, <3>1, <3>3
  <2> QED
    BY <2>2, <2>3
<1> HIDE DEF g
<1> QED
  BY <1>7, <1>8, <1>9 DEF N

\* Where each of them is in the whole: off[i] is the end of the i-th.
LEMMA FlattenParts ==
  ASSUME NEW T, NEW ss \in Seq(Seq(T))
  PROVE  /\ FlattenSeq(ss) \in Seq(T)
         /\ \E off : /\ off[0] = 0 /\ off[Len(ss)] = Len(FlattenSeq(ss))
                     /\ \A i \in 0 .. Len(ss) : off[i] \in 0 .. Len(FlattenSeq(ss))
                     /\ \A i \in 1 .. Len(ss) :
                          /\ off[i] = off[i - 1] + Len(ss[i])
                          /\ \A j \in 1 .. Len(ss[i]) :
                               FlattenSeq(ss)[off[i - 1] + j] = ss[i][j]
<1> DEFINE N == Len(ss)
<1>1. N \in Nat /\ \A i \in 1 .. N : ss[i] \in Seq(T)
  BY LenProperties, ElementOfSeq
<1>2. PICK g : /\ g[0] = <<>> /\ g[N] = FlattenSeq(ss)
               /\ \A i \in 1 .. N : g[i] = g[i - 1] \o ss[i]
  BY FlattenSteps
<1> HIDE DEF N
\* Up to the k-th.
<1> DEFINE Upto(k) ==
      /\ g[k] \in Seq(T)
      /\ \A i \in 0 .. k : Len(g[i]) \in 0 .. Len(g[k])
      /\ \A i \in 1 .. k :
           /\ Len(g[i]) = Len(g[i - 1]) + Len(ss[i])
           /\ \A j \in 1 .. Len(ss[i]) : g[k][Len(g[i - 1]) + j] = ss[i][j]
    S == {k \in 0 .. N : Upto(k)}
<1>3. 0 \in S
  <2>1. <<>> \in Seq(T) /\ Len(<<>>) = 0
    OBVIOUS
  <2>2. g[0] \in Seq(T) /\ Len(g[0]) = 0
    BY <1>2, <2>1
  <2>3. \A i \in 0 .. 0 : Len(g[i]) \in 0 .. Len(g[0])
    BY <2>2
  <2>4. 1 .. 0 = {}
    OBVIOUS
  <2>5. Upto(0)
    BY <2>2, <2>3, <2>4
  <2> HIDE DEF Upto
  <2> QED
    BY <1>1, <2>5
<1>4. ASSUME NEW k \in 0 .. N - 1, k \in S PROVE k + 1 \in S
  <2>1. Upto(k)
    BY <1>4
  <2>2. k + 1 \in 1 .. N /\ k + 1 \in 0 .. N /\ (k + 1) - 1 = k /\ k \in Nat
    BY <1>1
  <2> DEFINE a == g[k]
             b == ss[k + 1]
             c == g[k + 1]
  <2>3. c = a \o b
    BY <1>2, <2>2
  <2>4. a \in Seq(T) /\ b \in Seq(T)
    BY <1>1, <2>1, <2>2
  <2>5. /\ c \in Seq(T) /\ Len(c) = Len(a) + Len(b)
        /\ Len(a) \in Nat /\ Len(b) \in Nat
        /\ \A j \in 1 .. Len(a) : c[j] = a[j]
        /\ \A j \in 1 .. Len(b) : c[Len(a) + j] = b[j]
    <3> HIDE DEF a, b, c
    <3>1. /\ c \in Seq(T) /\ Len(c) = Len(a) + Len(b)
          /\ \A j \in 1 .. Len(a) + Len(b) :
               c[j] = IF j <= Len(a) THEN a[j] ELSE b[j - Len(a)]
      BY <2>3, <2>4, ConcatProperties
    <3>2. Len(a) \in Nat /\ Len(b) \in Nat
      BY <2>4, LenProperties
    <3> QED
      BY <3>1, <3>2
  <2>6. \A i \in 0 .. k + 1 : Len(g[i]) \in 0 .. Len(c)
    <3> TAKE i \in 0 .. k + 1
    <3>1. CASE i = k + 1
      <4>1. g[i] = c
        BY <3>1
      <4> HIDE DEF a, b, c
      <4>2. Len(c) \in 0 .. Len(c)
        BY <2>5
      <4> QED
        BY <4>1, <4>2
    <3>2. CASE i # k + 1
      <4>1. Len(g[i]) \in 0 .. Len(a)
        BY <2>1, <2>2, <3>2
      <4> HIDE DEF a, b, c
      <4> QED
        BY <2>5, <4>1
    <3> QED
      BY <3>1, <3>2
  <2>7. ASSUME NEW i \in 1 .. k + 1
        PROVE  /\ Len(g[i]) = Len(g[i - 1]) + Len(ss[i])
               /\ \A j \in 1 .. Len(ss[i]) : c[Len(g[i - 1]) + j] = ss[i][j]
    <3>1. CASE i = k + 1
      <4>1. g[i] = c /\ g[i - 1] = a /\ ss[i] = b
        BY <2>2, <3>1
      <4> HIDE DEF a, b, c
      <4> QED
        BY <2>5, <4>1
    <3>2. CASE i # k + 1
      <4>1. i \in 1 .. k /\ i \in 0 .. k /\ i - 1 \in 0 .. k /\ i \in 1 .. N
        BY <1>1, <2>2, <3>2
      <4>2. /\ Len(g[i]) = Len(g[i - 1]) + Len(ss[i])
            /\ \A j \in 1 .. Len(ss[i]) : a[Len(g[i - 1]) + j] = ss[i][j]
            /\ Len(g[i - 1]) \in 0 .. Len(a) /\ Len(g[i]) \in 0 .. Len(a)
        BY <2>1, <4>1
      <4>3. Len(ss[i]) \in Nat
        BY <1>1, <4>1, LenProperties
      <4>4. ASSUME NEW j \in 1 .. Len(ss[i])
            PROVE  c[Len(g[i - 1]) + j] = ss[i][j]
        <5> DEFINE x == Len(g[i - 1]) + j
        <5>1. x \in 1 .. Len(a)
          <6> DEFINE p == Len(g[i - 1])
                     q == Len(g[i])
                     l == Len(ss[i])
                     m == Len(a)
          <6>1. q = p + l /\ p \in 0 .. m /\ q \in 0 .. m /\ m \in Nat /\ l \in Nat
            BY <2>5, <4>2, <4>3
          <6>2. j \in 1 .. l
            OBVIOUS
          <6> HIDE DEF p, q, l, m
          <6>3. p + j \in 1 .. m
            BY <6>1, <6>2
          <6> QED
            BY <6>3 DEF p, m
        <5>2. a[x] = ss[i][j]
          BY <4>2
        <5> HIDE DEF a, b, c, x
        <5>3. c[x] = a[x]
          BY <2>5, <5>1
        <5> QED
          BY <5>2, <5>3 DEF x
      <4> QED
        BY <4>2, <4>4
    <3> QED
      BY <3>1, <3>2
  <2>8. Upto(k + 1)
    <3> QED
      BY <2>5, <2>6, <2>7
  <2> HIDE DEF Upto
  <2> QED
    BY <2>2, <2>8
<1>5. Upto(N)
  <2>1. \A k \in 0 .. N : k \in S
    <3> HIDE DEF S
    <3> QED
      BY <1>1, <1>3, <1>4, Induction
  <2> HIDE DEF Upto
  <2> QED
    BY <1>1, <2>1
<1> DEFINE off == [i \in 0 .. N |-> Len(g[i])]
<1>6. \A i \in 0 .. N : off[i] = Len(g[i])
  OBVIOUS
<1>7. /\ off[0] = 0 /\ off[N] = Len(FlattenSeq(ss))
  <2>1. Len(g[0]) = 0
    BY <1>2
  <2> HIDE DEF off
  <2> QED
    BY <1>1, <1>2, <1>6, <2>1
<1>8. \A i \in 1 .. N : i \in 0 .. N /\ i - 1 \in 0 .. N
  BY <1>1
<1>9. /\ FlattenSeq(ss) \in Seq(T)
      /\ \A i \in 0 .. N : off[i] \in 0 .. Len(FlattenSeq(ss))
      /\ \A i \in 1 .. N :
           /\ off[i] = off[i - 1] + Len(ss[i])
           /\ \A j \in 1 .. Len(ss[i]) : FlattenSeq(ss)[off[i - 1] + j] = ss[i][j]
  <2> HIDE DEF off
  <2> QED
    BY <1>2, <1>5, <1>6, <1>8
<1> HIDE DEF off
<1> QED
  BY <1>7, <1>9, ZenonT(30) DEF N

-----------------------------------------------------------------------------
\* A text, character by character.
LEMMA EncodedIs ==
  ASSUME NEW c \in CodePoints
  PROVE  EncodeCodePoint(c) \in Seq(Bytes) /\ Len(EncodeCodePoint(c)) \in 1 .. 4
<1>1. c \in Nat /\ c < 17 * Plane
  BY CodesAreNumbers, SMT DEF CodePoints, Plane
<1>2. \A b \in ContinuationBytes : b \in Bytes
  BY SMT DEF ContinuationBytes, Bytes
<1>3. /\ CreateByte(c, 1) \in Bytes
      /\ CreateByte(c, 64) \in Bytes
      /\ CreateByte(c, 4096) \in Bytes
  BY <1>1, <1>2, Codes
<1>4. CASE c < 128
  <2>1. EncodeCodePoint(c) = <<c>>
    BY <1>1, <1>4, SMT DEF EncodeCodePoint, Plane
  <2>2. c \in Bytes
    BY <1>1, <1>4, SMT DEF Bytes
  <2> QED
    BY <2>1, <2>2
<1>5. CASE 128 <= c /\ c < 2048
  <2>1. EncodeCodePoint(c) = <<192 + c \div 64, CreateByte(c, 1)>>
    BY <1>1, <1>5, SMT DEF EncodeCodePoint, Plane
  <2>2. PICK b \in Bytes : b = 192 + c \div 64
    BY <1>1, <1>5, SMT DEF Bytes
  <2> QED
    BY <1>3, <2>1, <2>2
<1>6. CASE 2048 <= c /\ c < Plane
  <2>1. EncodeCodePoint(c) = <<224 + c \div 4096, CreateByte(c, 64), CreateByte(c, 1)>>
    BY <1>1, <1>6, SMT DEF EncodeCodePoint, Plane
  <2>2. PICK b \in Bytes : b = 224 + c \div 4096
    BY <1>1, <1>6, SMT DEF Bytes, Plane
  <2> QED
    BY <1>3, <2>1, <2>2
<1>7. CASE Plane <= c
  <2>1. EncodeCodePoint(c) = <<240 + c \div (4 * Plane), CreateByte(c, 4096),
                               CreateByte(c, 64), CreateByte(c, 1)>>
    BY <1>1, <1>7, SMT DEF EncodeCodePoint, Plane
  <2>2. PICK b \in Bytes : b = 240 + c \div (4 * Plane)
    BY <1>1, <1>7, SMT DEF Bytes, Plane
  <2> QED
    BY <1>3, <2>1, <2>2
<1> QED
  BY <1>1, <1>4, <1>5, <1>6, <1>7, SMT DEF Plane

LEMMA ReadingSteps ==
  ASSUME NEW g, NEW o \in Nat, NEW e, Len(e) \in 1 .. 4,
         \A j \in 1 .. Len(e) : g[o + j] = DecodeSymbol(g[(o + j) - 1], e[j])
  PROVE  g[o + Len(e)] = Reading(g[o], e)
<1>1. 1 \in 1 .. Len(e) /\ (o + 1) - 1 = o /\ (o + 2) - 1 = o + 1 /\ (o + 3) - 1 = o + 2
      /\ (o + 4) - 1 = o + 3
  OBVIOUS
<1>2. g[o + 1] = DecodeSymbol(g[o], e[1])
  BY <1>1
<1>3. CASE Len(e) = 1
  BY <1>2, <1>3 DEF Reading
<1>4. Len(e) >= 2 => g[o + 2] = DecodeSymbol(g[o + 1], e[2])
  BY <1>1
<1>5. CASE Len(e) = 2
  BY <1>2, <1>4, <1>5 DEF Reading
<1>6. Len(e) >= 3 => g[o + 3] = DecodeSymbol(g[o + 2], e[3])
  BY <1>1
<1>7. CASE Len(e) = 3
  BY <1>2, <1>4, <1>6, <1>7 DEF Reading
<1>8. Len(e) >= 4 => g[o + 4] = DecodeSymbol(g[o + 3], e[4])
  BY <1>1
<1>9. CASE Len(e) = 4
  BY <1>2, <1>4, <1>6, <1>8, <1>9 DEF Reading
<1> QED
  BY <1>3, <1>5, <1>7, <1>9

LEMMA NewIsReady == Ready(NewReader)
<1>1. <<>> \in Seq(Nat)
  OBVIOUS
<1> QED
  BY <1>1 DEF Ready, Readers, NewReader

\* Whatever the text: what String.getBytes or the client writes of it is read
\* back by utf8.decode as that text, without an error and with no byte missing.
THEOREM TextSurvives ==
  ASSUME NEW text \in Seq(CodePoints)
  PROVE  /\ UTF8(text) \in Seq(Bytes)
         /\ Ready(UTF8Decode(UTF8(text)))
         /\ UTF8Decode(UTF8(text)).text = text
<1> DEFINE N == Len(text)
           ss == [i \in DOMAIN text |-> EncodeCodePoint(text[i])]
           bytes == FlattenSeq(ss)
<1>1. UTF8(text) = bytes
  BY Zenon DEF UTF8
<1>2. N \in Nat /\ DOMAIN text = 1 .. N /\ \A i \in 1 .. N : text[i] \in CodePoints
  BY LenProperties, ElementOfSeq
<1>3. \A i \in 1 .. N : /\ EncodeCodePoint(text[i]) \in Seq(Bytes)
                        /\ Len(EncodeCodePoint(text[i])) \in 1 .. 4
  BY <1>2, EncodedIs
<1>4. ss \in Seq(Seq(Bytes)) /\ Len(ss) = N /\ \A i \in 1 .. N : ss[i] = EncodeCodePoint(text[i])
  <2>1. DOMAIN ss = 1 .. N /\ \A i \in 1 .. N : ss[i] = EncodeCodePoint(text[i])
    BY <1>2
  <2>2. \A i \in 1 .. N : ss[i] \in Seq(Bytes)
    BY <1>3, <2>1
  <2>3. ss = [i \in 1 .. N |-> ss[i]]
    BY <1>2
  <2> HIDE DEF ss
  <2>4. ss \in Seq(Seq(Bytes))
    BY <1>2, <2>2, <2>3, IsASeq
  <2> QED
    BY <1>2, <2>1, <2>4, LenProperties
<1> HIDE DEF ss
<1>5. bytes \in Seq(Bytes)
  BY <1>4, FlattenParts
<1>6. PICK off : /\ off[0] = 0 /\ off[N] = Len(bytes)
                 /\ \A i \in 0 .. N : off[i] \in 0 .. Len(bytes)
                 /\ \A i \in 1 .. N :
                      /\ off[i] = off[i - 1] + Len(ss[i])
                      /\ \A j \in 1 .. Len(ss[i]) : bytes[off[i - 1] + j] = ss[i][j]
  <2>1. \E off : /\ off[0] = 0 /\ off[Len(ss)] = Len(bytes)
                 /\ \A i \in 0 .. Len(ss) : off[i] \in 0 .. Len(bytes)
                 /\ \A i \in 1 .. Len(ss) :
                      /\ off[i] = off[i - 1] + Len(ss[i])
                      /\ \A j \in 1 .. Len(ss[i]) : bytes[off[i - 1] + j] = ss[i][j]
    BY <1>4, FlattenParts, ZenonT(30)
  <2> HIDE DEF bytes, N
  <2> QED
    BY <1>4, <2>1
<1> HIDE DEF bytes
<1>7. PICK g : /\ g[0] = NewReader /\ g[Len(bytes)] = UTF8Decode(bytes)
               /\ \A i \in 1 .. Len(bytes) : g[i] = DecodeSymbol(g[i - 1], bytes[i])
  BY <1>5, DecodeSteps, Zenon
<1> DEFINE Told(k) == g[off[k]].text
           Upto(k) == /\ Ready(g[off[k]])
                      /\ Len(Told(k)) = k
                      /\ \A i \in 1 .. k : Told(k)[i] = text[i]
           S == {k \in 0 .. N : Upto(k)}
<1> HIDE DEF N
<1>8. 0 \in S
  <2>1. g[off[0]] = NewReader
    BY <1>6, <1>7, Zenon
  <2>2. Ready(g[off[0]])
    BY <2>1, NewIsReady, Zenon
  <2>3. Len(Told(0)) = 0 /\ 1 .. 0 = {}
    BY <2>1 DEF NewReader
  <2>4. Upto(0)
    BY <2>2, <2>3
  <2> HIDE DEF Upto
  <2> QED
    BY <1>2, <2>4
<1>9. ASSUME NEW k \in 0 .. N - 1, k \in S PROVE k + 1 \in S
  <2>1. Upto(k)
    BY <1>9
  <2>2. k + 1 \in 1 .. N /\ k + 1 \in 0 .. N /\ k \in 0 .. N /\ (k + 1) - 1 = k /\ k \in Nat
    BY <1>2
  <2> DEFINE o == off[k]
             e == ss[k + 1]
  <2>3. /\ o \in Nat /\ off[k + 1] = o + Len(e) /\ off[k + 1] \in 0 .. Len(bytes)
        /\ \A j \in 1 .. Len(e) : bytes[o + j] = e[j]
    BY <1>6, <2>2
  <2>4. e = EncodeCodePoint(text[k + 1]) /\ Len(e) \in 1 .. 4 /\ text[k + 1] \in CodePoints
    BY <1>2, <1>3, <1>4, <2>2
  <2>5. ASSUME NEW j \in 1 .. Len(e) PROVE g[o + j] = DecodeSymbol(g[(o + j) - 1], e[j])
    <3>1. o + j \in 1 .. Len(bytes)
      <4> HIDE DEF e, o
      <4>1. Len(bytes) \in Nat
        BY <1>5, LenProperties
      <4> QED
        BY <2>3, <2>4, <4>1
    <3>2. bytes[o + j] = e[j]
      BY <2>3
    <3> DEFINE x == o + j
    <3>3. g[x] = DecodeSymbol(g[x - 1], bytes[x])
      <4>1. x \in 1 .. Len(bytes)
        BY <3>1
      <4> HIDE DEF x
      <4> QED
        BY <1>7, <4>1
    <3>4. g[x] = DecodeSymbol(g[x - 1], e[j])
      <4>1. bytes[x] = e[j]
        BY <3>2
      <4> HIDE DEF x, e
      <4> QED
        BY <3>3, <4>1
    <3> QED
      BY <3>4
  <2>6. g[off[k + 1]] = Reading(g[o], e)
    <3> HIDE DEF e, o
    <3>1. g[o + Len(e)] = Reading(g[o], e)
      <4>1. o \in Nat /\ Len(e) \in 1 .. 4
        BY <2>3, <2>4, Zenon
      <4>2. \A j \in 1 .. Len(e) : g[o + j] = DecodeSymbol(g[(o + j) - 1], e[j])
        BY <2>5
      <4> QED
        BY <4>1, <4>2, ReadingSteps, Zenon
    <3> QED
      BY <2>3, <3>1
  <2>7. HasRead(g[off[k + 1]], g[o], text[k + 1])
    <3>1. HasRead(Reading(g[o], EncodeCodePoint(text[k + 1])), g[o], text[k + 1])
      BY <2>1, <2>4, SymbolSurvives
    <3> HIDE DEF e, o
    <3> QED
      BY <2>4, <2>6, <3>1, Zenon
  <2>8. Ready(g[off[k + 1]]) /\ Told(k + 1) = Append(Told(k), text[k + 1])
    BY <2>7 DEF HasRead
  <2>9. Told(k) \in Seq(Nat) /\ text[k + 1] \in Nat
    BY <2>1, <2>4, CodesAreNumbers DEF Ready, Readers
  <2>10. Upto(k + 1)
    <3> DEFINE s == Told(k)
               t == Told(k + 1)
               c == text[k + 1]
    <3>1. Len(s) = k /\ \A i \in 1 .. k : s[i] = text[i]
      BY <2>1
    <3>2. t = Append(s, c) /\ s \in Seq(Nat) /\ c \in Nat
      BY <2>8, <2>9
    <3> HIDE DEF s, t, c
    <3>3. Len(t) = Len(s) + 1 /\ t[Len(s) + 1] = c /\ \A i \in 1 .. Len(s) : t[i] = s[i]
      BY <3>2, AppendProperties
    <3>4. \A i \in 1 .. k + 1 : t[i] = text[i]
      <4> TAKE i \in 1 .. k + 1
      <4>1. CASE i = k + 1
        BY <3>1, <3>3, <4>1 DEF c
      <4>2. CASE i # k + 1
        <5>1. i \in 1 .. k
          BY <2>2, <4>2
        <5> QED
          BY <3>1, <3>3, <5>1
      <4> QED
        BY <4>1, <4>2
    <3> QED
      BY <2>2, <2>8, <3>1, <3>3, <3>4 DEF t
  <2> HIDE DEF Upto
  <2> QED
    BY <2>2, <2>10
<1>10. Upto(N)
  <2>1. \A k \in 0 .. N : k \in S
    <3> HIDE DEF S
    <3> QED
      BY <1>2, <1>8, <1>9, Induction
  <2> HIDE DEF Upto
  <2> QED
    BY <1>2, <2>1
<1> DEFINE r == UTF8Decode(bytes)
<1>11. g[off[N]] = r
  BY <1>6, <1>7, Zenon
<1>12. Ready(r) /\ Len(r.text) = N /\ \A i \in 1 .. N : r.text[i] = text[i]
  BY <1>10, <1>11, Zenon
<1>13. r.text = text
  <2>1. r.text \in Seq(Nat) /\ text \in Seq(Nat)
    <3>1. r.text \in Seq(Nat)
      BY <1>12 DEF Ready, Readers
    <3>2. text \in Seq(Nat)
      BY CodesAreNumbers, SeqMonotonic
    <3> QED
      BY <3>1, <3>2
  <2> HIDE DEF r
  <2> QED
    BY <1>12, <2>1, SeqEqual DEF N
<1> QED
  BY <1>1, <1>5, <1>12, <1>13, Zenon

-----------------------------------------------------------------------------
\* What is where in a payload.  At(s, o): s stands in it after position o.
At(s, o) == /\ o \in Nat /\ s \in Seq(Nat) /\ o + Len(s) <= Len(payload)
            /\ \A j \in 1 .. Len(s) : payload[o + j] = s[j]

LEMMA AtConcat ==
  ASSUME payload \in Seq(Nat), NEW a \in Seq(Nat), NEW b \in Seq(Nat), NEW o, At(a \o b, o)
  PROVE  At(a, o) /\ At(b, o + Len(a))
<1> DEFINE c == a \o b
<1>1. /\ Len(c) = Len(a) + Len(b)
      /\ \A j \in 1 .. Len(a) + Len(b) :
           c[j] = IF j <= Len(a) THEN a[j] ELSE b[j - Len(a)]
  BY ConcatProperties
<1>2. Len(a) \in Nat /\ Len(b) \in Nat
  BY LenProperties
<1>3. /\ o \in Nat /\ o + Len(c) <= Len(payload)
      /\ \A j \in 1 .. Len(c) : payload[o + j] = c[j]
  BY DEF At
<1> HIDE DEF c
<1>4. ASSUME NEW j \in 1 .. Len(a) PROVE payload[o + j] = a[j]
  <2>1. j \in 1 .. Len(c) /\ j \in 1 .. Len(a) + Len(b) /\ j <= Len(a)
    BY <1>1, <1>2
  <2> QED
    BY <1>1, <1>3, <2>1
<1>5. ASSUME NEW j \in 1 .. Len(b) PROVE payload[(o + Len(a)) + j] = b[j]
  <2> DEFINE k == Len(a) + j
  <2>1. k \in 1 .. Len(c) /\ k \in 1 .. Len(a) + Len(b) /\ ~ (k <= Len(a)) /\ k - Len(a) = j
        /\ o + k = (o + Len(a)) + j
    BY <1>1, <1>2, <1>3, SMTT(30)
  <2> HIDE DEF k
  <2>2. payload[o + k] = c[k] /\ c[k] = b[k - Len(a)]
    BY <1>1, <1>3, <2>1
  <2> QED
    BY <2>1, <2>2
<1>6. o + Len(a) \in Nat /\ o + Len(a) <= Len(payload) /\ (o + Len(a)) + Len(b) <= Len(payload)
  <2> DEFINE x == Len(a)
             y == Len(b)
             z == Len(payload)
             w == Len(c)
  <2>1. x \in Nat /\ y \in Nat /\ z \in Nat /\ o \in Nat /\ w = x + y /\ o + w <= z
    BY <1>1, <1>2, <1>3, LenProperties
  <2> HIDE DEF x, y, z, w
  <2>2. o + x \in Nat /\ (o + x) + y <= z /\ o + x <= (o + x) + y
    BY <2>1
  <2>3. o + x <= z
    BY <2>1
  <2> QED
    BY <2>2, <2>3 DEF x, y, z
<1> QED
  BY <1>3, <1>4, <1>5, <1>6 DEF At

LEMMA AtOne ==
  ASSUME NEW x \in Nat, NEW o, At(<<x>>, o)
  PROVE  payload[o + 1] = x /\ o + 1 <= Len(payload)
<1>1. Len(<<x>>) = 1 /\ <<x>>[1] = x /\ 1 \in 1 .. 1
  OBVIOUS
<1> QED
  BY <1>1 DEF At

LEMMA DataAt ==
  ASSUME payload \in Seq(Nat), NEW s, NEW o, At(s, o)
  PROVE  Data(o + 1, o + Len(s)) = s
<1>1. /\ o \in Nat /\ s \in Seq(Nat) /\ o + Len(s) <= Len(payload)
      /\ \A j \in 1 .. Len(s) : payload[o + j] = s[j]
  BY DEF At
<1>2. Len(s) \in Nat /\ Len(payload) \in Nat
  BY <1>1, LenProperties
<1> DEFINE n == Len(s)
           t == SubSeq(payload, o + 1, o + n)
<1>3. /\ \A i \in o + 1 .. o + n : i \in 1 .. Len(payload)
      /\ \A i \in 1 .. n : o + i \in 1 .. Len(payload) /\ ((o + 1) + i) - 1 = o + i
      /\ o + 1 \in Nat /\ o + n \in Nat /\ o + 1 >= 1
  <2> DEFINE z == Len(payload)
  <2>1. n \in Nat /\ z \in Nat /\ o \in Nat /\ o + n <= z
    BY <1>1, <1>2
  <2> HIDE DEF n, z
  <2> QED
    BY <2>1 DEF z
<1>4. t \in Seq(Nat) /\ Len(t) = n /\ \A i \in 1 .. n : t[i] = payload[o + i]
  <2>1. t = [i \in 1 .. n |-> payload[(o + 1 + i) - 1]]
    <3>1. (o + n) - (o + 1) + 1 = n
      BY <1>1, <1>2
    <3> HIDE DEF n
    <3> QED
      BY <1>1, <1>2, <1>3, <3>1, SMTT(30)
  <2>2. \A i \in 1 .. n : t[i] = payload[o + i]
    BY <1>1, <1>3, <2>1
  <2> HIDE DEF n, t
  <2>3. \A i \in 1 .. n : payload[o + i] \in Nat
    BY <1>3, ElementOfSeq
  <2> QED
    BY <1>2, <2>1, <2>2, <2>3 DEF n
<1>5. t = s
  <2> HIDE DEF t
  <2> QED
    BY <1>1, <1>4, SeqEqual
<1> QED
  BY <1>5 DEF Data

LEMMA RunAt ==
  ASSUME payload \in Seq(Nat), NEW s, NEW o, At(s, o), NEW S, s \in Seq(S),
         o + Len(s) + 1 <= Len(payload), payload[o + Len(s) + 1] \notin S
  PROVE  Run(o, S) = Len(s)
<1> DEFINE n == Len(s)
           z == Len(payload)
           e == o + n + 1
           stops == {i \in o + 1 .. z : payload[i] \notin S}
<1>1. /\ o \in Nat /\ n \in Nat /\ z \in Nat /\ e <= z /\ payload[e] \notin S
      /\ \A j \in 1 .. n : payload[o + j] = s[j] /\ s[j] \in S
  <2>1. \A j \in 1 .. n : s[j] \in S
    BY ElementOfSeq
  <2>2. n \in Nat /\ z \in Nat
    BY LenProperties
  <2> QED
    BY <2>1, <2>2 DEF At
<1> HIDE DEF n, z
<1>2. e \in stops
  BY <1>1
<1>3. \A i \in stops : e <= i
  <2> SUFFICES ASSUME NEW i \in stops, i < e PROVE FALSE
    BY <1>1
  <2>1. i \in o + 1 .. z /\ payload[i] \notin S
    OBVIOUS
  <2>2. i - o \in 1 .. n /\ o + (i - o) = i
    BY <1>1, <2>1
  <2>3. payload[o + (i - o)] \in S
    BY <1>1, <2>2
  <2> QED
    BY <2>1, <2>2, <2>3
<1>4. Min(stops) = e
  <2>1. stops \in SUBSET Nat /\ e \in Nat
    BY <1>1
  <2> HIDE DEF stops, e
  <2>2. Min(stops) \in stops /\ \A y \in stops : Min(stops) <= y
    BY <1>2, <2>1, MinOf
  <2>3. Min(stops) <= e /\ e <= Min(stops) /\ Min(stops) \in Nat
    BY <1>2, <1>3, <2>1, <2>2
  <2> QED
    BY <2>1, <2>3
<1>5. Run(o, S) = (IF stops = {} THEN z ELSE Min(stops) - 1) - o
  BY Zenon DEF Run, z
<1>6. Run(o, S) = (e - 1) - o
  <2> HIDE DEF stops, e
  <2> QED
    BY <1>2, <1>4, <1>5
<1>7. (e - 1) - o = n
  BY <1>1
<1> QED
  BY <1>6, <1>7 DEF n

-----------------------------------------------------------------------------
\* What the encoders make.
LEMMA PacketIs ==
  ASSUME NEW p \in Packets
  PROVE  /\ p.type \in 0 .. 6 /\ p.binary \in BOOLEAN
         /\ p = [type |-> p.type, binary |-> p.binary, data |-> p.data]
         /\ p.binary => p.data \in Seq(Bytes) /\ p.type = MESSAGE
         /\ ~p.binary => p.data \in Seq(CodePoints)
         /\ p.data \in Seq(Nat)
<1>1. /\ p \in [type : 0 .. 6, binary : BOOLEAN, data : Seq(Bytes) \cup Seq(CodePoints)]
      /\ p.data \in Seq(IF p.binary THEN Bytes ELSE CodePoints)
      /\ p.binary => p.type = MESSAGE
  BY Zenon DEF Packets
<1>2. /\ p.type \in 0 .. 6 /\ p.binary \in BOOLEAN
      /\ p = [type |-> p.type, binary |-> p.binary, data |-> p.data]
  BY <1>1
<1>3. /\ p.binary => p.data \in Seq(Bytes) /\ p.type = MESSAGE
      /\ ~p.binary => p.data \in Seq(CodePoints)
  BY <1>1, Zenon
<1>4. Bytes \subseteq Nat /\ CodePoints \subseteq Nat
  BY CodesAreNumbers, SMT DEF Bytes
<1>5. p.data \in Seq(Nat)
  BY <1>1, <1>4, SeqMonotonic, Zenon
<1> QED
  BY <1>2, <1>3, <1>5, Zenon

LEMMA OctetsIs ==
  ASSUME NEW p \in Packets
  PROVE  /\ Octets(p) \in Seq(Bytes) /\ Octets(p) \in Seq(Nat)
         /\ TypeOf(p) \in Nat /\ TypeOf(p) \in Bytes
         /\ TypeOf(p) - (IF p.binary THEN 0 ELSE 48) = p.type
         /\ Len(Octets(p)) + 1 \in Nat
<1>1. p.type \in 0 .. 6 /\ p.binary \in BOOLEAN
  BY PacketIs
<1>2. Octets(p) \in Seq(Bytes)
  <2>1. CASE p.binary
    BY <2>1, PacketIs, Zenon DEF Octets
  <2>2. CASE ~p.binary
    <3>1. UTF8(p.data) \in Seq(Bytes)
      BY <2>2, PacketIs, TextSurvives
    <3> QED
      BY <2>2, <3>1, Zenon DEF Octets
  <2> QED
    BY <2>1, <2>2
<1>3. Bytes \subseteq Nat
  BY SMT DEF Bytes
<1>4. Octets(p) \in Seq(Nat)
  BY <1>2, <1>3, SeqMonotonic, Zenon
<1>5. TypeOf(p) \in Bytes /\ TypeOf(p) - (IF p.binary THEN 0 ELSE 48) = p.type
  BY <1>1, SMT DEF TypeOf, Bytes
<1>6. Len(Octets(p)) + 1 \in Nat
  BY <1>2, LenProperties
<1> QED
  BY <1>2, <1>3, <1>4, <1>5, <1>6

LEMMA BodyIs ==
  ASSUME NEW p \in Packets
  PROVE  /\ Body(p) = <<TypeOf(p)>> \o Octets(p)
         /\ Body(p) \in Seq(Bytes) /\ Body(p) \in Seq(Nat)
         /\ Len(Body(p)) = Len(Octets(p)) + 1
<1>1. <<TypeOf(p)>> \in Seq(Bytes) /\ Len(<<TypeOf(p)>>) = 1
  BY OctetsIs
<1>2. Octets(p) \in Seq(Bytes) /\ Len(Octets(p)) \in Nat
  BY OctetsIs, LenProperties
<1>3. Body(p) = <<TypeOf(p)>> \o Octets(p)
  BY Zenon DEF Body
<1>4. Body(p) \in Seq(Bytes) /\ Len(Body(p)) = Len(<<TypeOf(p)>>) + Len(Octets(p))
  BY <1>1, <1>2, <1>3, ConcatProperties
<1>5. Bytes \subseteq Nat
  BY SMT DEF Bytes
<1>6. Body(p) \in Seq(Nat)
  BY <1>4, <1>5, SeqMonotonic, Zenon
<1> QED
  BY <1>1, <1>2, <1>3, <1>4, <1>6

\* The bytes of a length: its digits, or their characters.
LEMMA LengthIs ==
  ASSUME NEW n \in Nat
  PROVE  /\ Digits[n] \in Seq(0 .. 9) /\ Digits[n] \in Seq(Nat) /\ Digits[n] \in Seq(Bytes)
         /\ Digits[n] \in Seq(Bytes \ {Separator})
         /\ ASCII(Digits[n]) \in Seq(48 .. 57) /\ ASCII(Digits[n]) \in Seq(Nat)
         /\ ASCII(Digits[n]) \in Seq(Bytes)
         /\ Len(ASCII(Digits[n])) = Len(Digits[n])
         /\ \A i \in 1 .. Len(Digits[n]) : ASCII(Digits[n])[i] = Digits[n][i] + 48
         /\ Len(Digits[n]) \in Nat /\ Len(Digits[n]) >= 1
<1> DEFINE ds == Digits[n]
           as == ASCII(ds)
<1>1. ds \in Seq(0 .. 9) /\ Len(ds) >= 1 /\ Len(ds) \in Nat /\ DOMAIN ds = 1 .. Len(ds)
      /\ \A i \in 1 .. Len(ds) : ds[i] \in 0 .. 9
  <2>1. ds \in Seq(0 .. 9) /\ Len(ds) >= 1
    BY LengthSurvives
  <2> HIDE DEF ds
  <2> QED
    BY <2>1, LenProperties, ElementOfSeq
<1>2. /\ 0 .. 9 \subseteq Nat /\ 0 .. 9 \subseteq Bytes /\ 0 .. 9 \subseteq Bytes \ {Separator}
      /\ 48 .. 57 \subseteq Nat /\ 48 .. 57 \subseteq Bytes
  BY SMT DEF Bytes, Separator
<1> HIDE DEF ds
<1>3. ds \in Seq(Nat) /\ ds \in Seq(Bytes) /\ ds \in Seq(Bytes \ {Separator})
  <2>1. Seq(0 .. 9) \subseteq Seq(Nat)
    BY <1>2, SeqMonotonic, Zenon
  <2>2. Seq(0 .. 9) \subseteq Seq(Bytes)
    BY <1>2, SeqMonotonic, Zenon
  <2>3. Seq(0 .. 9) \subseteq Seq(Bytes \ {Separator})
    BY <1>2, SeqMonotonic, Zenon
  <2> QED
    BY <1>1, <2>1, <2>2, <2>3, Zenon
<1>4. as = [i \in 1 .. Len(ds) |-> ds[i] + 48]
  BY <1>1, Zenon DEF ASCII
<1> HIDE DEF as
<1>5. \A i \in 1 .. Len(ds) : as[i] = ds[i] + 48 /\ as[i] \in 48 .. 57
  BY <1>1, <1>4
<1>6. as \in Seq(48 .. 57) /\ Len(as) = Len(ds)
  <2> DEFINE C == 48 .. 57
             n0 == Len(ds)
  <2>1. as \in [1 .. n0 -> C]
    BY <1>4, <1>5
  <2>2. n0 \in Nat
    BY <1>1
  <2> HIDE DEF C, n0
  <2>3. as \in Seq(C) /\ DOMAIN as = 1 .. n0
    <3>1. as \in UNION {[1 .. n1 -> C] : n1 \in Nat}
      BY <2>1, <2>2, Zenon
    <3>2. as \in Seq(C)
      BY <3>1, SeqDef, Zenon
    <3> QED
      BY <2>1, <3>2, Zenon
  <2>4. Len(as) = n0
    BY <2>2, <2>3, LenProperties
  <2> QED
    BY <2>3, <2>4 DEF C, n0
<1>7. as \in Seq(Nat) /\ as \in Seq(Bytes)
  <2>1. Seq(48 .. 57) \subseteq Seq(Nat)
    BY <1>2, SeqMonotonic, ZenonT(60)
  <2>2. Seq(48 .. 57) \subseteq Seq(Bytes)
    BY <1>2, SeqMonotonic, ZenonT(60)
  <2> QED
    BY <1>6, <2>1, <2>2, Zenon
<1> QED
  BY <1>1, <1>3, <1>5, <1>6, <1>7 DEF ds, as

\* A sequence of one number, and of two.
LEMMA ShortSeqs ==
  /\ \A x \in Bytes : <<x>> \in Seq(Bytes) /\ <<x>> \in Seq(Nat) /\ Len(<<x>>) = 1
  /\ \A x, y \in Bytes : /\ <<x, y>> \in Seq(Bytes) /\ <<x, y>> \in Seq(Nat)
                         /\ Len(<<x, y>>) = 2 /\ <<x, y>> = <<x>> \o <<y>>
<1>1. \A x \in Bytes : x \in Nat
  BY SMT DEF Bytes
<1>2. ASSUME NEW x \in Bytes PROVE <<x>> \in Seq(Bytes) /\ <<x>> \in Seq(Nat) /\ Len(<<x>>) = 1
  BY <1>1
<1>3. ASSUME NEW x \in Bytes, NEW y \in Bytes
      PROVE  /\ <<x, y>> \in Seq(Bytes) /\ <<x, y>> \in Seq(Nat)
             /\ Len(<<x, y>>) = 2 /\ <<x, y>> = <<x>> \o <<y>>
  <2>1. <<x, y>> \in Seq(Bytes) /\ <<x, y>> \in Seq(Nat) /\ Len(<<x, y>>) = 2
    BY <1>1
  <2> DEFINE s == <<x>>
             t == <<y>>
             u == <<x, y>>
             v == s \o t
  <2>2. s \in Seq(Nat) /\ t \in Seq(Nat) /\ Len(s) = 1 /\ Len(t) = 1 /\ s[1] = x /\ t[1] = y
    BY <1>1
  <2>3. u \in Seq(Nat) /\ Len(u) = 2 /\ u[1] = x /\ u[2] = y
    BY <1>1
  <2> HIDE DEF s, t, u
  <2>4. v \in Seq(Nat) /\ Len(v) = 2 /\ v[1] = x /\ v[2] = y
    BY <2>2, ConcatProperties, SMTT(30)
  <2> HIDE DEF v
  <2>5. \A i \in 1 .. 2 : u[i] = v[i]
    <3>1. \A i \in 1 .. 2 : i = 1 \/ i = 2
      OBVIOUS
    <3> QED
      BY <2>3, <2>4, <3>1
  <2>6. u = v
    BY <2>3, <2>4, <2>5, SeqEqual
  <2> QED
    BY <2>1, <2>6 DEF s, t, u, v
<1> QED
  BY <1>2, <1>3

LEMMA Concat ==
  ASSUME NEW a \in Seq(Bytes), NEW b \in Seq(Bytes)
  PROVE  /\ a \o b \in Seq(Bytes) /\ a \o b \in Seq(Nat)
         /\ Len(a \o b) = Len(a) + Len(b)
         /\ Len(a) \in Nat /\ Len(b) \in Nat
<1>1. Bytes \subseteq Nat
  BY SMT DEF Bytes
<1>2. a \o b \in Seq(Bytes) /\ Len(a \o b) = Len(a) + Len(b)
  BY ConcatProperties
<1>3. a \o b \in Seq(Nat)
  BY <1>1, <1>2, SeqMonotonic, Zenon
<1> QED
  BY <1>2, <1>3, LenProperties

-----------------------------------------------------------------------------
\* Four parts, one behind the other.
LEMMA FourParts ==
  ASSUME payload \in Seq(Nat), NEW a \in Seq(Bytes), NEW b \in Seq(Bytes), NEW c \in Seq(Bytes),
         NEW d \in Seq(Bytes), NEW o, At(((a \o b) \o c) \o d, o)
  PROVE  /\ At(a, o) /\ At(b, o + Len(a)) /\ At(c, (o + Len(a)) + Len(b))
         /\ At(d, ((o + Len(a)) + Len(b)) + Len(c))
         /\ Len(((a \o b) \o c) \o d) = ((Len(a) + Len(b)) + Len(c)) + Len(d)
         /\ Len(a) \in Nat /\ Len(b) \in Nat /\ Len(c) \in Nat /\ Len(d) \in Nat /\ o \in Nat
<1> DEFINE ab == a \o b
           abc == ab \o c
           abcd == abc \o d
<1>0. \A s \in Seq(Bytes) : s \in Seq(Nat)
  <2>1. Bytes \subseteq Nat
    BY SMT DEF Bytes
  <2> QED
    BY <2>1, SeqMonotonic, Zenon
<1>1. ab \in Seq(Bytes) /\ Len(ab) = Len(a) + Len(b) /\ Len(a) \in Nat /\ Len(b) \in Nat
  BY Concat
<1>2. abc \in Seq(Bytes) /\ Len(abc) = Len(ab) + Len(c) /\ Len(c) \in Nat
  <2> HIDE DEF ab
  <2> QED
    BY <1>1, Concat
<1>3. abcd \in Seq(Bytes) /\ Len(abcd) = Len(abc) + Len(d) /\ Len(d) \in Nat
  <2> HIDE DEF abc
  <2> QED
    BY <1>2, Concat
<1>4. At(abc, o) /\ At(d, o + Len(abc))
  <2>1. abc \in Seq(Nat) /\ d \in Seq(Nat)
    BY <1>0, <1>2
  <2>2. At(abc \o d, o)
    OBVIOUS
  <2> HIDE DEF abc
  <2> QED
    BY <2>1, <2>2, AtConcat
<1>5. At(ab, o) /\ At(c, o + Len(ab))
  <2>1. ab \in Seq(Nat) /\ c \in Seq(Nat)
    BY <1>0, <1>1
  <2> HIDE DEF ab
  <2> QED
    BY <1>4, <2>1, AtConcat DEF abc
<1>6. At(a, o) /\ At(b, o + Len(a))
  <2>1. a \in Seq(Nat) /\ b \in Seq(Nat)
    BY <1>0
  <2> QED
    BY <1>5, <2>1, AtConcat DEF ab
<1>7. o \in Nat
  BY <1>6 DEF At
<1>8. o + Len(ab) = (o + Len(a)) + Len(b) /\ o + Len(abc) = ((o + Len(a)) + Len(b)) + Len(c)
      /\ Len(abcd) = ((Len(a) + Len(b)) + Len(c)) + Len(d)
  <2> HIDE DEF ab, abc, abcd
  <2> QED
    BY <1>1, <1>2, <1>3, <1>7
<1> HIDE DEF ab, abc
<1> QED
  BY <1>1, <1>2, <1>3, <1>4, <1>5, <1>6, <1>7, <1>8 DEF abcd

LEMMA Assoc ==
  ASSUME NEW a \in Seq(Bytes), NEW b \in Seq(Bytes), NEW c \in Seq(Bytes)
  PROVE  a \o (b \o c) = (a \o b) \o c
BY ConcatAssociative, SMTT(30)

\* Of a packet in the binary form: what is where.
Marker(p) == IF p.binary THEN 1 ELSE 0

LEMMA BinaryIs ==
  ASSUME NEW p \in Packets
  PROVE  /\ BinaryEncode(p) =
              ((<<Marker(p)>> \o EncodeLength(p)) \o <<Separator, TypeOf(p)>>) \o Octets(p)
         /\ Marker(p) \in Bytes /\ Separator \in Bytes /\ TypeOf(p) \in Bytes
         /\ <<Marker(p)>> \in Seq(Bytes) /\ EncodeLength(p) \in Seq(Bytes)
         /\ <<Separator, TypeOf(p)>> \in Seq(Bytes) /\ Octets(p) \in Seq(Bytes)
         /\ BinaryEncode(p) \in Seq(Bytes)
         /\ ClientBinary(p) = BinaryEncode(p)
<1>1. BinaryEncode(p) =
        ((<<Marker(p)>> \o EncodeLength(p)) \o <<Separator, TypeOf(p)>>) \o Octets(p)
  BY Zenon DEF BinaryEncode, Marker
<1>2. Marker(p) \in Bytes /\ Separator \in Bytes /\ TypeOf(p) \in Bytes
  <2>1. Marker(p) \in Bytes /\ Separator \in Bytes
    BY SMT DEF Marker, Bytes, Separator
  <2> QED
    BY <2>1, OctetsIs
<1>3. /\ <<Marker(p)>> \in Seq(Bytes) /\ <<Separator, TypeOf(p)>> \in Seq(Bytes)
      /\ <<Separator>> \in Seq(Bytes) /\ <<TypeOf(p)>> \in Seq(Bytes)
      /\ <<Separator, TypeOf(p)>> = <<Separator>> \o <<TypeOf(p)>>
  BY <1>2, ShortSeqs
<1>4. Octets(p) \in Seq(Bytes) /\ Len(Octets(p)) + 1 \in Nat
  BY OctetsIs
<1>5. EncodeLength(p) \in Seq(Bytes)
  BY <1>4, LengthIs DEF EncodeLength
<1> DEFINE a == <<Marker(p)>>
           b == EncodeLength(p)
           c == <<Separator>>
           d == <<TypeOf(p)>>
           e == Octets(p)
           ab == a \o b
<1>6. ab \in Seq(Bytes)
  BY <1>3, <1>5, Concat
<1>7. BinaryEncode(p) = (ab \o (c \o d)) \o e
  BY <1>1, <1>3, Zenon
<1>8. ClientBinary(p) = (ab \o c) \o (d \o e)
  <2>1. Len(Body(p)) = Len(Octets(p)) + 1
    BY BodyIs
  <2>2. Digits[Len(Body(p))] = b
    BY <2>1, Zenon DEF EncodeLength
  <2> QED
    BY <2>2, Zenon DEF ClientBinary, Body, Marker
<1>9. c \in Seq(Bytes) /\ d \in Seq(Bytes) /\ e \in Seq(Bytes)
  BY <1>3, <1>4, Zenon
<1> HIDE DEF a, b, c, d, e, ab
<1>10. (ab \o (c \o d)) \o e = (ab \o c) \o (d \o e)
  <2>1. c \o d \in Seq(Bytes) /\ ab \o c \in Seq(Bytes)
    BY <1>6, <1>9, Concat
  <2>2. ab \o (c \o d) = (ab \o c) \o d
    BY <1>6, <1>9, Assoc
  <2>3. ((ab \o c) \o d) \o e = (ab \o c) \o (d \o e)
    BY <1>9, <2>1, Assoc, SMTT(30)
  <2> QED
    BY <2>2, <2>3, Zenon
<1>11. BinaryEncode(p) \in Seq(Bytes)
  <2>1. ab \o c \in Seq(Bytes) /\ d \o e \in Seq(Bytes)
    BY <1>6, <1>9, Concat
  <2>2. (ab \o c) \o (d \o e) \in Seq(Bytes)
    BY <2>1, Concat
  <2> QED
    BY <1>7, <1>10, <2>2, Zenon
<1> QED
  BY <1>1, <1>2, <1>3, <1>4, <1>5, <1>7, <1>8, <1>10, <1>11, Zenon

\* It stands after o, with n digits of its length and l bytes of data.
BinaryLayout(p, o, n, l) ==
  /\ o \in Nat /\ n \in Nat /\ l \in Nat /\ n >= 1
  /\ Len(BinaryEncode(p)) = n + l + 3 /\ o + n + 3 + l <= Len(payload)
  /\ payload[o + 1] = Marker(p)
  /\ At(EncodeLength(p), o + 1)
  /\ payload[o + n + 2] = Separator
  /\ payload[o + n + 3] = TypeOf(p)
  /\ Number(Data(o + 2, o + 1 + n)) = l + 1
  /\ Data(o + n + 4, o + n + 3 + l) = Octets(p)

LEMMA BinaryAt ==
  ASSUME payload \in Seq(Nat), NEW p \in Packets, NEW o, At(BinaryEncode(p), o),
         NEW n, n = Len(EncodeLength(p)), NEW l, l = Len(Octets(p))
  PROVE  BinaryLayout(p, o, n, l)
<1> DEFINE a == <<Marker(p)>>
           b == EncodeLength(p)
           c == <<Separator, TypeOf(p)>>
           d == Octets(p)
<1>1. BinaryEncode(p) = ((a \o b) \o c) \o d
      /\ a \in Seq(Bytes) /\ b \in Seq(Bytes) /\ c \in Seq(Bytes) /\ d \in Seq(Bytes)
      /\ Len(a) = 1 /\ Len(c) = 2 /\ a[1] = Marker(p) /\ c[1] = Separator /\ c[2] = TypeOf(p)
  BY BinaryIs
<1>2. l + 1 \in Nat /\ b = Digits[l + 1]
  <2>1. l + 1 \in Nat
    BY OctetsIs
  <2> QED
    BY <2>1, Zenon DEF EncodeLength
<1>3. n >= 1 /\ Number(b) = l + 1
  <2>1. \A m \in Nat : Len(Digits[m]) >= 1 /\ Number(Digits[m]) = m
    BY LengthSurvives
  <2>2. Len(Digits[l + 1]) >= 1 /\ Number(Digits[l + 1]) = l + 1
    BY <1>2, <2>1
  <2> HIDE DEF b
  <2> QED
    BY <1>2, <2>2 DEF b
<1> HIDE DEF a, b, c, d
<1>4. /\ At(a, o) /\ At(b, o + Len(a)) /\ At(c, (o + Len(a)) + Len(b))
      /\ At(d, ((o + Len(a)) + Len(b)) + Len(c))
      /\ Len(BinaryEncode(p)) = ((Len(a) + Len(b)) + Len(c)) + Len(d)
      /\ Len(a) \in Nat /\ Len(b) \in Nat /\ Len(c) \in Nat /\ Len(d) \in Nat /\ o \in Nat
  <2>1. At(((a \o b) \o c) \o d, o)
    BY <1>1, Zenon
  <2> DEFINE abcd == ((a \o b) \o c) \o d
  <2>2. /\ At(a, o) /\ At(b, o + Len(a)) /\ At(c, (o + Len(a)) + Len(b))
        /\ At(d, ((o + Len(a)) + Len(b)) + Len(c))
        /\ Len(abcd) = ((Len(a) + Len(b)) + Len(c)) + Len(d)
        /\ Len(a) \in Nat /\ Len(b) \in Nat /\ Len(c) \in Nat /\ Len(d) \in Nat /\ o \in Nat
    BY <1>1, <2>1, FourParts
  <2>3. BinaryEncode(p) = abcd
    BY <1>1
  <2> HIDE DEF abcd
  <2> QED
    BY <2>2, <2>3, Zenon
<1>5. n = Len(b) /\ l = Len(d)
  BY DEF b, d
<1>6. /\ o \in Nat /\ n \in Nat /\ l \in Nat
      /\ o + Len(a) = o + 1 /\ (o + Len(a)) + Len(b) = (o + 1) + n
      /\ ((o + Len(a)) + Len(b)) + Len(c) = o + n + 3
      /\ Len(BinaryEncode(p)) = n + l + 3
      /\ (o + 1) + n = o + 1 + n
  BY <1>1, <1>4, <1>5
<1>7. At(a, o) /\ At(b, o + 1) /\ At(c, (o + 1) + n) /\ At(d, o + n + 3)
  BY <1>4, <1>6
<1>8. payload[o + 1] = Marker(p)
  <2>1. \A j \in 1 .. Len(a) : payload[o + j] = a[j]
    BY <1>7 DEF At
  <2> QED
    BY <1>1, <2>1
<1>9. payload[((o + 1) + n) + 1] = Separator /\ payload[((o + 1) + n) + 2] = TypeOf(p)
  <2>1. \A j \in 1 .. Len(c) : payload[((o + 1) + n) + j] = c[j]
    BY <1>7 DEF At
  <2>2. 1 \in 1 .. Len(c) /\ 2 \in 1 .. Len(c)
    BY <1>1
  <2> QED
    BY <1>1, <2>1, <2>2
<1>10. ((o + 1) + n) + 1 = o + n + 2 /\ ((o + 1) + n) + 2 = o + n + 3
       /\ (o + 1) + 1 = o + 2 /\ (o + n + 3) + 1 = o + n + 4
  BY <1>6
<1>11. (o + n + 3) + l <= Len(payload)
  BY <1>5, <1>7 DEF At
<1>12. Data(o + 2, o + 1 + n) = b
  <2>1. Data((o + 1) + 1, (o + 1) + Len(b)) = b
    BY <1>7, DataAt
  <2> QED
    BY <1>5, <1>6, <1>10, <2>1
<1>13. Data(o + n + 4, o + n + 3 + l) = d
  <2>1. Data((o + n + 3) + 1, (o + n + 3) + Len(d)) = d
    BY <1>7, DataAt
  <2> QED
    BY <1>5, <1>10, <2>1
<1> QED
  BY <1>3, <1>6, <1>7, <1>8, <1>9, <1>10, <1>11, <1>12, <1>13 DEF b, d, BinaryLayout

\* The client reads the packet that is at pos.
LEMMA ResponseRead ==
  ASSUME payload \in Seq(Nat), NEW o, pos = o, NEW p \in Packets, At(BinaryEncode(p), o),
         DecodeResponse
  PROVE  Deliver(p, o + Len(BinaryEncode(p)))
<1>0. PICK n, l : n = Len(EncodeLength(p)) /\ l = Len(Octets(p))
  OBVIOUS
<1> DEFINE binary == payload[o + 1] # 0
           digits == Run(o + 1, Bytes \ {Separator})
           len    == Number(Data(o + 2, o + 1 + digits))
           idx    == o + digits + 3
           last   == Min({idx + len - 1, Len(payload)})
           type   == payload[idx] - (IF binary THEN 0 ELSE 48)
           text   == UTF8Decode(Data(idx + 1, last))
           packet == [type |-> type, binary |-> binary,
                      data |-> IF binary THEN Data(idx + 1, last) ELSE text.text]
<1>1. IF \/ idx > Len(payload) \/ type \notin 0 .. 6
         \/ ~binary /\ Invalid(text)
      THEN Stop("rejected")
      ELSE Deliver(packet, last)
  BY Zenon DEF DecodeResponse
<1>2. /\ o \in Nat /\ n \in Nat /\ l \in Nat /\ n >= 1
      /\ Len(BinaryEncode(p)) = n + l + 3 /\ o + n + 3 + l <= Len(payload)
      /\ payload[o + 1] = Marker(p)
      /\ At(EncodeLength(p), o + 1)
      /\ payload[o + n + 2] = Separator
      /\ payload[o + n + 3] = TypeOf(p)
      /\ Number(Data(o + 2, o + 1 + n)) = l + 1
      /\ Data(o + n + 4, o + n + 3 + l) = Octets(p)
  <2> HIDE DEF binary, digits, len, idx, last, type, text, packet
  <2>1. BinaryLayout(p, o, n, l)
    BY <1>0, BinaryAt
  <2> QED
    BY <2>1 DEF BinaryLayout
<1>3. binary = p.binary
  <2>1. p.binary \in BOOLEAN
    BY PacketIs
  <2>2. CASE p.binary
    <3>1. payload[o + 1] = 1
      BY <1>2, <2>2 DEF Marker
    <3>2. payload[o + 1] # 0
      BY <3>1
    <3> QED
      BY <2>2, <3>2, Zenon
  <2>3. CASE ~p.binary
    BY <1>2, <2>1, <2>3 DEF Marker
  <2> QED
    BY <2>1, <2>2, <2>3, Zenon
<1>4. digits = n
  <2> DEFINE b == EncodeLength(p)
             S == Bytes \ {Separator}
  <2>1. b \in Seq(S)
    <3>1. Len(Octets(p)) + 1 \in Nat
      BY OctetsIs
    <3> QED
      BY <3>1, LengthIs DEF EncodeLength
  <2>2. (o + 1) + n + 1 = o + n + 2 /\ (o + 1) + n + 1 <= Len(payload)
    <3>1. Len(payload) \in Nat
      BY LenProperties
    <3> QED
      BY <1>2, <3>1
  <2>3. payload[(o + 1) + n + 1] \notin S
    BY <1>2, <2>2
  <2> HIDE DEF b, S
  <2> QED
    BY <1>0, <1>2, <2>1, <2>2, <2>3, RunAt DEF b, S
<1> HIDE DEF digits
<1>5. len = l + 1 /\ idx = o + n + 3
  BY <1>2, <1>4
<1> HIDE DEF idx, len
<1>6. Len(payload) \in Nat
  BY LenProperties
<1>7. last = o + n + 3 + l
  <2> DEFINE T == {idx + len - 1, Len(payload)}
             e == o + n + 3 + l
  <2>1. idx + len - 1 = e /\ e \in Nat /\ e <= Len(payload)
    BY <1>2, <1>5, <1>6
  <2>2. T = {e, Len(payload)}
    BY <2>1
  <2> HIDE DEF e
  <2>3. T \in SUBSET Nat /\ T # {} /\ e \in T /\ \A y \in T : e <= y
    BY <1>6, <2>1, <2>2
  <2> HIDE DEF T
  <2>4. Min(T) \in T /\ \A y \in T : Min(T) <= y
    BY <2>3, MinOf
  <2>5. Min(T) = e
    <3>1. Min(T) <= e /\ e <= Min(T) /\ Min(T) \in Nat /\ e \in Nat
      BY <2>1, <2>3, <2>4
    <3> QED
      BY <3>1
  <2> QED
    BY <2>5 DEF T, e
<1>8. idx + 1 = o + n + 4 /\ ~ (idx > Len(payload))
  BY <1>2, <1>5, <1>6
<1>9. Data(idx + 1, last) = Octets(p)
  <2> HIDE DEF last
  <2> QED
    BY <1>2, <1>7, <1>8
<1>10. type = p.type /\ p.type \in 0 .. 6
  <2>1. payload[idx] = TypeOf(p)
    BY <1>2, <1>5
  <2> HIDE DEF binary
  <2> QED
    BY <1>3, <2>1, OctetsIs, PacketIs
<1>11. ~p.binary => /\ ~Invalid(text)
                    /\ text.text = p.data
  <2> SUFFICES ASSUME ~p.binary PROVE ~Invalid(text) /\ text.text = p.data
    OBVIOUS
  <2>1. text = UTF8Decode(UTF8(p.data))
    <3> HIDE DEF last
    <3> QED
      BY <1>9, Zenon DEF Octets
  <2>2. p.data \in Seq(CodePoints)
    BY PacketIs
  <2>3. Ready(text) /\ text.text = p.data
    <3> HIDE DEF text
    <3> QED
      BY <2>1, <2>2, TextSurvives
  <2> HIDE DEF text
  <2> QED
    BY <2>3 DEF Ready, Invalid
<1>12. packet = p
  <2>1. p = [type |-> p.type, binary |-> p.binary, data |-> p.data]
    BY PacketIs
  <2>2. p.binary => Data(idx + 1, last) = p.data
    <3> HIDE DEF last
    <3> QED
      BY <1>9, Zenon DEF Octets
  <2>3. (IF binary THEN Data(idx + 1, last) ELSE text.text) = p.data
    <3> HIDE DEF last, text, binary
    <3> QED
      BY <1>3, <1>11, <2>2, Zenon
  <2> HIDE DEF last, text, binary, type
  <2> QED
    BY <1>3, <1>10, <2>1, <2>3, Zenon
<1> HIDE DEF last, text, binary, type, packet
<1>13. Deliver(packet, last)
  BY <1>1, <1>3, <1>8, <1>10, <1>11
<1>14. last = o + Len(BinaryEncode(p))
  BY <1>2, <1>7
<1> QED
  BY <1>12, <1>13, <1>14, Zenon

-----------------------------------------------------------------------------
\* The server reads the first packet of a post, or the one in a frame.
LEMMA MessageHas ==
  ASSUME NEW p \in Packets, p.binary
  PROVE  TypeOf(p) = MESSAGE /\ Octets(p) = p.data /\ Marker(p) = 1
         /\ p = [type |-> MESSAGE, binary |-> TRUE, data |-> p.data]
<1>1. /\ p = [type |-> p.type, binary |-> p.binary, data |-> p.data]
      /\ p.type = MESSAGE /\ p.binary = TRUE
  <2>1. p.binary \in BOOLEAN
    BY PacketIs
  <2>2. p.binary = TRUE
    BY <2>1
  <2> QED
    BY <2>2, PacketIs, Zenon
<1>2. TypeOf(p) = MESSAGE /\ Octets(p) = p.data /\ Marker(p) = 1
  BY <1>1, Zenon DEF TypeOf, Octets, Marker
<1> QED
  BY <1>1, <1>2, Zenon

LEMMA BinaryRead ==
  ASSUME payload \in Seq(Nat), pos = 1, NEW p \in Packets, p.binary, At(ClientBinary(p), 0),
         DecodeBinary
  PROVE  Deliver(p, Len(ClientBinary(p)))
<1>0. PICK n, l : n = Len(EncodeLength(p)) /\ l = Len(Octets(p))
  OBVIOUS
<1> DEFINE digits == Run(pos, 0 .. 9)
           len    == Number(Data(pos + 1, pos + digits))
           idx    == pos + digits + 2
           last   == idx + len - 1
           packet == [type |-> MESSAGE, binary |-> TRUE, data |-> ReadFully(idx + 1, len)]
<1>1. IF pos + digits = Len(payload)
      THEN Stop("done")
      ELSE IF len = 0 \/ idx > Len(payload)
      THEN Stop("rejected")
      ELSE IF last > Len(payload)
      THEN Stop("crashed")
      ELSE IF payload[idx] # MESSAGE
      THEN Stop("rejected")
      ELSE Deliver(packet, last)
  BY Zenon DEF DecodeBinary
<1>2. BinaryLayout(p, 0, n, l)
  <2>1. At(BinaryEncode(p), 0)
    BY BinaryIs
  <2> QED
    BY <1>0, <2>1, BinaryAt
<1>3. /\ n \in Nat /\ l \in Nat /\ n >= 1
      /\ Len(BinaryEncode(p)) = n + l + 3 /\ n + 3 + l <= Len(payload)
      /\ At(EncodeLength(p), 1)
      /\ payload[n + 2] = Separator
      /\ payload[n + 3] = TypeOf(p)
      /\ Number(Data(2, 1 + n)) = l + 1
      /\ Data(n + 4, n + 3 + l) = Octets(p)
  <2>1. /\ n \in Nat /\ l \in Nat /\ n >= 1
        /\ Len(BinaryEncode(p)) = n + l + 3 /\ 0 + n + 3 + l <= Len(payload)
        /\ At(EncodeLength(p), 0 + 1)
        /\ payload[0 + n + 2] = Separator
        /\ payload[0 + n + 3] = TypeOf(p)
        /\ Number(Data(0 + 2, 0 + 1 + n)) = l + 1
        /\ Data(0 + n + 4, 0 + n + 3 + l) = Octets(p)
    BY <1>2, Zenon DEF BinaryLayout
  <2>2. 0 + n + 3 + l = n + 3 + l /\ 0 + 1 = 1 /\ 0 + n + 2 = n + 2 /\ 0 + n + 3 = n + 3
        /\ 0 + 2 = 2 /\ 0 + 1 + n = 1 + n /\ 0 + n + 4 = n + 4
    BY <2>1
  <2> QED
    BY <2>1, <2>2
<1>4. TypeOf(p) = MESSAGE /\ Octets(p) = p.data
      /\ p = [type |-> MESSAGE, binary |-> TRUE, data |-> p.data]
  BY MessageHas
<1>5. Len(payload) \in Nat
  BY LenProperties
<1>6. digits = n
  <2> DEFINE b == EncodeLength(p)
             S == 0 .. 9
  <2>1. b \in Seq(S)
    <3>1. Len(Octets(p)) + 1 \in Nat
      BY OctetsIs
    <3> QED
      BY <3>1, LengthIs DEF EncodeLength
  <2>2. 1 + n + 1 = n + 2 /\ 1 + n + 1 <= Len(payload)
    BY <1>3, <1>5
  <2>3. payload[1 + n + 1] \notin S
    <3>1. payload[1 + n + 1] = Separator
      BY <1>3, <2>2
    <3>2. Separator \notin S
      BY SMT DEF Separator
    <3> QED
      BY <3>1, <3>2, Zenon
  <2> HIDE DEF b, S
  <2> QED
    BY <1>0, <1>3, <2>1, <2>2, <2>3, RunAt DEF b, S
<1> HIDE DEF digits
<1>7. pos + digits = 1 + n /\ pos + 1 = 2 /\ idx = n + 3
  BY <1>3, <1>6
<1> HIDE DEF idx
<1>8. len = l + 1
  BY <1>3, <1>7
<1> HIDE DEF len
<1>9. last = n + 3 + l
  BY <1>3, <1>7, <1>8
<1>10. packet = p
  <2>1. idx + 1 = n + 4 /\ idx + 1 + len - 2 = n + 3 + l
    BY <1>3, <1>7, <1>8
  <2>2. ReadFully(idx + 1, len) = p.data
    BY <1>3, <1>4, <2>1, Zenon DEF ReadFully
  <2> QED
    BY <1>4, <2>2, Zenon
<1> HIDE DEF packet, last
<1>11. Deliver(packet, last)
  <2>1. pos + digits # Len(payload) /\ ~ (len = 0 \/ idx > Len(payload)) /\ ~ (last > Len(payload))
    BY <1>3, <1>5, <1>7, <1>8, <1>9, SMTT(30)
  <2>2. payload[idx] = MESSAGE
    BY <1>3, <1>4, <1>7, Zenon
  <2> QED
    BY <1>1, <2>1, <2>2, Zenon
<1>12. last = Len(ClientBinary(p))
  <2>1. n + 3 + l = n + l + 3
    BY <1>3
  <2> QED
    BY <1>3, <1>9, <2>1, BinaryIs
<1> QED
  BY <1>10, <1>11, <1>12, Zenon

LEMMA TextIs ==
  ASSUME NEW p \in Packets, NEW b, b = ASCII(Digits[Len(Octets(p)) + 1])
  PROVE  /\ ClientText(p) = ((b \o <<Colon>>) \o <<TypeOf(p)>>) \o Octets(p)
         /\ b \in Seq(Bytes) /\ <<Colon>> \in Seq(Bytes) /\ <<TypeOf(p)>> \in Seq(Bytes)
         /\ Octets(p) \in Seq(Bytes)
         /\ Len(<<Colon>>) = 1 /\ Len(<<TypeOf(p)>>) = 1
         /\ ClientText(p) \in Seq(Bytes)
<1> DEFINE c == <<Colon>>
           d == <<TypeOf(p)>>
           e == Octets(p)
<1>1. c \in Seq(Bytes) /\ d \in Seq(Bytes) /\ Len(c) = 1 /\ Len(d) = 1
  <2>1. Colon \in Bytes /\ TypeOf(p) \in Bytes
    <3>1. Colon \in Bytes
      BY SMT DEF Colon, Bytes
    <3> QED
      BY <3>1, OctetsIs
  <2> QED
    BY <2>1, ShortSeqs
<1>2. e \in Seq(Bytes) /\ Len(e) + 1 \in Nat
  BY OctetsIs
<1>3. b \in Seq(Bytes)
  BY <1>2, LengthIs
<1>4. ClientText(p) = (b \o c) \o (d \o e)
  <2>1. Len(Body(p)) = Len(e) + 1
    BY BodyIs
  <2>2. ASCII(Digits[Len(Body(p))]) = b
    BY <2>1, Zenon
  <2> QED
    BY <2>2, Zenon DEF ClientText, Body
<1> HIDE DEF c, d, e
<1>5. b \o c \in Seq(Bytes) /\ d \o e \in Seq(Bytes)
  BY <1>1, <1>2, <1>3, Concat
<1>6. (b \o c) \o (d \o e) = ((b \o c) \o d) \o e
  BY <1>1, <1>2, <1>5, Assoc, SMTT(30)
<1>7. (b \o c) \o (d \o e) \in Seq(Bytes)
  BY <1>5, Concat
<1> QED
  BY <1>1, <1>2, <1>3, <1>4, <1>6, <1>7, Zenon DEF c, d, e

\* A packet in a text post stands after o.
TextLayout(p, o, n, l) ==
  /\ n \in Nat /\ l \in Nat /\ n >= 1 /\ o \in Nat
  /\ Len(ClientText(p)) = n + l + 2 /\ o + n + 2 + l <= Len(payload)
  /\ payload[o + n + 1] = Colon
  /\ payload[o + n + 2] = TypeOf(p)
  /\ Data(o + n + 3, o + n + 2 + l) = Octets(p)
  /\ At(ASCII(Digits[l + 1]), o)
  /\ l + 1 \in Nat /\ n = Len(Digits[l + 1]) /\ l = Len(Octets(p))

LEMMA TextAt ==
  ASSUME payload \in Seq(Nat), NEW p \in Packets, NEW o, At(ClientText(p), o)
  PROVE  \E n, l : TextLayout(p, o, n, l)
<1>0. PICK n, l : n = Len(Digits[Len(Octets(p)) + 1]) /\ l = Len(Octets(p))
  OBVIOUS
<1> DEFINE a == ASCII(Digits[Len(Octets(p)) + 1])
           b == <<Colon>>
           c == <<TypeOf(p)>>
           d == Octets(p)
           abcd == ((a \o b) \o c) \o d
<1>1. /\ ClientText(p) = abcd
      /\ a \in Seq(Bytes) /\ b \in Seq(Bytes) /\ c \in Seq(Bytes) /\ d \in Seq(Bytes)
      /\ Len(b) = 1 /\ Len(c) = 1
  BY TextIs
<1>2. l + 1 \in Nat /\ Len(a) = n /\ n >= 1 /\ n \in Nat /\ a = ASCII(Digits[l + 1])
  <2>1. Len(Octets(p)) + 1 \in Nat
    BY OctetsIs
  <2> QED
    BY <1>0, <2>1, LengthIs
<1>3. b[1] = Colon /\ c[1] = TypeOf(p)
  OBVIOUS
<1> HIDE DEF a, b, c, d
<1>4. /\ At(a, o) /\ At(b, o + Len(a)) /\ At(c, (o + Len(a)) + Len(b))
      /\ At(d, ((o + Len(a)) + Len(b)) + Len(c))
      /\ Len(abcd) = ((Len(a) + Len(b)) + Len(c)) + Len(d)
      /\ Len(d) \in Nat /\ o \in Nat
  <2>1. At(abcd, o)
    BY <1>1, Zenon
  <2>2. At(((a \o b) \o c) \o d, o)
    BY <2>1
  <2>3. /\ At(a, o) /\ At(b, o + Len(a)) /\ At(c, (o + Len(a)) + Len(b))
        /\ At(d, ((o + Len(a)) + Len(b)) + Len(c))
        /\ Len(((a \o b) \o c) \o d) = ((Len(a) + Len(b)) + Len(c)) + Len(d)
        /\ Len(a) \in Nat /\ Len(b) \in Nat /\ Len(c) \in Nat /\ Len(d) \in Nat /\ o \in Nat
    <3> HIDE DEF abcd
    <3> QED
      BY <1>1, <2>2, FourParts
  <2> QED
    BY <2>3
<1> HIDE DEF abcd
<1>5. l = Len(d)
  BY <1>0 DEF d
<1>6. /\ o + Len(a) = o + n /\ (o + Len(a)) + Len(b) = o + n + 1
      /\ ((o + Len(a)) + Len(b)) + Len(c) = o + n + 2
      /\ Len(ClientText(p)) = n + l + 2
      /\ (o + n) + 1 = o + n + 1 /\ (o + n + 1) + 1 = o + n + 2
      /\ (o + n + 2) + 1 = o + n + 3
  <2>1. Len(a) = n /\ Len(b) = 1 /\ Len(c) = 1 /\ Len(d) = l /\ n \in Nat /\ o \in Nat /\ l \in Nat
    BY <1>1, <1>2, <1>4, <1>5
  <2>2. Len(ClientText(p)) = ((Len(a) + Len(b)) + Len(c)) + Len(d)
    BY <1>1, <1>4, Zenon
  <2> QED
    BY <2>1, <2>2
<1>7. At(a, o) /\ At(b, o + n) /\ At(c, o + n + 1) /\ At(d, o + n + 2)
  BY <1>4, <1>6
<1>8. payload[(o + n) + 1] = Colon /\ payload[(o + n + 1) + 1] = TypeOf(p)
  <2>1. \A j \in 1 .. Len(b) : payload[(o + n) + j] = b[j]
    BY <1>7 DEF At
  <2>2. \A j \in 1 .. Len(c) : payload[(o + n + 1) + j] = c[j]
    BY <1>7 DEF At
  <2>3. 1 \in 1 .. Len(b) /\ 1 \in 1 .. Len(c)
    BY <1>1
  <2> QED
    BY <1>3, <2>1, <2>2, <2>3
<1>9. (o + n + 2) + l <= Len(payload)
  BY <1>5, <1>7 DEF At
<1>10. Data(o + n + 3, o + n + 2 + l) = d
  <2>1. Data((o + n + 2) + 1, (o + n + 2) + Len(d)) = d
    BY <1>7, DataAt
  <2> QED
    BY <1>5, <1>6, <2>1
<1>11. At(ASCII(Digits[l + 1]), o) /\ n = Len(Digits[l + 1])
  BY <1>0, <1>2, <1>7
<1>12. TextLayout(p, o, n, l)
  BY <1>0, <1>2, <1>4, <1>5, <1>6, <1>8, <1>9, <1>10, <1>11 DEF d, TextLayout
<1> QED
  BY <1>12, Zenon

LEMMA TextRead ==
  ASSUME payload \in Seq(Nat), pos = 0, NEW p \in Packets, ~p.binary, At(ClientText(p), 0),
         p.type \in {CLOSE, PING, MESSAGE, UPGRADE},
         p.type \in {CLOSE, UPGRADE} => p.data = <<>>,
         DecodeText
  PROVE  Deliver([p EXCEPT !.data = UTF8(@)], Len(ClientText(p)) + 2)
<1> DEFINE digits == Run(pos, 48 .. 57)
           len    == Number([i \in 1 .. digits |-> payload[pos + i] - 48])
           colon  == pos + digits + 1
           idx    == colon + 1
           type   == payload[idx] - 48
           last   == idx + len - 1
<1>1. IF digits = 0
      THEN Stop("rejected")
      ELSE IF \/ idx > Len(payload)
              \/ type \notin 0 .. 9
              \/ len < 1 \/ last > Len(payload)
      THEN Stop("crashed")
      ELSE IF type \notin {CLOSE, PING, MESSAGE, UPGRADE, NOOP}
      THEN Stop("rejected")
      ELSE Deliver(TextPacket(type, Data(idx + 1, last)), NextPacket(idx, len))
  BY Zenon DEF DecodeText
<1>2. PICK n, l : TextLayout(p, 0, n, l)
  BY TextAt
<1>3. /\ n \in Nat /\ l \in Nat /\ n >= 1
      /\ Len(ClientText(p)) = n + l + 2 /\ n + 2 + l <= Len(payload)
      /\ payload[n + 1] = Colon
      /\ payload[n + 2] = TypeOf(p)
      /\ Data(n + 3, n + 2 + l) = Octets(p)
      /\ At(ASCII(Digits[l + 1]), 0)
      /\ l + 1 \in Nat /\ n = Len(Digits[l + 1])
  <2>1. /\ n \in Nat /\ l \in Nat /\ n >= 1
        /\ Len(ClientText(p)) = n + l + 2 /\ 0 + n + 2 + l <= Len(payload)
        /\ payload[0 + n + 1] = Colon
        /\ payload[0 + n + 2] = TypeOf(p)
        /\ Data(0 + n + 3, 0 + n + 2 + l) = Octets(p)
        /\ At(ASCII(Digits[l + 1]), 0)
        /\ l + 1 \in Nat /\ n = Len(Digits[l + 1])
    BY <1>2, Zenon DEF TextLayout
  <2>2. 0 + n + 2 + l = n + 2 + l /\ 0 + n + 1 = n + 1 /\ 0 + n + 2 = n + 2 /\ 0 + n + 3 = n + 3
    BY <2>1
  <2> QED
    BY <2>1, <2>2
<1>4. Len(payload) \in Nat
  BY LenProperties
<1> DEFINE ds == Digits[l + 1]
           as == ASCII(ds)
<1>5. /\ ds \in Seq(Nat) /\ Len(as) = n /\ as \in Seq(48 .. 57)
      /\ \A i \in 1 .. n : as[i] = ds[i] + 48 /\ ds[i] \in 0 .. 9
  <2>1. /\ ds \in Seq(0 .. 9) /\ ds \in Seq(Nat) /\ as \in Seq(48 .. 57) /\ Len(as) = Len(ds)
        /\ \A i \in 1 .. Len(ds) : as[i] = ds[i] + 48
    BY <1>3, LengthIs
  <2>2. \A i \in 1 .. Len(ds) : ds[i] \in 0 .. 9
    <3> HIDE DEF ds
    <3> QED
      BY <2>1, ElementOfSeq
  <2> HIDE DEF ds, as
  <2> QED
    BY <1>3, <2>1, <2>2 DEF ds
<1>6. Number(ds) = l + 1
  BY <1>3, LengthSurvives
<1>7. digits = n
  <2> DEFINE S == 48 .. 57
  <2>1. 0 + n + 1 = n + 1 /\ 0 + n + 1 <= Len(payload)
    BY <1>3, <1>4
  <2>2. payload[0 + n + 1] \notin S
    <3>1. payload[0 + n + 1] = Colon
      BY <1>3, <2>1
    <3>2. Colon \notin S
      BY SMT DEF Colon
    <3> QED
      BY <3>1, <3>2, Zenon
  <2> HIDE DEF S, as
  <2>3. as \in Seq(S) /\ At(as, 0)
    BY <1>3, <1>5 DEF as, S
  <2>4. Run(0, S) = Len(as)
    BY <1>5, <2>1, <2>2, <2>3, RunAt
  <2> QED
    BY <1>5, <2>4 DEF S
<1> HIDE DEF digits
<1>8. len = l + 1
  <2> DEFINE s == [i \in 1 .. digits |-> payload[pos + i] - 48]
  <2>1. \A i \in 1 .. n : s[i] = ds[i] /\ ds[i] \in Nat
    <3> TAKE i \in 1 .. n
    <3>1. payload[0 + i] = as[i]
      <4>1. \A j \in 1 .. Len(as) : payload[0 + j] = as[j]
        BY <1>3, Zenon DEF At
      <4> HIDE DEF as
      <4> QED
        BY <1>5, <4>1
    <3>2. as[i] = ds[i] + 48 /\ ds[i] \in 0 .. 9
      BY <1>5
    <3>3. s[i] = payload[0 + i] - 48
      BY <1>7
    <3>4. (ds[i] + 48) - 48 = ds[i]
      BY <3>2
    <3>5. ds[i] \in Nat
      BY <3>2
    <3> HIDE DEF as, ds, s
    <3> QED
      BY <3>1, <3>2, <3>3, <3>4, <3>5, Zenon
  <2>2. DOMAIN s = 1 .. n /\ n \in Nat
    BY <1>3, <1>7
  <2>3. s = [i \in 1 .. n |-> s[i]]
    BY <1>7
  <2> HIDE DEF s, ds
  <2>4. s \in [1 .. n -> Nat]
    BY <2>1, <2>3
  <2>5. s \in Seq(Nat) /\ Len(s) = n
    <3>1. s \in UNION {[1 .. m -> Nat] : m \in Nat}
      BY <2>2, <2>4, Zenon
    <3>2. s \in Seq(Nat)
      BY <3>1, SeqDef, Zenon
    <3> QED
      BY <2>2, <3>2, LenProperties
  <2>6. Len(ds) = n /\ ds \in Seq(Nat)
    BY <1>3, <1>5 DEF ds
  <2>7. s = ds
    BY <2>1, <2>5, <2>6, SeqEqual
  <2> QED
    BY <1>6, <2>7, Zenon DEF s
<1> HIDE DEF len
<1>9. idx = n + 2 /\ last = n + 2 + l /\ idx + 1 = n + 3 /\ NextPacket(idx, len) = n + l + 2 + 2
  <2>1. idx = n + 2
    BY <1>3, <1>7
  <2> HIDE DEF idx
  <2>2. last = n + 2 + l /\ idx + 1 = n + 3
    BY <1>3, <1>8, <2>1
  <2>3. NextPacket(idx, len) = n + l + 2 + 2
    <3>1. NextPacket(idx, len) = idx + 1 + len
      BY DEF NextPacket
    <3>2. n \in Nat /\ l \in Nat
      BY <1>3
    <3>3. (n + 2) + 1 + (l + 1) = n + l + 2 + 2
      BY <3>2
    <3> QED
      BY <1>8, <2>1, <3>1, <3>3, Zenon
  <2> QED
    BY <2>1, <2>2, <2>3
<1> HIDE DEF idx, last
<1>10. type = p.type /\ p.type \in 0 .. 6
  <2>1. payload[idx] = TypeOf(p)
    BY <1>3, <1>9
  <2> QED
    BY <2>1, OctetsIs, PacketIs
<1> HIDE DEF type
<1>11. Data(idx + 1, last) = UTF8(p.data)
  BY <1>3, <1>9, Zenon DEF Octets
<1>12. Deliver(TextPacket(type, Data(idx + 1, last)), NextPacket(idx, len))
  <2>1. digits # 0 /\ ~ (\/ idx > Len(payload)
                         \/ type \notin 0 .. 9
                         \/ len < 1 \/ last > Len(payload))
    <3>1. digits # 0 /\ ~ (idx > Len(payload))
      BY <1>3, <1>4, <1>7, <1>9, SMTT(30)
    <3>2. ~ (len < 1) /\ ~ (last > Len(payload))
      BY <1>3, <1>4, <1>8, <1>9
    <3>3. type \in 0 .. 9
      BY <1>10
    <3> QED
      BY <3>1, <3>2, <3>3
  <2>2. type \in {CLOSE, PING, MESSAGE, UPGRADE, NOOP}
    BY <1>10
  <2> QED
    BY <1>1, <2>1, <2>2, Zenon
<1>13. TextPacket(type, UTF8(p.data)) = [p EXCEPT !.data = UTF8(@)]
  <2>1. p = [type |-> p.type, binary |-> FALSE, data |-> p.data]
    <3>1. p.binary \in BOOLEAN
      BY PacketIs
    <3>2. p.binary = FALSE
      BY <3>1
    <3> QED
      BY <3>2, PacketIs, Zenon
  <2>2. [p EXCEPT !.data = UTF8(@)] = [type |-> p.type, binary |-> FALSE, data |-> UTF8(p.data)]
    <3>1. PICK t, d, u : t = p.type /\ d = p.data /\ u = UTF8(p.data)
      OBVIOUS
    <3>2. p = [type |-> t, binary |-> FALSE, data |-> d]
      BY <2>1, <3>1, Zenon
    <3>3. [p EXCEPT !.data = u] = [type |-> t, binary |-> FALSE, data |-> u]
      <4> DEFINE q == [p EXCEPT !.data = u]
                 r == [type |-> t, binary |-> FALSE, data |-> u]
      <4>1. \A x \in {"type", "binary", "data"} : q[x] = r[x]
        <5>1. q.type = t /\ q.binary = FALSE /\ q.data = u
          BY <3>2
        <5>2. r.type = t /\ r.binary = FALSE /\ r.data = u
          OBVIOUS
        <5> HIDE DEF q, r
        <5>3. q["type"] = r["type"] /\ q["binary"] = r["binary"] /\ q["data"] = r["data"]
          BY <5>1, <5>2, Zenon
        <5> QED
          BY <5>3, Zenon
      <4>2. q = [x \in {"type", "binary", "data"} |-> q[x]]
        BY <3>2
      <4>3. r = [x \in {"type", "binary", "data"} |-> r[x]]
        OBVIOUS
      <4> HIDE DEF q, r
      <4>4. q = r
        BY <4>1, <4>2, <4>3
      <4> QED
        BY <4>4 DEF q, r
    <3>4. [p EXCEPT !.data = UTF8(@)] = [p EXCEPT !.data = u]
      BY <3>1, Zenon
    <3> QED
      BY <3>1, <3>3, <3>4, Zenon
  <2>3. (IF type \in {PING, MESSAGE} THEN UTF8(p.data) ELSE <<>>) = UTF8(p.data)
    <3>1. CASE type \in {PING, MESSAGE}
      BY <3>1, Zenon
    <3>2. CASE type \in {CLOSE, UPGRADE}
      <4>1. p.data = <<>>
        BY <1>10, <3>2
      <4>2. UTF8(<<>>) = <<>>
        BY SMT DEF UTF8, FlattenSeq
      <4> QED
        BY <4>1, <4>2, Zenon
    <3> QED
      BY <1>10, <3>1, <3>2
  <2> QED
    BY <1>10, <2>2, <2>3, Zenon DEF TextPacket
<1> QED
  BY <1>3, <1>9, <1>11, <1>12, <1>13, Zenon

LEMMA FrameIs ==
  ASSUME NEW p \in Packets
  PROVE  /\ Frame(p) \in Seq(Nat) /\ Len(Frame(p)) = Len(p.data) + 1 /\ Len(p.data) \in Nat
         /\ Frame(p)[1] = TypeOf(p)
         /\ SubSeq(Frame(p), 2, Len(Frame(p))) = p.data
<1> DEFINE s == <<TypeOf(p)>>
           t == p.data
           u == s \o t
<1>1. s \in Seq(Nat) /\ Len(s) = 1 /\ s[1] = TypeOf(p)
  BY OctetsIs
<1>2. t \in Seq(Nat) /\ Len(t) \in Nat
  <2>1. t \in Seq(Nat)
    BY PacketIs
  <2> QED
    BY <2>1, LenProperties
<1>3. Frame(p) = u
  BY Zenon DEF Frame
<1> HIDE DEF s, t
<1>4. u \in Seq(Nat) /\ Len(u) = Len(t) + 1
      /\ \A i \in 1 .. Len(s) + Len(t) : u[i] = IF i <= Len(s) THEN s[i] ELSE t[i - Len(s)]
  <2>1. u \in Seq(Nat) /\ Len(u) = Len(s) + Len(t)
        /\ \A i \in 1 .. Len(s) + Len(t) : u[i] = IF i <= Len(s) THEN s[i] ELSE t[i - Len(s)]
    BY <1>1, <1>2, ConcatProperties
  <2>2. Len(s) + Len(t) = Len(t) + 1
    BY <1>1, <1>2
  <2> HIDE DEF u
  <2> QED
    BY <2>1, <2>2
<1>5. u[1] = s[1] /\ \A i \in 1 .. Len(t) : u[1 + i] = t[i]
  <2>1. 1 \in 1 .. Len(s) + Len(t) /\ 1 <= Len(s)
    BY <1>1, <1>2
  <2>2. \A i \in 1 .. Len(t) : 1 + i \in 1 .. Len(s) + Len(t) /\ ~(1 + i <= Len(s)) /\ (1 + i) - Len(s) = i
    BY <1>1, <1>2
  <2> QED
    BY <1>4, <2>1, <2>2
<1> HIDE DEF u
<1>6. SubSeq(u, 2, Len(u)) = t
  <2> DEFINE v == SubSeq(u, 2, Len(u))
  <2>1. v = [i \in 1 .. Len(t) |-> u[(2 + i) - 1]]
    <3>1. Len(u) - 2 + 1 = Len(t) /\ (Len(u) - 2) + 1 = Len(t) /\ Len(u) \in Nat
          /\ \A i \in 2 .. Len(u) : i \in 1 .. Len(u)
      BY <1>2, <1>4
    <3> QED
      BY <1>4, <3>1
  <2>2. \A i \in 1 .. Len(t) : v[i] = t[i] /\ t[i] \in Nat
    <3> TAKE i \in 1 .. Len(t)
    <3>1. (2 + i) - 1 = 1 + i
      OBVIOUS
    <3>2. t[i] \in Nat
      BY <1>2, ElementOfSeq
    <3> QED
      BY <1>5, <2>1, <3>1, <3>2
  <2> HIDE DEF v
  <2>3. v \in Seq(Nat) /\ Len(v) = Len(t)
    BY <1>2, <2>1, <2>2
  <2>4. v = t
    BY <1>2, <2>2, <2>3, SeqEqual
  <2> QED
    BY <2>4 DEF v
<1> QED
  BY <1>1, <1>2, <1>3, <1>4, <1>5, <1>6 DEF t

LEMMA FrameRead ==
  ASSUME NEW p \in Packets, payload = Frame(p), sent[1] = p, DecodeFrame
  PROVE  Deliver(p, Len(payload))
<1> DEFINE binary == sent[1].binary
           type == payload[1] - (IF binary THEN 0 ELSE 48)
           packet == [type |-> type, binary |-> binary, data |-> Data(2, Len(payload))]
<1>1. IF type \notin 0 .. 6
      THEN Stop("rejected")
      ELSE Deliver(packet, Len(payload))
  BY Zenon DEF DecodeFrame
<1>2. type = p.type /\ p.type \in 0 .. 6 /\ binary = p.binary
  BY FrameIs, OctetsIs, PacketIs
<1>3. Data(2, Len(payload)) = p.data
  BY FrameIs DEF Data
<1>4. packet = p
  BY <1>2, <1>3, PacketIs
<1> HIDE DEF type, packet
<1> QED
  BY <1>1, <1>2, <1>4, Zenon

-----------------------------------------------------------------------------
\* The payloads as a whole.
Encoding(w, p) == CASE w = "textPost"   -> ClientText(p)
                    [] w = "binaryPost" -> ClientBinary(p)
                    [] w = "response"    -> BinaryEncode(p)
                    [] w \in Frames      -> Frame(p)

LEMMA EncodingIs ==
  /\ \A p : /\ Encoding("textPost", p) = ClientText(p)
            /\ Encoding("binaryPost", p) = ClientBinary(p)
            /\ Encoding("response", p) = BinaryEncode(p)
  /\ \A w \in Frames : \A p : Encoding(w, p) = Frame(p)
BY DEF Encoding, Frames

LEMMA EncodingLong ==
  ASSUME NEW w \in AllWays, NEW p \in Packets
  PROVE  Encoding(w, p) \in Seq(Nat) /\ Len(Encoding(w, p)) \in Nat /\ Len(Encoding(w, p)) >= 1
<1>0. \A s \in Seq(Bytes) : s \in Seq(Nat)
  <2>1. Bytes \subseteq Nat
    BY SMT DEF Bytes
  <2> QED
    BY <2>1, SeqMonotonic, Zenon
<1> DEFINE Long(s) == s \in Seq(Nat) /\ Len(s) \in Nat /\ Len(s) >= 1
<1>1. Long(Frame(p))
  BY FrameIs
<1>2. Len(Octets(p)) \in Nat /\ Len(Octets(p)) + 1 \in Nat
  BY OctetsIs, LenProperties
<1>3. Long(ClientText(p))
  <2> DEFINE a == ASCII(Digits[Len(Octets(p)) + 1])
             b == <<Colon>>
             c == <<TypeOf(p)>>
             d == Octets(p)
             abc == (a \o b) \o c
  <2>1. /\ ClientText(p) = abc \o d
        /\ a \in Seq(Bytes) /\ b \in Seq(Bytes) /\ c \in Seq(Bytes) /\ d \in Seq(Bytes)
        /\ Len(c) = 1 /\ ClientText(p) \in Seq(Bytes)
    BY TextIs
  <2> HIDE DEF a, b, c, d
  <2>2. a \o b \in Seq(Bytes)
    BY <2>1, Concat
  <2>3. abc \in Seq(Bytes) /\ Len(abc) = Len(a \o b) + Len(c) /\ Len(a \o b) \in Nat
    BY <2>1, <2>2, Concat
  <2> HIDE DEF abc
  <2>4. Len(abc \o d) = Len(abc) + Len(d) /\ Len(d) \in Nat
    BY <2>1, <2>3, Concat
  <2>5. Len(abc) \in Nat /\ Len(abc) >= 1
    BY <2>1, <2>3
  <2>6. Len(ClientText(p)) = Len(abc) + Len(d)
    BY <2>1, <2>4, Zenon
  <2>7. Len(ClientText(p)) \in Nat /\ Len(ClientText(p)) >= 1
    BY <2>4, <2>5, <2>6
  <2> QED
    BY <1>0, <2>1, <2>7, Zenon
<1>4. Long(BinaryEncode(p)) /\ ClientBinary(p) = BinaryEncode(p)
  <2> DEFINE a == <<Marker(p)>>
             b == EncodeLength(p)
             c == <<Separator, TypeOf(p)>>
             d == Octets(p)
             abc == (a \o b) \o c
  <2>1. /\ BinaryEncode(p) = abc \o d
        /\ a \in Seq(Bytes) /\ b \in Seq(Bytes) /\ c \in Seq(Bytes) /\ d \in Seq(Bytes)
        /\ Len(c) = 2 /\ BinaryEncode(p) \in Seq(Bytes) /\ ClientBinary(p) = BinaryEncode(p)
    BY BinaryIs
  <2> HIDE DEF a, b, c, d
  <2>2. a \o b \in Seq(Bytes)
    BY <2>1, Concat
  <2>3. abc \in Seq(Bytes) /\ Len(abc) = Len(a \o b) + Len(c) /\ Len(a \o b) \in Nat
    BY <2>1, <2>2, Concat
  <2> HIDE DEF abc
  <2>4. Len(abc \o d) = Len(abc) + Len(d) /\ Len(d) \in Nat
    BY <2>1, <2>3, Concat
  <2>5. Len(abc) \in Nat /\ Len(abc) >= 1
    BY <2>1, <2>3
  <2>6. Len(BinaryEncode(p)) = Len(abc) + Len(d)
    BY <2>1, <2>4, Zenon
  <2>7. Len(BinaryEncode(p)) \in Nat /\ Len(BinaryEncode(p)) >= 1
    BY <2>4, <2>5, <2>6
  <2> QED
    BY <1>0, <2>1, <2>7, Zenon
<1>5. Long(Encoding(w, p))
  <2> HIDE DEF Long
  <2>1. w \in {"textPost", "binaryPost", "response"} \/ w \in Frames
    BY DEF AllWays
  <2> QED
    BY <1>1, <1>3, <1>4, <2>1, EncodingIs
<1> QED
  BY <1>5

\* What never changes, and where the packets stand: off[i] is the end of the i-th.
Static ==
  /\ way \in AllWays /\ sent \in Seq(Packets) /\ Len(sent) >= 1
  /\ Written(way, sent)
  /\ payload = Payload(way, sent)

Parts(off) ==
  /\ off[0] = 0 /\ off[Len(sent)] = Len(payload)
  /\ \A i \in 0 .. Len(sent) : off[i] \in 0 .. Len(payload)
  /\ \A i \in 1 .. Len(sent) : /\ off[i] = off[i - 1] + Len(Encoding(way, sent[i]))
                               /\ At(Encoding(way, sent[i]), off[i - 1])

LEMMA Laid ==
  ASSUME Static
  PROVE  payload \in Seq(Nat) /\ Len(payload) \in Nat /\ Len(sent) \in Nat /\ \E off : Parts(off)
<1> DEFINE N == Len(sent)
           ss == [i \in DOMAIN sent |-> Encoding(way, sent[i])]
<1>1. payload = FlattenSeq(ss)
  BY Zenon DEF Static, Payload, Encoding
<1>2. N \in Nat /\ DOMAIN sent = 1 .. N /\ \A i \in 1 .. N : sent[i] \in Packets
  BY LenProperties, ElementOfSeq DEF Static
<1>3. way \in AllWays
  BY DEF Static
<1>4. \A i \in 1 .. N : Encoding(way, sent[i]) \in Seq(Nat)
  <2> TAKE i \in 1 .. N
  <2>1. PICK w, p : w = way /\ p = sent[i]
    OBVIOUS
  <2>2. w \in AllWays /\ p \in Packets
    BY <1>2, <1>3, <2>1
  <2> QED
    BY <2>1, <2>2, EncodingLong
<1>5. ss \in Seq(Seq(Nat)) /\ Len(ss) = N /\ \A i \in 1 .. N : ss[i] = Encoding(way, sent[i])
  <2>1. DOMAIN ss = 1 .. N /\ \A i \in 1 .. N : ss[i] = Encoding(way, sent[i])
    BY <1>2
  <2>2. ss = [i \in 1 .. N |-> ss[i]]
    BY <1>2
  <2> HIDE DEF ss, N
  <2>3. ss \in [1 .. N -> Seq(Nat)]
    BY <1>4, <2>1, <2>2
  <2>4. ss \in UNION {[1 .. m -> Seq(Nat)] : m \in Nat}
    BY <1>2, <2>3, Zenon
  <2>5. ss \in Seq(Seq(Nat))
    BY <2>4, SeqDef, Zenon
  <2> QED
    BY <1>2, <2>1, <2>5, LenProperties
<1> HIDE DEF ss, N
<1>6. PICK tt : tt = ss
  OBVIOUS
<1> DEFINE all == FlattenSeq(tt)
<1>7. /\ all \in Seq(Nat)
      /\ \E off : /\ off[0] = 0 /\ off[Len(tt)] = Len(all)
                  /\ \A i \in 0 .. Len(tt) : off[i] \in 0 .. Len(all)
                  /\ \A i \in 1 .. Len(tt) :
                       /\ off[i] = off[i - 1] + Len(tt[i])
                       /\ \A j \in 1 .. Len(tt[i]) : all[off[i - 1] + j] = tt[i][j]
  <2>1. tt \in Seq(Seq(Nat))
    BY <1>5, <1>6
  <2> QED
    BY <2>1, FlattenParts, ZenonT(60)
<1>8. all = payload /\ Len(tt) = N /\ \A i \in 1 .. N : tt[i] = Encoding(way, sent[i])
  BY <1>1, <1>5, <1>6
<1> HIDE DEF all
<1>9. PICK off : /\ off[0] = 0 /\ off[N] = Len(payload)
                 /\ \A i \in 0 .. N : off[i] \in 0 .. Len(payload)
                 /\ \A i \in 1 .. N :
                      /\ off[i] = off[i - 1] + Len(tt[i])
                      /\ \A j \in 1 .. Len(tt[i]) : payload[off[i - 1] + j] = tt[i][j]
  BY <1>7, <1>8
<1>10. payload \in Seq(Nat) /\ Len(payload) \in Nat
  BY <1>7, <1>8, LenProperties
<1>11. ASSUME NEW i \in 1 .. N
       PROVE  /\ off[i] = off[i - 1] + Len(Encoding(way, sent[i]))
              /\ At(Encoding(way, sent[i]), off[i - 1])
  <2>1. /\ tt[i] = Encoding(way, sent[i]) /\ tt[i] \in Seq(Nat)
        /\ off[i] = off[i - 1] + Len(tt[i])
        /\ \A j \in 1 .. Len(tt[i]) : payload[off[i - 1] + j] = tt[i][j]
    BY <1>4, <1>8, <1>9
  <2>2. off[i - 1] \in Nat /\ off[i] <= Len(payload)
    <3>1. i - 1 \in 0 .. N /\ i \in 0 .. N
      BY <1>2
    <3>2. off[i - 1] \in 0 .. Len(payload) /\ off[i] \in 0 .. Len(payload)
      BY <1>9, <3>1
    <3> QED
      BY <3>2
  <2>3. At(tt[i], off[i - 1])
    BY <2>1, <2>2 DEF At
  <2> QED
    BY <2>1, <2>3
<1>12. Parts(off)
  BY <1>9, <1>11 DEF Parts, N
<1> QED
  BY <1>2, <1>10, <1>12 DEF N

\* The first packet.
LEMMA FirstLaid ==
  ASSUME Static
  PROVE  /\ sent[1] \in Packets /\ At(Encoding(way, sent[1]), 0)
         /\ Len(Encoding(way, sent[1])) \in Nat /\ Len(Encoding(way, sent[1])) >= 1
         /\ Len(Encoding(way, sent[1])) <= Len(payload)
         /\ Len(sent) = 1 => Len(payload) = Len(Encoding(way, sent[1]))
<1>1. /\ way \in AllWays /\ sent \in Seq(Packets) /\ Len(sent) >= 1 /\ Len(sent) \in Nat
      /\ Len(payload) \in Nat
  BY Laid DEF Static
<1>2. PICK off : Parts(off)
  BY Laid
<1>3. 1 \in 1 .. Len(sent) /\ 1 \in 0 .. Len(sent) /\ 1 - 1 = 0
  BY <1>1
<1>4. sent[1] \in Packets
  BY <1>1, <1>3, ElementOfSeq
<1>5. PICK w, p, e : w = way /\ p = sent[1] /\ e = Encoding(w, p)
  OBVIOUS
<1>6. e \in Seq(Nat) /\ Len(e) \in Nat /\ Len(e) >= 1
  BY <1>1, <1>4, <1>5, EncodingLong
<1>7. /\ off[0] = 0 /\ off[Len(sent)] = Len(payload) /\ off[1] \in 0 .. Len(payload)
      /\ off[1] = off[1 - 1] + Len(e) /\ At(e, off[1 - 1])
  BY <1>2, <1>3, <1>5 DEF Parts
<1>8. At(e, 0) /\ off[1] = Len(e)
  BY <1>3, <1>6, <1>7
<1>9. Encoding(way, sent[1]) = e
  BY <1>5
<1>10. Len(e) <= Len(payload) /\ (Len(sent) = 1 => Len(payload) = Len(e))
  <2>1. Len(e) <= Len(payload)
    BY <1>1, <1>7, <1>8
  <2>2. Len(sent) = 1 => off[Len(sent)] = off[1]
    OBVIOUS
  <2> QED
    BY <1>7, <1>8, <2>1, <2>2
<1> QED
  BY <1>4, <1>6, <1>8, <1>9, <1>10, Zenon

-----------------------------------------------------------------------------
(***************************************************************************)
(* The invariant.  The client that reads a response is between two packets *)
(* and has what was sent up to there.  The server has read nothing, or the *)
(* first packet as it was sent, and is at the end if there was no other.   *)
(***************************************************************************)
SentUpTo(k) == /\ got \in Seq(Packets) /\ Len(got) = k
               /\ \A i \in 1 .. k : got[i] = sent[i]

BetweenPackets ==
  \E off : /\ Parts(off)
           /\ \E k \in 0 .. Len(sent) :
                /\ pos = off[k] /\ SentUpTo(k)
                /\ status # "running" => status = "done" /\ k = Len(sent)

Unread == /\ got = <<>> /\ status = "running"
          /\ pos = 0 \/ (way = "binaryPost" /\ pos = 1 /\ payload[1] = 1)

Refused == got = <<>> /\ status # "running" /\ Len(sent) # 1

FirstRead == /\ \E T : got \in Seq(T)
             /\ got # <<>> /\ got[1] = Received(sent[1])
             /\ Len(sent) = 1 => /\ got = <<Received(sent[1])>>
                                 /\ pos \in Nat /\ pos >= Len(payload)
                                 /\ way # "textPost" => pos = Len(payload)
                                 /\ status \in {"running", "done"}

IInv == /\ Static
        /\ way = "response" => BetweenPackets
        /\ way # "response" => Unread \/ Refused \/ FirstRead

\* The packets are those of the assumption.
LEMMA SentIs ==
  ASSUME Init
  PROVE  Static
<1>1. /\ way \in Ways /\ sent \in BoundedSeq(ClientPackets \cup ServerPackets, MaxPackets)
      /\ Written(way, sent) /\ sent # <<>> /\ payload = Payload(way, sent)
  BY DEF Init
<1>2. way \in AllWays
  BY <1>1, PayloadAssumption
<1> DEFINE P == ClientPackets \cup ServerPackets
<1>3. P \subseteq Packets
  BY PayloadAssumption
<1>4. sent \in Seq(P)
  <2>1. sent \in UNION {[1 .. m -> P] : m \in 0 .. MaxPackets}
    BY <1>1, Zenon DEF BoundedSeq, SeqOf
  <2>2. \A m \in 0 .. MaxPackets : m \in Nat
    OBVIOUS
  <2>3. sent \in UNION {[1 .. m -> P] : m \in Nat}
    BY <2>1, <2>2, Zenon
  <2> QED
    BY <2>3, SeqDef, Zenon
<1>5. sent \in Seq(Packets) /\ Len(sent) >= 1
  <2> HIDE DEF P
  <2>1. sent \in Seq(Packets)
    BY <1>3, <1>4, SeqMonotonic
  <2>2. Len(sent) \in Nat \ {0}
    BY <1>1, <2>1, EmptySeq
  <2> QED
    BY <2>1, <2>2
<1> QED
  BY <1>1, <1>2, <1>5 DEF Static

LEMMA InitIInv ==
  ASSUME Init
  PROVE  IInv
<1>1. Static
  BY SentIs
<1>2. pos = 0 /\ got = <<>> /\ status = "running"
  BY DEF Init
<1>3. Unread
  BY <1>2 DEF Unread
<1>4. BetweenPackets
  <2>1. PICK off : Parts(off)
    BY <1>1, Laid
  <2>2. off[0] = 0 /\ 0 \in 0 .. Len(sent)
    BY <1>1, <2>1, Laid DEF Parts
  <2>3. SentUpTo(0)
    <3>1. <<>> \in Seq(Packets) /\ Len(<<>>) = 0 /\ 1 .. 0 = {}
      OBVIOUS
    <3> QED
      BY <1>2, <3>1 DEF SentUpTo
  <2> QED
    BY <1>2, <2>1, <2>2, <2>3 DEF BetweenPackets
<1> QED
  BY <1>1, <1>3, <1>4 DEF IInv

\* No step changes what was sent; and of the client's packets.
LEMMA StepKinds ==
  ASSUME Next \/ UNCHANGED vars
  PROVE  way' = way /\ sent' = sent /\ payload' = payload
<1>1. CASE Text
  BY <1>1, Zenon DEF Text, DecodeText, Stop, Deliver
<1>2. CASE Binary
  BY <1>2, Zenon DEF Binary, ReadMarker, DecodeBinary, Stop, Deliver
<1>3. CASE Response
  BY <1>3, Zenon DEF Response, DecodeResponse, Stop, Deliver
<1>4. CASE FrameArrives
  BY <1>4, Zenon DEF FrameArrives, DecodeFrame, Stop, Deliver
<1>5. CASE UNCHANGED vars
  BY <1>5 DEF vars
<1> QED
  BY <1>1, <1>2, <1>3, <1>4, <1>5 DEF Next

LEMMA StaticStays ==
  ASSUME Static, Next \/ UNCHANGED vars
  PROVE  Static'
BY StepKinds DEF Static

LEMMA PartsStay ==
  ASSUME Next \/ UNCHANGED vars, NEW off, Parts(off)
  PROVE  Parts(off)'
BY StepKinds DEF Parts, At

LEMMA ReceivedStays ==
  ASSUME Next \/ UNCHANGED vars
  PROVE  Received(sent[1])' = Received(sent[1])
BY StepKinds DEF Received

\* A response.
LEMMA ResponseStep ==
  ASSUME Static, BetweenPackets, way = "response", Response
  PROVE  BetweenPackets'
<1>1. PICK off : Parts(off) /\ \E k \in 0 .. Len(sent) :
                                 /\ pos = off[k] /\ SentUpTo(k)
                                 /\ status # "running" => status = "done" /\ k = Len(sent)
  BY DEF BetweenPackets
<1>2. PICK k \in 0 .. Len(sent) : pos = off[k] /\ SentUpTo(k)
  BY <1>1
<1>3. Next /\ status = "running"
  BY DEF Response, Next
<1>4. Parts(off)' /\ sent' = sent /\ way' = way /\ payload' = payload
  BY <1>1, <1>3, PartsStay, StepKinds
<1>5. Len(sent) \in Nat /\ Len(payload) \in Nat /\ payload \in Seq(Nat) /\ sent \in Seq(Packets)
  BY Laid DEF Static
<1>6. CASE AtEnd
  <2>1. Stop("done")
    BY <1>6 DEF Response
  <2>2. k = Len(sent)
    <3> SUFFICES ASSUME k # Len(sent) PROVE FALSE
      OBVIOUS
    <3>1. k + 1 \in 1 .. Len(sent) /\ k + 1 \in 0 .. Len(sent) /\ (k + 1) - 1 = k /\ k \in 0 .. Len(sent)
      BY <1>5
    <3>2. /\ off[k + 1] = off[k] + Len(Encoding(way, sent[k + 1])) /\ off[k + 1] \in 0 .. Len(payload)
          /\ off[k] \in 0 .. Len(payload)
      BY <1>1, <3>1 DEF Parts
    <3>3. Len(Encoding(way, sent[k + 1])) \in Nat /\ Len(Encoding(way, sent[k + 1])) >= 1
      <4>1. PICK w, p : w = way /\ p = sent[k + 1]
        OBVIOUS
      <4>2. w \in AllWays /\ p \in Packets
        BY <1>5, <3>1, <4>1, ElementOfSeq DEF Static
      <4> QED
        BY <4>1, <4>2, EncodingLong
    <3>4. off[k] >= Len(payload)
      BY <1>2, <1>6 DEF AtEnd
    <3> QED
      BY <1>5, <3>2, <3>3, <3>4
  <2>3. pos' = pos /\ got' = got /\ status' = "done"
    BY <2>1 DEF Stop
  <2>4. SentUpTo(k)'
    BY <1>2, <1>4, <2>3 DEF SentUpTo
  <2> QED
    BY <1>2, <1>4, <2>2, <2>3, <2>4 DEF BetweenPackets
<1>7. CASE ~AtEnd
  <2>1. DecodeResponse
    BY <1>7 DEF Response
  <2>2. k # Len(sent)
    BY <1>1, <1>2, <1>5, <1>7 DEF AtEnd, Parts
  <2>3. k + 1 \in 1 .. Len(sent) /\ k + 1 \in 0 .. Len(sent) /\ (k + 1) - 1 = k /\ k \in Nat
    BY <1>5, <2>2
  <2>4. /\ off[k + 1] = off[k] + Len(Encoding(way, sent[k + 1]))
        /\ At(Encoding(way, sent[k + 1]), off[k])
    BY <1>1, <2>3 DEF Parts
  <2>5. PICK p, o : p = sent[k + 1] /\ o = off[k]
    OBVIOUS
  <2>6. p \in Packets
    BY <1>5, <2>3, <2>5, ElementOfSeq
  <2>7. Encoding(way, sent[k + 1]) = BinaryEncode(p)
    BY <2>5, EncodingIs
  <2>8. pos = o /\ At(BinaryEncode(p), o) /\ off[k + 1] = o + Len(BinaryEncode(p))
    BY <1>2, <2>4, <2>5, <2>7
  <2>9. Deliver(p, o + Len(BinaryEncode(p)))
    BY <1>5, <2>1, <2>6, <2>8, ResponseRead
  <2>10. got' = Append(got, p) /\ pos' = off[k + 1] /\ status' = status
    BY <2>8, <2>9 DEF Deliver
  <2>11. SentUpTo(k + 1)'
    <3>1. got \in Seq(Packets) /\ Len(got) = k /\ \A i \in 1 .. k : got[i] = sent[i]
      BY <1>2 DEF SentUpTo
    <3>2. /\ got' \in Seq(Packets) /\ Len(got') = k + 1 /\ got'[k + 1] = p
          /\ \A i \in 1 .. k : got'[i] = got[i]
      BY <2>6, <2>10, <3>1, AppendProperties
    <3>3. \A i \in 1 .. k + 1 : got'[i] = sent[i]
      <4> TAKE i \in 1 .. k + 1
      <4>1. CASE i = k + 1
        BY <2>5, <3>2, <4>1
      <4>2. CASE i # k + 1
        <5>1. i \in 1 .. k
          BY <2>3, <4>2
        <5> QED
          BY <3>1, <3>2, <5>1
      <4> QED
        BY <4>1, <4>2
    <3> QED
      BY <1>4, <3>2, <3>3 DEF SentUpTo
  <2> QED
    BY <1>3, <1>4, <2>3, <2>10, <2>11 DEF BetweenPackets
<1> QED
  BY <1>6, <1>7

\* The server.  Once the first packet is read, it stays.
LEMMA FirstReadStays ==
  ASSUME FirstRead, Next, NEW T, got \in Seq(T),
         Len(sent) = 1 => got' = got /\ pos' = pos /\ status' \in {"running", "done"},
         got' = got \/ \E x : got' = Append(got, x)
  PROVE  FirstRead'
<1>1. way' = way /\ sent' = sent /\ payload' = payload /\ Received(sent[1])' = Received(sent[1])
  BY StepKinds, ReceivedStays
<1>2. CASE got' = got
  BY <1>1, <1>2 DEF FirstRead
<1>3. CASE got' # got
  <2>1. PICK x : got' = Append(got, x)
    BY <1>3
  <2> DEFINE U == T \cup {x}
  <2>2. got \in Seq(U) /\ x \in U
    BY SeqMonotonic
  <2> HIDE DEF U
  <2>3. Len(got) \in Nat \ {0}
    BY EmptySeq DEF FirstRead
  <2>4. got' \in Seq(U) /\ Len(got') = Len(got) + 1 /\ got'[1] = got[1]
    BY <2>1, <2>2, <2>3, AppendProperties
  <2>5. got' # <<>>
    <3>1. Len(got') # 0 /\ Len(<<>>) = 0
      BY <2>3, <2>4
    <3> QED
      BY <3>1
  <2> QED
    BY <1>1, <1>3, <2>4, <2>5 DEF FirstRead
<1> QED
  BY <1>2, <1>3

\* A sequence with one element.
LEMMA Single ==
  ASSUME NEW x
  PROVE  <<x>> \in Seq({x}) /\ <<x>>[1] = x /\ <<x>> # <<>> /\ Append(<<>>, x) = <<x>>
<1> DEFINE s == <<x>>
           t == Append(<<>>, x)
<1>1. s \in [1 .. 1 -> {x}]
  OBVIOUS
<1>2. s[1] = x
  OBVIOUS
<1>3. s \in Seq({x})
  <2> HIDE DEF s
  <2>1. s \in UNION {[1 .. m -> {x}] : m \in Nat}
    <3>1. 1 \in Nat
      OBVIOUS
    <3> QED
      BY <1>1, <3>1, Zenon
  <2> QED
    BY <2>1, SeqDef, Zenon
<1>4. <<>> \in Seq({x}) /\ Len(<<>>) = 0
  BY EmptySeq
<1>5. t \in Seq({x}) /\ Len(t) = 1 /\ t[1] = x
  <2>1. t \in Seq({x}) /\ Len(t) = Len(<<>>) + 1 /\ t[Len(<<>>) + 1] = x
    BY <1>4, AppendProperties
  <2> HIDE DEF t
  <2> QED
    BY <1>4, <2>1
<1>6. Len(s) = 1
  <2> HIDE DEF s
  <2> QED
    BY <1>1, <1>3, LenProperties
<1> HIDE DEF s, t
<1>7. s = t
  <2>1. \A i \in 1 .. 1 : s[i] = t[i]
    BY <1>2, <1>5
  <2> QED
    BY <1>3, <1>5, <1>6, <2>1, SeqEqual
<1>8. s # <<>>
  BY <1>4, <1>6
<1> QED
  BY <1>2, <1>3, <1>7, <1>8 DEF s, t

\* Its first packet.
LEMMA NowRead ==
  ASSUME Static, Next, got = <<>>, status = "running", NEW x, x = Received(sent[1]), NEW q \in Nat,
         Deliver(x, q), Len(sent) = 1 => q >= Len(payload) /\ (way # "textPost" => q = Len(payload))
  PROVE  FirstRead'
<1>1. way' = way /\ sent' = sent /\ payload' = payload /\ Received(sent[1])' = Received(sent[1])
  BY StepKinds, ReceivedStays
<1>2. got' = Append(got, x) /\ pos' = q /\ status' = status
  BY DEF Deliver
<1>3. got' = <<x>>
  BY <1>2, Single, Zenon
<1>4. <<x>> \in Seq({x}) /\ <<x>> # <<>> /\ <<x>>[1] = x
  BY Single, Zenon
<1>5. got' \in Seq({x}) /\ got' # <<>> /\ got'[1] = Received(sent[1])' /\ got' = <<Received(sent[1])>>'
  BY <1>1, <1>3, <1>4
<1>6. (Len(sent) = 1)' => /\ pos' \in Nat /\ (pos >= Len(payload))'
                          /\ (way # "textPost" => pos = Len(payload))'
                          /\ status' \in {"running", "done"}
  BY <1>1, <1>2
<1> QED
  BY <1>5, <1>6 DEF FirstRead

LEMMA Appends ==
  /\ DecodeText => got' = got \/ \E x : got' = Append(got, x)
  /\ DecodeBinary => got' = got \/ \E x : got' = Append(got, x)
  /\ \A s : Stop(s) => got' = got /\ pos' = pos /\ status' = s
<1>1. DecodeText => got' = got \/ \E x : got' = Append(got, x)
  BY Zenon DEF DecodeText, Stop, Deliver
<1>2. DecodeBinary => got' = got \/ \E x : got' = Append(got, x)
  BY Zenon DEF DecodeBinary, Stop, Deliver
<1>3. \A s : Stop(s) => got' = got /\ pos' = pos /\ status' = s
  BY DEF Stop
<1> QED
  BY <1>1, <1>2, <1>3

\* What the client has written.
LEMMA FirstIs ==
  ASSUME Static, way \in {"textPost", "binaryPost"}
  PROVE  /\ sent[1].type \in {CLOSE, PING, MESSAGE, UPGRADE}
         /\ sent[1].type \in {CLOSE, UPGRADE} => sent[1].data = <<>>
         /\ way = "textPost" => ~sent[1].binary
         /\ way = "binaryPost" /\ Len(sent) = 1 => sent[1].binary
<1>1. /\ sent \in Seq(ClientPackets)
      /\ way = "textPost" => \A i \in DOMAIN sent : ~sent[i].binary
      /\ way = "binaryPost" => \E i \in DOMAIN sent : sent[i].binary
  BY DEF Static, Written
<1>2. Len(sent) \in Nat /\ Len(sent) >= 1
  BY Laid DEF Static
<1>3. 1 \in 1 .. Len(sent)
  BY <1>2
<1>35. DOMAIN sent = 1 .. Len(sent)
  BY LenProperties DEF Static
<1>4. sent[1] \in ClientPackets
  BY <1>1, <1>3, ElementOfSeq
<1>5. way = "textPost" => ~sent[1].binary
  BY <1>1, <1>35, <1>3, Zenon
<1>6. way = "binaryPost" /\ Len(sent) = 1 => sent[1].binary
  <2> SUFFICES ASSUME way = "binaryPost", Len(sent) = 1 PROVE sent[1].binary
    OBVIOUS
  <2>1. PICK i \in DOMAIN sent : sent[i].binary
    BY <1>1
  <2>2. i \in 1 .. 1
    BY <1>35, <2>1, Zenon
  <2>3. i = 1
    BY <2>2
  <2> QED
    BY <2>1, <2>3
<1> QED
  BY <1>4, <1>5, <1>6, PayloadAssumption

\* How long the payload is.
LEMMA Long ==
  ASSUME Static
  PROVE  /\ Len(payload) \in Nat /\ Len(payload) # 0 /\ ~(0 >= Len(payload))
         /\ \A x \in Nat : x = Len(Encoding(way, sent[1])) /\ Len(sent) = 1 =>
              x = Len(payload) /\ x + 2 >= Len(payload) /\ x >= Len(payload)
<1>1. PICK x, z : x = Len(Encoding(way, sent[1])) /\ z = Len(payload)
  OBVIOUS
<1>2. x \in Nat /\ z \in Nat /\ x >= 1 /\ x <= z /\ (Len(sent) = 1 => z = x)
  BY <1>1, FirstLaid, Laid
<1>3. z # 0 /\ ~(0 >= z) /\ (Len(sent) = 1 => x + 2 >= z /\ x >= z)
  BY <1>2
<1> QED
  BY <1>1, <1>2, <1>3

LEMMA TextStep ==
  ASSUME Static, way = "textPost", Text, Unread \/ Refused \/ FirstRead
  PROVE  FirstRead'
<1>1. status = "running" /\ Next /\ (IF AtEnd THEN Stop("done") ELSE DecodeText)
  BY DEF Text, Next
<1>2. /\ sent[1] \in Packets /\ At(Encoding(way, sent[1]), 0)
      /\ Len(Encoding(way, sent[1])) \in Nat /\ Len(Encoding(way, sent[1])) >= 1
      /\ Len(Encoding(way, sent[1])) <= Len(payload)
      /\ Len(sent) = 1 => Len(payload) = Len(Encoding(way, sent[1]))
      /\ payload \in Seq(Nat) /\ Len(payload) \in Nat
  BY FirstLaid, Laid
<1>3. CASE Unread
  <2>1. pos = 0 /\ got = <<>>
    BY <1>3 DEF Unread
  <2>2. ~AtEnd
    BY <2>1, Long DEF AtEnd
  <2>3. DecodeText
    BY <1>1, <2>2
  <2>4. PICK p : p = sent[1]
    OBVIOUS
  <2>5. Encoding(way, sent[1]) = ClientText(p)
    BY <2>4, EncodingIs
  <2>6. /\ p \in Packets /\ ~p.binary /\ At(ClientText(p), 0)
        /\ p.type \in {CLOSE, PING, MESSAGE, UPGRADE}
        /\ p.type \in {CLOSE, UPGRADE} => p.data = <<>>
    BY <1>2, <2>4, <2>5, FirstIs
  <2>7. PICK x, q : x = [p EXCEPT !.data = UTF8(@)] /\ q = Len(ClientText(p)) + 2
    OBVIOUS
  <2>8. Deliver(x, q)
    BY <1>2, <2>1, <2>3, <2>6, <2>7, TextRead
  <2>9. q \in Nat /\ (Len(sent) = 1 => q >= Len(payload))
    <3>1. PICK y : y = Len(Encoding(way, sent[1]))
      OBVIOUS
    <3>2. y \in Nat /\ q = y + 2
      BY <1>2, <2>5, <2>7, <3>1
    <3> QED
      BY <3>1, <3>2, Long
  <2>10. x = Received(sent[1])
    BY <2>4, <2>7, Zenon DEF Received
  <2> QED
    BY <1>1, <2>1, <2>8, <2>9, <2>10, NowRead
<1>4. CASE FirstRead
  <2>1. PICK T : got \in Seq(T)
    BY <1>4 DEF FirstRead
  <2>2. Len(sent) = 1 => got' = got /\ pos' = pos /\ status' \in {"running", "done"}
    <3>1. Len(sent) = 1 => AtEnd
      BY <1>4 DEF FirstRead, AtEnd
    <3> QED
      BY <1>1, <3>1, Appends
  <2>3. got' = got \/ \E x : got' = Append(got, x)
    BY <1>1, Appends
  <2> QED
    BY <1>1, <1>4, <2>1, <2>2, <2>3, FirstReadStays
<1>5. ~Refused
  BY <1>1 DEF Refused
<1> QED
  BY <1>3, <1>4, <1>5

LEMMA BinaryStep ==
  ASSUME Static, way = "binaryPost", Binary, Unread \/ Refused \/ FirstRead
  PROVE  (Unread \/ Refused \/ FirstRead)'
<1>1. status = "running" /\ Next /\ (IF pos = 0 THEN ReadMarker ELSE DecodeBinary)
  BY DEF Binary, Next
<1>2. /\ sent[1] \in Packets /\ At(Encoding(way, sent[1]), 0)
      /\ Len(Encoding(way, sent[1])) \in Nat /\ Len(Encoding(way, sent[1])) >= 1
      /\ Len(Encoding(way, sent[1])) <= Len(payload)
      /\ Len(sent) = 1 => Len(payload) = Len(Encoding(way, sent[1]))
      /\ payload \in Seq(Nat) /\ Len(payload) \in Nat
  BY FirstLaid, Laid
<1>3. PICK p : p = sent[1]
  OBVIOUS
<1>4. /\ p \in Packets /\ p.binary \in BOOLEAN
      /\ Encoding(way, sent[1]) = ClientBinary(p) /\ At(ClientBinary(p), 0)
  <2>1. Encoding(way, sent[1]) = ClientBinary(p)
    BY <1>3, EncodingIs
  <2>2. p \in Packets
    BY <1>2, <1>3
  <2>3. p.binary \in BOOLEAN
    BY <2>2, PacketIs
  <2> QED
    BY <1>2, <2>1, <2>2, <2>3
<1>5. payload[1] = Marker(p)
  <2>1. PICK n, l : n = Len(EncodeLength(p)) /\ l = Len(Octets(p))
    OBVIOUS
  <2>2. At(BinaryEncode(p), 0)
    BY <1>4, BinaryIs
  <2>3. BinaryLayout(p, 0, n, l)
    BY <1>2, <1>4, <2>1, <2>2, BinaryAt
  <2>4. payload[0 + 1] = Marker(p)
    BY <2>3, Zenon DEF BinaryLayout
  <2>5. 0 + 1 = 1
    OBVIOUS
  <2> QED
    BY <2>4, <2>5, Zenon
<1>6. way' = way /\ sent' = sent /\ payload' = payload
  BY <1>1, StepKinds
<1>7. CASE Unread /\ pos = 0
  <2>1. ReadMarker /\ got = <<>>
    BY <1>1, <1>7 DEF Unread
  <2>2. CASE payload[1] = 1
    <3>1. pos' = 1 /\ got' = got /\ status' = status
      BY <2>1, <2>2 DEF ReadMarker
    <3>2. Unread'
      BY <1>1, <1>6, <2>1, <2>2, <3>1 DEF Unread
    <3> QED
      BY <3>2
  <2>3. CASE payload[1] # 1
    <3>1. Stop("rejected")
      BY <2>1, <2>3 DEF ReadMarker
    <3>2. ~p.binary
      BY <1>5, <2>3 DEF Marker
    <3>3. Len(sent) # 1
      BY <1>3, <3>2, FirstIs
    <3>4. Refused'
      BY <1>6, <2>1, <3>1, <3>3 DEF Refused, Stop
    <3> QED
      BY <3>4
  <2> QED
    BY <2>2, <2>3
<1>8. CASE Unread /\ pos # 0
  <2>1. DecodeBinary /\ pos = 1 /\ payload[1] = 1 /\ got = <<>>
    BY <1>1, <1>8 DEF Unread
  <2>2. p.binary
    <3> SUFFICES ASSUME ~p.binary PROVE FALSE
      OBVIOUS
    <3>1. Marker(p) = 0
      BY Zenon DEF Marker
    <3>2. 0 = 1
      BY <1>5, <2>1, <3>1, Zenon
    <3> QED
      BY <3>2
  <2>3. PICK q : q = Len(ClientBinary(p))
    OBVIOUS
  <2>4. Deliver(p, q)
    BY <1>2, <1>4, <2>1, <2>2, <2>3, BinaryRead
  <2>5. q \in Nat /\ (Len(sent) = 1 => q >= Len(payload) /\ q = Len(payload))
    BY <1>2, <1>4, <2>3
  <2>6. p = Received(sent[1])
    BY <1>3 DEF Received
  <2>7. FirstRead'
    BY <1>1, <2>1, <2>4, <2>5, <2>6, NowRead
  <2> QED
    BY <2>7
<1>9. CASE FirstRead
  <2>1. PICK T : got \in Seq(T)
    BY <1>9 DEF FirstRead
  <2>2. Len(sent) = 1 => got' = got /\ pos' = pos /\ status' \in {"running", "done"}
    <3> SUFFICES ASSUME Len(sent) = 1
                 PROVE  got' = got /\ pos' = pos /\ status' \in {"running", "done"}
      OBVIOUS
    <3>1. pos = Len(payload) /\ pos # 0
      BY <1>9, Long DEF FirstRead
    <3>10. PICK z \in Nat : z = Len(payload) /\ pos = z
      BY <3>1, Long
    <3>2. Run(pos, 0 .. 9) = 0
      <4> DEFINE stops == {i \in pos + 1 .. Len(payload) : payload[i] \notin 0 .. 9}
      <4>1. stops = {}
        <5>1. pos + 1 .. Len(payload) = z + 1 .. z
          BY <3>10
        <5>2. z + 1 .. z = {}
          OBVIOUS
        <5> QED
          BY <5>1, <5>2
      <4>2. Run(pos, 0 .. 9) = (IF stops = {} THEN Len(payload) ELSE Min(stops) - 1) - pos
        BY Zenon DEF Run
      <4> HIDE DEF stops
      <4>3. Run(pos, 0 .. 9) = Len(payload) - pos
        BY <4>1, <4>2, Zenon
      <4> QED
        <5>1. Run(pos, 0 .. 9) = z - z
          BY <3>10, <4>3, Zenon
        <5> QED
          BY <5>1
    <3>3. pos + Run(pos, 0 .. 9) = Len(payload)
      <4>1. z + 0 = z
        OBVIOUS
      <4> QED
        BY <3>10, <3>2, <4>1, Zenon
    <3>4. Stop("done")
      BY <1>1, <3>1, <3>3, Zenon DEF DecodeBinary
    <3> QED
      BY <3>4, Appends
  <2>3. got' = got \/ \E x : got' = Append(got, x)
    <3>1. ReadMarker => got' = got
      BY DEF ReadMarker, Stop
    <3> QED
      BY <1>1, <3>1, Appends
  <2>4. FirstRead'
    BY <1>1, <1>9, <2>1, <2>2, <2>3, FirstReadStays
  <2> QED
    BY <2>4
<1>10. ~Refused
  BY <1>1 DEF Refused
<1> QED
  BY <1>7, <1>8, <1>9, <1>10

LEMMA FrameStep ==
  ASSUME Static, way \in Frames, FrameArrives, Unread \/ Refused \/ FirstRead
  PROVE  FirstRead'
<1>1. status = "running" /\ Next /\ (IF AtEnd THEN Stop("done") ELSE DecodeFrame)
  BY DEF FrameArrives, Next
<1>2. /\ sent[1] \in Packets /\ At(Encoding(way, sent[1]), 0)
      /\ Len(Encoding(way, sent[1])) \in Nat /\ Len(Encoding(way, sent[1])) >= 1
      /\ Len(sent) = 1 => Len(payload) = Len(Encoding(way, sent[1]))
      /\ payload \in Seq(Nat) /\ Len(payload) \in Nat
  BY FirstLaid, Laid
<1>3. Len(sent) = 1 /\ way # "textPost" /\ way # "binaryPost"
  BY DEF Static, Written, Frames
<1>4. CASE Unread
  <2>1. pos = 0 /\ got = <<>>
    BY <1>3, <1>4 DEF Unread
  <2>2. DecodeFrame
    BY <1>1, <2>1, Long DEF AtEnd
  <2>3. PICK p : p = sent[1]
    OBVIOUS
  <2>4. Encoding(way, sent[1]) = Frame(p)
    BY <2>3, EncodingIs
  <2>5. payload = Frame(p)
    <3>1. At(Frame(p), 0) /\ Len(payload) = Len(Frame(p))
      BY <1>2, <1>3, <2>4
    <3>2. Frame(p) \in Seq(Nat) /\ \A j \in 1 .. Len(Frame(p)) : payload[0 + j] = Frame(p)[j]
      BY <3>1, Zenon DEF At
    <3>3. Len(Frame(p)) \in Nat
      BY <3>2, LenProperties
    <3>4. \A j \in 1 .. Len(payload) : payload[j] = Frame(p)[j]
      <4> TAKE j \in 1 .. Len(payload)
      <4>1. 0 + j = j
        OBVIOUS
      <4> QED
        BY <3>1, <3>2, <4>1
    <3> QED
      BY <1>2, <3>1, <3>2, <3>4, SeqEqual
  <2>6. PICK q : q = Len(payload)
    OBVIOUS
  <2>7. Deliver(p, q)
    <3>1. Deliver(p, Len(payload))
      BY <1>2, <2>2, <2>3, <2>5, FrameRead
    <3> QED
      BY <2>6, <3>1
  <2>8. p = Received(sent[1])
    BY <1>3, <2>3 DEF Received
  <2>9. q \in Nat /\ (Len(sent) = 1 => q >= Len(payload) /\ (way # "textPost" => q = Len(payload)))
    BY <1>2, <2>6
  <2> QED
    BY <1>1, <2>1, <2>7, <2>8, <2>9, NowRead
<1>5. CASE FirstRead
  <2>1. PICK T : got \in Seq(T)
    BY <1>5 DEF FirstRead
  <2>2. AtEnd
    BY <1>3, <1>5 DEF FirstRead, AtEnd
  <2>3. got' = got /\ pos' = pos /\ status' = "done"
    BY <1>1, <2>2, Appends
  <2> QED
    BY <1>1, <1>5, <2>1, <2>3, FirstReadStays
<1>6. ~Refused
  BY <1>1 DEF Refused
<1> QED
  BY <1>4, <1>5, <1>6

LEMMA StutterIInv ==
  ASSUME IInv, UNCHANGED vars
  PROVE  IInv'
<1>1. UNCHANGED <<way, sent, payload, pos, got, status>>
  BY DEF vars
<1>2. Static'
  BY StaticStays DEF IInv
<1>3. BetweenPackets => BetweenPackets'
  <2> SUFFICES ASSUME BetweenPackets PROVE BetweenPackets'
    OBVIOUS
  <2>1. PICK off : /\ Parts(off)
                   /\ \E k \in 0 .. Len(sent) :
                        /\ pos = off[k] /\ SentUpTo(k)
                        /\ status # "running" => status = "done" /\ k = Len(sent)
    BY DEF BetweenPackets
  <2>2. Parts(off)'
    BY <2>1, PartsStay
  <2>3. \A k : SentUpTo(k) => SentUpTo(k)'
    BY <1>1 DEF SentUpTo
  <2> QED
    BY <1>1, <2>1, <2>2, <2>3 DEF BetweenPackets
<1>4. Unread => Unread'
  BY <1>1 DEF Unread
<1>5. Refused => Refused'
  BY <1>1 DEF Refused
<1>6. FirstRead => FirstRead'
  BY <1>1, ReceivedStays DEF FirstRead
<1> QED
  BY <1>1, <1>2, <1>3, <1>4, <1>5, <1>6 DEF IInv

LEMMA StepIInv ==
  ASSUME IInv, [Next]_vars
  PROVE  IInv'
<1>1. CASE UNCHANGED vars
  BY <1>1, StutterIInv
<1>2. CASE Next
  <2>1. Static /\ Static' /\ way' = way
    BY <1>2, StaticStays, StepKinds DEF IInv
  <2>2. CASE Text
    <3>1. way = "textPost"
      BY <2>2 DEF Text
    <3> QED
      BY <2>1, <2>2, <3>1, TextStep DEF IInv
  <2>3. CASE Binary
    <3>1. way = "binaryPost"
      BY <2>3 DEF Binary
    <3> QED
      BY <2>1, <2>3, <3>1, BinaryStep DEF IInv
  <2>4. CASE Response
    <3>1. way = "response"
      BY <2>4 DEF Response
    <3> QED
      BY <2>1, <2>4, <3>1, ResponseStep DEF IInv
  <2>5. CASE FrameArrives
    <3>1. way \in Frames /\ way # "response"
      BY <2>5 DEF FrameArrives, Frames
    <3> QED
      BY <2>1, <2>5, <3>1, FrameStep DEF IInv
  <2> QED
    BY <1>2, <2>2, <2>3, <2>4, <2>5 DEF Next
<1> QED
  BY <1>1, <1>2

\* Whatever the packets, their data and their number.
THEOREM Inductive == Spec => []IInv
<1>1. Init => IInv
  BY InitIInv
<1>2. IInv /\ [Next]_vars => IInv'
  BY StepIInv
<1> QED
  BY <1>1, <1>2, PTL DEF Spec

\* A sequence with one packet.
LEMMA OneIntact ==
  ASSUME Static, Len(sent) = 1
  PROVE  [i \in DOMAIN sent |-> Received(sent[i])] = <<Received(sent[1])>>
<1> DEFINE s == [i \in DOMAIN sent |-> Received(sent[i])]
           x == Received(sent[1])
<1>1. DOMAIN sent = 1 .. 1
  BY LenProperties DEF Static
<1>2. DOMAIN s = 1 .. 1 /\ s[1] = x /\ s = [i \in 1 .. 1 |-> s[i]]
  BY <1>1
<1> HIDE DEF s, x
<1>3. s = [i \in 1 .. 1 |-> x]
  <2>1. \A i \in 1 .. 1 : s[i] = x
    BY <1>2
  <2> QED
    BY <1>2, <2>1
<1>4. <<x>> = [i \in 1 .. 1 |-> x]
  OBVIOUS
<1> QED
  BY <1>3, <1>4 DEF s, x

\* What the client decodes from a response or a frame is what the server encoded
\* (EngineIOProtocol.binaryEncode, decodePayloadAsBinary of the client), for
\* every list of packets, whatever their data look like.
THEOREM ServerIsIntact == Spec => []ServerIntact
<1>1. IInv => ServerIntact
  <2> SUFFICES ASSUME IInv, way \in {"response", "frameDown"}, status # "running"
               PROVE  status = "done" /\ got = [i \in DOMAIN sent |-> Received(sent[i])]
    BY DEF ServerIntact, Intact
  <2>1. Static
    BY DEF IInv
  <2>2. CASE way = "response"
    <3>1. status = "done" /\ SentUpTo(Len(sent))
      BY <2>2 DEF IInv, BetweenPackets
    <3>2. /\ got \in Seq(Packets) /\ Len(got) = Len(sent) /\ sent \in Seq(Packets)
          /\ \A i \in 1 .. Len(sent) : got[i] = sent[i]
      BY <2>1, <3>1 DEF SentUpTo, Static
    <3>3. got = sent
      BY <3>2, SeqEqual
    <3>4. [i \in DOMAIN sent |-> Received(sent[i])] = sent
      <4>1. \A i \in DOMAIN sent : Received(sent[i]) = sent[i]
        BY <2>2 DEF Received
      <4>2. sent = [i \in DOMAIN sent |-> sent[i]]
        BY <3>2, LenProperties
      <4> QED
        BY <4>1, <4>2
    <3> QED
      BY <3>1, <3>3, <3>4
  <2>3. CASE way = "frameDown"
    <3>1. Len(sent) = 1
      BY <2>1, <2>3 DEF Static, Written, Frames
    <3>2. FirstRead
      BY <2>3, <3>1 DEF IInv, Unread, Refused
    <3>3. status = "done" /\ got = <<Received(sent[1])>>
      BY <3>1, <3>2 DEF FirstRead
    <3> QED
      BY <2>1, <3>1, <3>3, OneIntact
  <2> QED
    BY <2>2, <2>3
<1> QED
  BY <1>1, Inductive, PTL

\* A post or a frame with one packet reaches the server as it was sent: the
\* decoders of the server (decodePayload, binaryDecodePayload) go wrong only from
\* the second packet on.
THEOREM SingleIsIntact == Spec => []SingleIntact
<1>1. IInv => SingleIntact
  <2> SUFFICES ASSUME IInv, way \notin {"response", "frameDown"}, Len(sent) = 1, status # "running"
               PROVE  status = "done" /\ got = [i \in DOMAIN sent |-> Received(sent[i])]
    BY DEF SingleIntact, Intact
  <2>1. Static /\ FirstRead
    BY DEF IInv, Unread, Refused
  <2>2. status = "done" /\ got = <<Received(sent[1])>>
    BY <2>1 DEF FirstRead
  <2> QED
    BY <2>1, <2>2, OneIntact
<1> QED
  BY <1>1, Inductive, PTL

\* The first packet that is read from a payload is the first that was sent,
\* whatever the rest is misread as.
THEOREM FirstIsRight == Spec => []FirstPacketRight
<1>1. IInv => FirstPacketRight
  <2> SUFFICES ASSUME IInv, got # <<>> PROVE got[1] = Received(sent[1])
    BY DEF FirstPacketRight
  <2>1. CASE way = "response"
    <3>1. PICK k \in 0 .. Len(sent) : SentUpTo(k)
      BY <2>1 DEF IInv, BetweenPackets
    <3>2. Len(got) \in Nat \ {0} /\ Len(got) = k /\ \A i \in 1 .. k : got[i] = sent[i]
      BY <3>1, EmptySeq DEF SentUpTo
    <3>3. got[1] = sent[1]
      BY <3>2
    <3> QED
      BY <2>1, <3>3 DEF Received
  <2>2. CASE way # "response"
    BY <2>2 DEF IInv, Unread, Refused, FirstRead
  <2> QED
    BY <2>1, <2>2
<1> QED
  BY <1>1, Inductive, PTL

=============================================================================
