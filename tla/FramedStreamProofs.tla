-------------------------- MODULE FramedStreamProofs --------------------------
(***************************************************************************)
(* Proofs about FramedStream and the Decoder, for messages of every size a *)
(* header can tell, sockets of every size and every way to cut the stream. *)
(***************************************************************************)
EXTENDS FramedStream, SequenceTheorems, WellFoundedInduction, TLAPS

-----------------------------------------------------------------------------
(* Induction over the naturals, from the least element of a set.           *)

\* A set of naturals has a least element.
LEMMA LeastNatural ==
  ASSUME NEW T, T \subseteq Nat, T # {}
  PROVE  \E x \in T : \A y \in T : x <= y
<1> DEFINE Below == OpToRel(<, Nat)
<1>1. IsWellFoundedOn(Below, Nat)
  BY NatLessThanWellFounded
<1>2. \A y, x \in Nat : y < x => <<y, x>> \in Below
  BY DEF OpToRel
<1> HIDE DEF Below
<1>3. PICK x \in T : \A y \in T : ~(<<y, x>> \in Below)
  BY <1>1, WFMin, Zenon
<1>4. ASSUME NEW y \in T PROVE x <= y
  <2>1. x \in Nat /\ y \in Nat /\ ~(<<y, x>> \in Below)
    BY <1>3
  <2>2. ~(y < x)
    BY <2>1, <1>2, Zenon
  <2> QED
    BY <2>1, <2>2
<1> QED
  BY <1>4

\* What holds of 0 and goes from a number to the next one holds of all.
LEMMA SetInduction ==
  ASSUME NEW S, 0 \in S, \A n \in Nat : n \in S => n + 1 \in S
  PROVE  \A n \in Nat : n \in S
<1> DEFINE T == Nat \ S
<1> SUFFICES ASSUME T # {} PROVE FALSE
  OBVIOUS
<1>1. PICK x \in T : \A y \in T : x <= y
  <2>1. T \subseteq Nat
    OBVIOUS
  <2> HIDE DEF T
  <2> QED
    BY <2>1, LeastNatural
<1>2. x # 0 /\ x \in Nat /\ x - 1 \in Nat /\ x - 1 \in S
  BY <1>1
<1> QED
  BY <1>1, <1>2

\* A sequence is its front and its last element.
LEMMA FrontLast ==
  ASSUME NEW T, NEW s \in Seq(T), NEW n \in Nat, Len(s) = n + 1
  PROVE  /\ SubSeq(s, 1, n) \in Seq(T) /\ Len(SubSeq(s, 1, n)) = n /\ s[n + 1] \in T
         /\ s = Append(SubSeq(s, 1, n), s[n + 1])
<1>1. s \in Seq(T) /\ \A i \in 1 .. n + 1 : s[i] \in T
  BY ElementOfSeq
<1>2. /\ SubSeq(s, 1, n) \in Seq(T) /\ Len(SubSeq(s, 1, n)) = n
      /\ \A i \in 1 .. n : SubSeq(s, 1, n)[i] = s[i]
  <2>1. 1 \in Int /\ n \in Int /\ \A i \in 1 .. n : s[i] \in T
    BY <1>1
  <2>2. /\ SubSeq(s, 1, n) \in Seq(T)
        /\ Len(SubSeq(s, 1, n)) = IF 1 <= n THEN n - 1 + 1 ELSE 0
        /\ \A i \in 1 .. n - 1 + 1 : SubSeq(s, 1, n)[i] = s[1 + i - 1]
    BY <2>1, SubSeqProperties
  <2> QED
    BY <2>2
<1>3. s[n + 1] \in T
  BY <1>1
<1>4. s = Append(SubSeq(s, 1, n), s[n + 1])
  <2> DEFINE u == Append(SubSeq(s, 1, n), s[n + 1])
  <2>1. /\ u \in Seq(T) /\ Len(u) = n + 1 /\ u[n + 1] = s[n + 1]
        /\ \A i \in 1 .. n : u[i] = SubSeq(s, 1, n)[i]
    BY <1>2, <1>3, AppendProperties
  <2>2. \A i \in 1 .. Len(s) : s[i] = u[i]
    BY <1>2, <2>1
  <2> HIDE DEF u
  <2>3. s = u
    BY <2>1, <2>2, SeqEqual
  <2> QED
    BY <2>3 DEF u
<1> QED
  BY <1>2, <1>3, <1>4

\* What holds of a number if it holds of all that are less, holds of all.
LEMMA StrongInduction ==
  ASSUME NEW S, \A n \in Nat : (\A k \in 0 .. n - 1 : k \in S) => n \in S
  PROVE  \A n \in Nat : n \in S
<1> DEFINE T == Nat \ S
<1> SUFFICES ASSUME T # {} PROVE FALSE
  OBVIOUS
<1>1. PICK x \in T : \A y \in T : x <= y
  <2>1. T \subseteq Nat
    OBVIOUS
  <2> HIDE DEF T
  <2> QED
    BY <2>1, LeastNatural
<1>2. x \in Nat /\ x \notin S /\ \A k \in 0 .. x - 1 : k \in S
  BY <1>1
<1> QED
  BY <1>2

-----------------------------------------------------------------------------
(* The header of a message.                                                *)

\* Digits in base Radix.
LEMMA Dividing ==
  ASSUME NEW n \in Nat
  PROVE  /\ n \div Radix \in Nat /\ n % Radix \in 0 .. Radix - 1
         /\ n = Radix * (n \div Radix) + (n % Radix)
         /\ n >= Radix => n \div Radix \in 1 .. n - 1
<1>1. Radix \in Nat /\ Radix >= 2
  BY DecoderAssumption
<1> DEFINE q == n \div Radix
           r == n % Radix
<1>2. q \in Nat /\ r \in 0 .. Radix - 1 /\ n = Radix * q + r
  BY <1>1
<1> HIDE DEF q, r
<1>3. ASSUME n >= Radix PROVE q \in 1 .. n - 1
  <2>1. q # 0
    BY <1>1, <1>2, <1>3
  <2>2. Radix * q >= 2 * q
    BY <1>1, <1>2
  <2> QED
    BY <1>1, <1>2, <1>3, <2>1, <2>2
<1> QED
  BY <1>2, <1>3 DEF q, r

IsEncoding(f, n) ==
    f = [k \in 0 .. n |-> IF k < Radix THEN <<k>> ELSE <<(k % Radix) + Radix>> \o f[k \div Radix]]

\* There is an encoding up to every number.
LEMMA EncodingExists == \A n \in Nat : \E f : IsEncoding(f, n)
<1> DEFINE S == {n \in Nat : \E f : IsEncoding(f, n)}
<1>0. Radix \in Nat /\ Radix >= 2
  BY DecoderAssumption
<1>1. 0 \in S
  <2>1. IsEncoding([k \in {0} |-> <<k>>], 0)
    BY <1>0 DEF IsEncoding
  <2> QED
    BY <2>1
<1>2. ASSUME NEW n \in Nat, n \in S PROVE n + 1 \in S
  <2>1. PICK f : IsEncoding(f, n)
    BY <1>2
  <2> DEFINE x == <<((n + 1) % Radix) + Radix>> \o f[(n + 1) \div Radix]
             g == [k \in 0 .. n + 1 |-> IF k <= n THEN f[k] ELSE IF n + 1 < Radix THEN <<n + 1>> ELSE x]
  <2>2. ASSUME NEW k \in 0 .. n
        PROVE  f[k] = IF k < Radix THEN <<k>> ELSE <<(k % Radix) + Radix>> \o f[k \div Radix]
    BY <2>1 DEF IsEncoding
  <2>3. ASSUME NEW k \in 0 .. n + 1
        PROVE  g[k] = IF k < Radix THEN <<k>> ELSE <<(k % Radix) + Radix>> \o g[k \div Radix]
    <3>1. CASE k <= n
      <4>1. k \in 0 .. n /\ g[k] = f[k]
        BY <3>1
      <4>2. k >= Radix => k \div Radix \in 0 .. n
        BY <4>1, Dividing
      <4>3. k >= Radix => g[k \div Radix] = f[k \div Radix]
        BY <4>2
      <4>4. f[k] = IF k < Radix THEN <<k>> ELSE <<(k % Radix) + Radix>> \o f[k \div Radix]
        BY <2>2, <4>1
      <4> HIDE DEF g
      <4>5. CASE k < Radix
        BY <4>1, <4>4, <4>5, Zenon
      <4>6. CASE ~(k < Radix)
        <5>1. k >= Radix
          BY <1>0, <4>6
        <5> QED
          BY <4>1, <4>3, <4>4, <4>6, <5>1, Zenon
      <4> QED
        BY <4>5, <4>6
    <3>2. CASE k = n + 1
      <4>1. n + 1 >= Radix => (n + 1) \div Radix \in 0 .. n
        BY Dividing
      <4>2. n + 1 >= Radix => g[(n + 1) \div Radix] = f[(n + 1) \div Radix]
        BY <4>1
      <4>3. g[n + 1] = IF n + 1 < Radix THEN <<n + 1>> ELSE x
        OBVIOUS
      <4> HIDE DEF g
      <4> QED
        BY <1>0, <3>2, <4>2, <4>3
    <3> QED
      BY <3>1, <3>2
  <2>4. g = [k \in 0 .. n + 1 |-> g[k]]
    OBVIOUS
  <2> HIDE DEF g
  <2>5. IsEncoding(g, n + 1)
    BY <2>3, <2>4 DEF IsEncoding
  <2> QED
    BY <2>5
<1>3. \A n \in Nat : n \in S
  <2> HIDE DEF S
  <2> QED
    BY <1>1, <1>2, SetInduction
<1> QED
  BY <1>3

\* Encodings up to two numbers agree.
LEMMA EncodingsAgree ==
  ASSUME NEW m \in Nat, NEW n \in Nat, NEW f, IsEncoding(f, m), NEW g, IsEncoding(g, n)
  PROVE  \A k \in Nat : k <= m /\ k <= n => f[k] = g[k]
<1> DEFINE S == {k \in Nat : k <= m /\ k <= n => f[k] = g[k]}
<1>0. Radix \in Nat /\ Radix >= 2
  BY DecoderAssumption
<1>1. ASSUME NEW k \in 0 .. m
      PROVE  f[k] = IF k < Radix THEN <<k>> ELSE <<(k % Radix) + Radix>> \o f[k \div Radix]
  BY DEF IsEncoding
<1>2. ASSUME NEW k \in 0 .. n
      PROVE  g[k] = IF k < Radix THEN <<k>> ELSE <<(k % Radix) + Radix>> \o g[k \div Radix]
  BY DEF IsEncoding
<1>3. ASSUME NEW k \in Nat, \A i \in 0 .. k - 1 : i \in S PROVE k \in S
  <2> SUFFICES ASSUME k <= m, k <= n PROVE f[k] = g[k]
    OBVIOUS
  <2>1. k \in 0 .. m /\ k \in 0 .. n
    OBVIOUS
  <2>2. ASSUME k >= Radix PROVE f[k \div Radix] = g[k \div Radix]
    <3>1. k \div Radix \in 0 .. k - 1
      BY <2>2, Dividing
    <3> DEFINE q == k \div Radix
    <3> HIDE DEF q
    <3>2. q \in 0 .. k - 1
      BY <3>1 DEF q
    <3>3. q \in S /\ q <= m /\ q <= n
      BY <1>3, <3>2
    <3> QED
      BY <3>3 DEF q
  <2>3. /\ f[k] = IF k < Radix THEN <<k>> ELSE <<(k % Radix) + Radix>> \o f[k \div Radix]
        /\ g[k] = IF k < Radix THEN <<k>> ELSE <<(k % Radix) + Radix>> \o g[k \div Radix]
    BY <1>1, <1>2, <2>1, Zenon
  <2>4. CASE k < Radix
    BY <2>3, <2>4, Zenon
  <2>5. CASE ~(k < Radix)
    <3>1. f[k \div Radix] = g[k \div Radix]
      BY <1>0, <2>2, <2>5
    <3> QED
      BY <2>3, <2>5, <3>1, Zenon
  <2> QED
    BY <2>4, <2>5
<1>4. \A k \in Nat : k \in S
  <2> HIDE DEF S
  <2> QED
    BY <1>3, StrongInduction
<1> QED
  BY <1>4

\* The encoding that EncodeSize stands for.
LEMMA EncodeIsEncoding ==
  ASSUME NEW n \in Nat
  PROVE  \E f : IsEncoding(f, n) /\ EncodeSize(n) = f[n]
<1> DEFINE c == CHOOSE f : IsEncoding(f, n)
<1>1. EncodeSize(n) = c[n]
  BY Zenon DEF EncodeSize, IsEncoding
<1>2. IsEncoding(c, n)
  BY EncodingExists, Zenon
<1> QED
  BY <1>1, <1>2

\* encode_size, one byte at a time.
LEMMA EncodeStep ==
  ASSUME NEW n \in Nat
  PROVE  EncodeSize(n) = IF n < Radix THEN <<n>> ELSE <<(n % Radix) + Radix>> \o EncodeSize(n \div Radix)
<1>0. Radix \in Nat /\ Radix >= 2
  BY DecoderAssumption
<1>1. PICK f : IsEncoding(f, n) /\ EncodeSize(n) = f[n]
  BY EncodeIsEncoding
<1>2. f[n] = IF n < Radix THEN <<n>> ELSE <<(n % Radix) + Radix>> \o f[n \div Radix]
  <2>1. n \in 0 .. n
    OBVIOUS
  <2> QED
    BY <1>1, <2>1, Zenon DEF IsEncoding
<1>3. ASSUME n >= Radix PROVE f[n \div Radix] = EncodeSize(n \div Radix)
  <2> DEFINE q == n \div Radix
  <2>1. q \in Nat /\ q <= n
    BY <1>3, Dividing
  <2> HIDE DEF q
  <2>2. PICK g : IsEncoding(g, q) /\ EncodeSize(q) = g[q]
    BY <2>1, EncodeIsEncoding
  <2>3. f[q] = g[q]
    BY <1>1, <2>1, <2>2, EncodingsAgree
  <2> QED
    BY <2>2, <2>3 DEF q
<1>4. CASE n < Radix
  BY <1>1, <1>2, <1>4, Zenon
<1>5. CASE ~(n < Radix)
  <2>1. f[n \div Radix] = EncodeSize(n \div Radix)
    BY <1>0, <1>3, <1>5
  <2> QED
    BY <1>1, <1>2, <1>5, <2>1, Zenon
<1> QED
  BY <1>4, <1>5

IsNumber(v, s, k, m) ==
    v = [i \in 0 .. m |-> IF i = 0 THEN 0 ELSE (s[k + 1 - i] % Radix) + Radix * v[i - 1]]

\* There is a sum of the last m of k digits.
LEMMA NumberExists == ASSUME NEW s, NEW k PROVE \A m \in Nat : \E v : IsNumber(v, s, k, m)
<1> DEFINE S == {m \in Nat : \E v : IsNumber(v, s, k, m)}
           D(i) == s[k + 1 - i] % Radix
<1>0. \A v, m : IsNumber(v, s, k, m) <=> v = [i \in 0 .. m |-> IF i = 0 THEN 0 ELSE D(i) + Radix * v[i - 1]]
  BY DEF IsNumber
<1> HIDE DEF D
<1>1. 0 \in S
  <2> DEFINE g == [i \in {0} |-> 0]
  <2>1. g = [i \in 0 .. 0 |-> IF i = 0 THEN 0 ELSE D(i) + Radix * g[i - 1]]
    OBVIOUS
  <2> HIDE DEF g
  <2>2. IsNumber(g, s, k, 0)
    BY <1>0, <2>1, Zenon
  <2> QED
    BY <2>2
<1>2. ASSUME NEW m \in Nat, m \in S PROVE m + 1 \in S
  <2>1. PICK f : IsNumber(f, s, k, m)
    BY <1>2
  <2> DEFINE x == D(m + 1) + Radix * f[m]
             g == [i \in 0 .. m + 1 |-> IF i <= m THEN f[i] ELSE x]
  <2>2. f = [i \in 0 .. m |-> IF i = 0 THEN 0 ELSE D(i) + Radix * f[i - 1]]
    BY <1>0, <2>1, Zenon
  <2>3. ASSUME NEW i \in 0 .. m + 1 PROVE g[i] = IF i = 0 THEN 0 ELSE D(i) + Radix * g[i - 1]
    <3>1. CASE i = 0
      BY <2>2, <3>1
    <3>2. CASE i \in 1 .. m
      <4>1. i \in 0 .. m /\ i - 1 \in 0 .. m /\ g[i] = f[i] /\ g[i - 1] = f[i - 1] /\ i # 0
        BY <3>2
      <4>2. f[i] = IF i = 0 THEN 0 ELSE D(i) + Radix * f[i - 1]
        BY <2>2, <4>1
      <4> HIDE DEF g
      <4> QED
        BY <4>1, <4>2
    <3>3. CASE i = m + 1
      <4>1. i # 0 /\ i - 1 = m /\ g[m] = f[m] /\ g[i] = x
        BY <3>3
      <4> HIDE DEF g
      <4> QED
        BY <3>3, <4>1
    <3> QED
      BY <3>1, <3>2, <3>3
  <2>4. g = [i \in 0 .. m + 1 |-> g[i]]
    OBVIOUS
  <2> HIDE DEF g
  <2>5. g = [i \in 0 .. m + 1 |-> IF i = 0 THEN 0 ELSE D(i) + Radix * g[i - 1]]
    BY <2>3, <2>4
  <2>6. IsNumber(g, s, k, m + 1)
    BY <1>0, <2>5, Zenon
  <2> QED
    BY <2>6
<1>3. \A m \in Nat : m \in S
  <2> HIDE DEF S
  <2> QED
    BY <1>1, <1>2, SetInduction
<1> QED
  BY <1>3

\* What a sum is, digit by digit.
LEMMA NumberStep ==
  ASSUME NEW s, NEW k \in Nat, NEW m \in Nat, NEW v, IsNumber(v, s, k, m), NEW i \in 0 .. m - 1
  PROVE  v[0] = 0 /\ v[i + 1] = (s[k - i] % Radix) + Radix * v[i]
<1>1. i + 1 \in 0 .. m /\ 0 \in 0 .. m /\ i + 1 # 0 /\ (i + 1) - 1 = i /\ k + 1 - (i + 1) = k - i
  OBVIOUS
<1>2. v[i + 1] = IF i + 1 = 0 THEN 0 ELSE (s[k + 1 - (i + 1)] % Radix) + Radix * v[(i + 1) - 1]
  BY <1>1, Zenon DEF IsNumber
<1>3. v[0] = IF 0 = 0 THEN 0 ELSE (s[k + 1 - 0] % Radix) + Radix * v[0 - 1]
  BY <1>1, Zenon DEF IsNumber
<1>4. v[i + 1] = (s[k + 1 - (i + 1)] % Radix) + Radix * v[(i + 1) - 1]
  BY <1>1, <1>2, Zenon
<1> QED
  BY <1>1, <1>3, <1>4

\* The last j of the first k digits of s are those of the first l of t.
SameDigits(s, k, t, l, j) == \A i \in 0 .. j - 1 : s[k - i] = t[l - i]

\* Sums of the same digits agree.
LEMMA NumbersAgree ==
  ASSUME NEW s, NEW k \in Nat, NEW m \in Nat, NEW v, IsNumber(v, s, k, m),
         NEW t, NEW l \in Nat, NEW n \in Nat, NEW w, IsNumber(w, t, l, n),
         NEW j \in Nat, j <= m, j <= n, SameDigits(s, k, t, l, j)
  PROVE  v[j] = w[j]
<1> DEFINE S == {i \in Nat : i <= j => v[i] = w[i]}
<1>1. 0 \in S
  <2>1. 0 \in 0 .. m /\ 0 \in 0 .. n
    OBVIOUS
  <2>2. v[0] = IF 0 = 0 THEN 0 ELSE (s[k + 1 - 0] % Radix) + Radix * v[0 - 1]
    BY <2>1, Zenon DEF IsNumber
  <2>3. w[0] = IF 0 = 0 THEN 0 ELSE (t[l + 1 - 0] % Radix) + Radix * w[0 - 1]
    BY <2>1, Zenon DEF IsNumber
  <2> QED
    BY <2>2, <2>3
<1>2. ASSUME NEW i \in Nat, i \in S PROVE i + 1 \in S
  <2> SUFFICES ASSUME i + 1 <= j PROVE v[i + 1] = w[i + 1]
    OBVIOUS
  <2>1. i \in 0 .. m - 1 /\ i \in 0 .. n - 1 /\ v[i] = w[i] /\ s[k - i] = t[l - i]
    BY <1>2 DEF SameDigits
  <2>2. v[i + 1] = (s[k - i] % Radix) + Radix * v[i]
    BY <2>1, NumberStep
  <2>3. w[i + 1] = (t[l - i] % Radix) + Radix * w[i]
    BY <2>1, NumberStep
  <2> QED
    BY <2>1, <2>2, <2>3, Zenon
<1>3. \A i \in Nat : i \in S
  <2> HIDE DEF S
  <2> QED
    BY <1>1, <1>2, SetInduction
<1> QED
  BY <1>3

\* The sum that Number stands for.
LEMMA NumberIsNumber ==
  ASSUME NEW s, NEW k \in Nat
  PROVE  \E v : IsNumber(v, s, k, k) /\ Number(s, k) = v[k]
<1> DEFINE c == CHOOSE v : IsNumber(v, s, k, k)
<1>1. Number(s, k) = c[k]
  BY Zenon DEF Number, IsNumber
<1>2. IsNumber(c, s, k, k)
  BY NumberExists, Zenon
<1> QED
  BY <1>1, <1>2

\* Only the first k digits count.
LEMMA NumberSame ==
  ASSUME NEW s, NEW t, NEW k \in Nat, \A i \in 1 .. k : s[i] = t[i]
  PROVE  Number(s, k) = Number(t, k)
<1>1. PICK v : IsNumber(v, s, k, k) /\ Number(s, k) = v[k]
  BY NumberIsNumber
<1>2. PICK w : IsNumber(w, t, k, k) /\ Number(t, k) = w[k]
  BY NumberIsNumber
<1>3. SameDigits(s, k, t, k, k)
  BY DEF SameDigits
<1>4. v[k] = w[k]
  BY <1>1, <1>2, <1>3, NumbersAgree
<1> QED
  BY <1>1, <1>2, <1>4

\* A digit more, in front.
LEMMA NumberStart ==
  ASSUME NEW s, NEW t, NEW k \in Nat, \A i \in 1 .. k : t[i + 1] = s[i]
  PROVE  Number(s, 0) = 0 /\ Number(t, k + 1) = (t[1] % Radix) + Radix * Number(s, k)
<1>1. PICK v : IsNumber(v, s, k, k) /\ Number(s, k) = v[k]
  BY NumberIsNumber
<1>2. PICK w : IsNumber(w, t, k + 1, k + 1) /\ Number(t, k + 1) = w[k + 1]
  <2>1. k + 1 \in Nat
    OBVIOUS
  <2> QED
    BY <2>1, NumberIsNumber
<1>3. v[k] = w[k]
  <2> DEFINE l == k + 1
  <2>1. /\ l \in Nat /\ IsNumber(w, t, l, l) /\ k <= l /\ SameDigits(s, k, t, l, k)
    <3>1. ASSUME NEW i \in 0 .. k - 1 PROVE s[k - i] = t[l - i]
      <4>1. k - i \in 1 .. k /\ (k - i) + 1 = l - i
        OBVIOUS
      <4>2. t[(k - i) + 1] = s[k - i]
        BY <4>1
      <4> QED
        BY <4>1, <4>2
    <3> QED
      BY <1>2, <3>1 DEF SameDigits
  <2> HIDE DEF l
  <2>2. IsNumber(v, s, k, k) /\ k <= k
    BY <1>1
  <2> QED
    BY <2>1, <2>2, NumbersAgree, SMTT(30)
<1>4. w[k + 1] = (t[1] % Radix) + Radix * w[k]
  <2> DEFINE l == k + 1
  <2>1. l \in Nat /\ k \in 0 .. l - 1 /\ IsNumber(w, t, l, l) /\ l - k = 1
    BY <1>2
  <2> HIDE DEF l
  <2>2. w[k + 1] = (t[l - k] % Radix) + Radix * w[k]
    BY <2>1, NumberStep
  <2> QED
    BY <2>1, <2>2
<1>5. Number(s, 0) = 0
  <2>1. PICK u : IsNumber(u, s, 0, 0) /\ Number(s, 0) = u[0]
    BY NumberIsNumber
  <2>2. u[0] = IF 0 = 0 THEN 0 ELSE (s[0 + 1 - 0] % Radix) + Radix * u[0 - 1]
    <3>1. 0 \in 0 .. 0
      OBVIOUS
    <3> QED
      BY <2>1, <3>1, Zenon DEF IsNumber
  <2> QED
    BY <2>1, <2>2
<1> QED
  BY <1>1, <1>2, <1>3, <1>4, <1>5, Zenon

\* A number is a number.
LEMMA NumberType ==
  ASSUME NEW s, NEW k \in Nat, \A i \in 1 .. k : s[i] \in Nat
  PROVE  Number(s, k) \in Nat
<1>1. PICK v : IsNumber(v, s, k, k) /\ Number(s, k) = v[k]
  BY NumberIsNumber
<1> DEFINE S == {i \in Nat : i <= k => v[i] \in Nat}
<1>0. Radix \in Nat /\ Radix >= 2
  BY DecoderAssumption
<1>2. 0 \in S
  <2>1. v[0] = IF 0 = 0 THEN 0 ELSE (s[k + 1 - 0] % Radix) + Radix * v[0 - 1]
    <3>1. 0 \in 0 .. k
      OBVIOUS
    <3> QED
      BY <1>1, <3>1, Zenon DEF IsNumber
  <2> QED
    BY <2>1
<1>3. ASSUME NEW i \in Nat, i \in S PROVE i + 1 \in S
  <2> SUFFICES ASSUME i + 1 <= k PROVE v[i + 1] \in Nat
    OBVIOUS
  <2>1. i \in 0 .. k - 1 /\ v[i] \in Nat /\ s[k - i] \in Nat
    BY <1>3
  <2>2. v[i + 1] = (s[k - i] % Radix) + Radix * v[i]
    BY <1>1, <2>1, NumberStep
  <2>3. s[k - i] % Radix \in Nat
    BY <2>1, Dividing
  <2>4. Radix * v[i] \in Nat
    BY <1>0, <2>1
  <2> QED
    BY <2>2, <2>3, <2>4
<1>4. \A i \in Nat : i \in S
  <2> HIDE DEF S
  <2> QED
    BY <1>2, <1>3, SetInduction
<1> QED
  BY <1>1, <1>4

\* The header e tells the size n: every byte but the last says that another follows, and
\* only a size that does not fit into one byte has more than one.
IsHeader(e, n) ==
    /\ e \in Seq(Nat) /\ Len(e) >= 1 /\ e[Len(e)] < Radix
    /\ \A i \in 1 .. Len(e) - 1 : e[i] >= Radix
    /\ Len(e) >= 2 => n >= Radix
    /\ Number(e, Len(e)) = n

LEMMA ModLess ==
  ASSUME NEW a \in Nat, NEW b \in Nat, a < b
  PROVE  a % b = a
OBVIOUS

LEMMA ModRadix ==
  ASSUME NEW r \in 0 .. Radix - 1
  PROVE  r % Radix = r /\ (r + Radix) % Radix = r
<1>1. Radix \in Nat /\ Radix >= 2 /\ r \in Nat
  BY DecoderAssumption
<1> QED
  BY <1>1

\* The header that encode_size makes.
LEMMA HeaderOfSize == \A n \in Nat : IsHeader(EncodeSize(n), n)
<1> DEFINE S == {n \in Nat : IsHeader(EncodeSize(n), n)}
<1>0. Radix \in Nat /\ Radix >= 2
  BY DecoderAssumption
<1>1. ASSUME NEW n \in Nat, \A k \in 0 .. n - 1 : k \in S PROVE IsHeader(EncodeSize(n), n)
  <2>1. CASE n < Radix
    <3> DEFINE e == <<n>>
    <3>1. EncodeSize(n) = e
      BY <2>1, EncodeStep
    <3>2. e \in Seq(Nat) /\ Len(e) = 1 /\ e[1] = n
      OBVIOUS
    <3> HIDE DEF e
    <3>3. Number(e, 0 + 1) = (e[1] % Radix) + Radix * Number(<<>>, 0) /\ Number(<<>>, 0) = 0
      BY NumberStart
    <3>4. Number(e, 1) = n
      <4>1. n % Radix = n
        BY <1>0, <2>1, ModRadix
      <4>2. Number(e, 0 + 1) = n + Radix * 0
        BY <3>2, <3>3, <4>1
      <4> QED
        BY <1>0, <4>2
    <3> QED
      BY <2>1, <3>1, <3>2, <3>4 DEF IsHeader
  <2>2. CASE n >= Radix
    <3> DEFINE q == n \div Radix
               d == (n % Radix) + Radix
               s == EncodeSize(q)
               x == <<d>>
               e == x \o s
               k == Len(s)
    <3>1. q \in 0 .. n - 1 /\ q \in Nat /\ n % Radix \in 0 .. Radix - 1 /\ n = Radix * q + (n % Radix)
      BY <2>2, Dividing
    <3>2. d \in Nat /\ d >= Radix /\ d % Radix = n % Radix
      BY <1>0, <3>1, ModRadix
    <3>3. EncodeSize(n) = e
      <4>1. ~(n < Radix)
        BY <1>0, <2>2
      <4>2. EncodeSize(n) = IF n < Radix THEN <<n>> ELSE <<(n % Radix) + Radix>> \o EncodeSize(n \div Radix)
        BY EncodeStep, Zenon
      <4> QED
        BY <4>1, <4>2, Zenon
    <3>4. IsHeader(s, q)
      BY <1>1, <3>1
    <3> HIDE DEF q, d, s
    <3>5. s \in Seq(Nat) /\ k \in Nat /\ k >= 1
      <4>1. s \in Seq(Nat) /\ Len(s) >= 1
        BY <3>4 DEF IsHeader
      <4> QED
        BY <4>1, LenProperties
    <3>6. x \in Seq(Nat) /\ Len(x) = 1 /\ x[1] = d
      BY <3>2
    <3> HIDE DEF x
    <3>7. /\ e \in Seq(Nat) /\ Len(e) = k + 1 /\ e[1] = d /\ \A i \in 1 .. k : e[i + 1] = s[i]
      <4>1. /\ e \in Seq(Nat) /\ Len(e) = Len(x) + Len(s)
            /\ \A i \in 1 .. Len(x) + Len(s) : e[i] = IF i <= Len(x) THEN x[i] ELSE s[i - Len(x)]
        BY <3>5, <3>6, ConcatProperties
      <4> HIDE DEF e
      <4>2. Len(e) = k + 1 /\ 1 \in 1 .. Len(x) + Len(s)
        BY <3>5, <3>6, <4>1
      <4>3. e[1] = d
        BY <3>6, <4>1, <4>2
      <4>4. ASSUME NEW i \in 1 .. k PROVE e[i + 1] = s[i]
        <5>1. i + 1 \in 1 .. Len(x) + Len(s) /\ ~(i + 1 <= Len(x)) /\ (i + 1) - Len(x) = i
          BY <3>5, <3>6
        <5> QED
          BY <4>1, <5>1
      <4> QED
        BY <4>1, <4>2, <4>3, <4>4
    <3> HIDE DEF e, k
    <3>8. Number(e, k + 1) = n
      <4>1. Number(e, k + 1) = (e[1] % Radix) + Radix * Number(s, k)
        BY <3>5, <3>7, NumberStart
      <4>2. Number(s, k) = q
        BY <3>4 DEF IsHeader, k
      <4>3. Number(e, k + 1) = (n % Radix) + Radix * q
        BY <3>2, <3>7, <4>1, <4>2
      <4>4. Radix * q \in Nat /\ n % Radix \in Nat
        BY <1>0, <3>1
      <4> QED
        BY <3>1, <4>3, <4>4
    <3>9. e[k + 1] < Radix /\ \A i \in 1 .. k : e[i] >= Radix
      <4>1. s[k] < Radix /\ \A i \in 1 .. k - 1 : s[i] >= Radix
        BY <3>4 DEF IsHeader, k
      <4>2. e[k + 1] = s[k]
        <5>1. k \in 1 .. k
          BY <3>5
        <5> QED
          BY <3>7, <5>1, Zenon
      <4>3. ASSUME NEW i \in 1 .. k PROVE e[i] >= Radix
        <5>1. CASE i = 1
          BY <3>2, <3>7, <5>1
        <5>2. CASE i # 1
          <6>1. i - 1 \in 1 .. k - 1 /\ i - 1 \in 1 .. k /\ (i - 1) + 1 = i
            BY <3>5, <5>2
          <6>2. e[(i - 1) + 1] = s[i - 1]
            BY <3>7, <6>1
          <6> QED
            BY <4>1, <6>1, <6>2
        <5> QED
          BY <5>1, <5>2
      <4> QED
        BY <4>1, <4>2, <4>3
    <3>10. Len(e) = k + 1 /\ Len(e) - 1 = k /\ Len(e) >= 1
      BY <3>5, <3>7
    <3>11. IsHeader(e, n)
      BY <2>2, <3>7, <3>8, <3>9, <3>10 DEF IsHeader
    <3> QED
      BY <3>3, <3>11
  <2> QED
    BY <1>0, <2>1, <2>2
<1>2. \A n \in Nat : n \in S
  <2>1. \A n \in Nat : (\A k \in 0 .. n - 1 : k \in S) => n \in S
    BY <1>1
  <2> HIDE DEF S
  <2> QED
    BY <2>1, StrongInduction
<1> QED
  BY <1>2

\* decode_size of what starts with a header.
LEMMA DecodeHeader ==
  ASSUME NEW n \in Nat, n < Usize, NEW e, IsHeader(e, n), Len(e) <= MaxEncodedSize,
         NEW data \in Seq(Nat), Len(e) <= Len(data), \A i \in 1 .. Len(e) : data[i] = e[i]
  PROVE  DecodeSize(data) = [size |-> n, used |-> Len(e)]
<1> DEFINE last == {i \in 1 .. Least(Len(data), MaxEncodedSize) : data[i] < Radix}
           used == CHOOSE i \in last : \A j \in last : i <= j
           k == Len(e)
<1>1. /\ e \in Seq(Nat) /\ k \in Nat /\ k >= 1 /\ e[k] < Radix /\ (\A i \in 1 .. k - 1 : e[i] >= Radix)
      /\ Number(e, k) = n /\ Len(data) \in Nat /\ MaxEncodedSize \in Nat /\ Usize \in Nat /\ Radix \in Nat
  <2>1. e \in Seq(Nat)
    BY DEF IsHeader
  <2> QED
    BY <2>1, LenProperties, DecoderAssumption DEF IsHeader
<1> HIDE DEF k
<1>2. k <= Len(data) /\ k <= MaxEncodedSize /\ \A i \in 1 .. k : data[i] = e[i]
  BY DEF k
<1>3. k \in last
  <2>1. k \in 1 .. Least(Len(data), MaxEncodedSize)
    BY <1>1, <1>2 DEF Least
  <2> QED
    BY <1>1, <1>2, <2>1
<1>4. \A j \in last : j \in Nat /\ k <= j
  <2> SUFFICES ASSUME NEW j \in last PROVE j \in Nat /\ k <= j
    OBVIOUS
  <2>1. j \in Nat /\ j >= 1 /\ data[j] < Radix
    BY <1>1 DEF Least
  <2>2. ASSUME j < k PROVE FALSE
    <3>1. j \in 1 .. k - 1 /\ j \in 1 .. k
      BY <1>1, <2>1, <2>2
    <3>2. data[j] = e[j] /\ e[j] >= Radix /\ e[j] \in Nat
      BY <1>1, <1>2, <3>1, ElementOfSeq DEF k
    <3> QED
      BY <1>1, <2>1, <3>2
  <2> QED
    BY <1>1, <2>1, <2>2
<1> HIDE DEF last
<1>5. used = k
  <2>1. used \in last /\ \A j \in last : used <= j
    BY <1>3, <1>4
  <2> HIDE DEF used
  <2> QED
    BY <1>1, <1>3, <1>4, <2>1
<1>6. DecodeSize(data) = [size |-> Number(data, k) % Usize, used |-> k]
  <2>1. last # {}
    BY <1>3
  <2> QED
    BY <1>5, <2>1 DEF DecodeSize, last
<1>7. Number(data, k) = n
  BY <1>1, <1>2, NumberSame
<1>8. n % Usize = n
  BY <1>1, ModLess
<1> QED
  BY <1>6, <1>7, <1>8 DEF k

\* decode_size of a header of which bytes are missing.
LEMMA DecodePart ==
  ASSUME NEW n \in Nat, NEW e, IsHeader(e, n), NEW data \in Seq(Nat),
         Len(data) < Len(e), \A i \in 1 .. Len(data) : data[i] = e[i]
  PROVE  DecodeSize(data).used = 0
<1> DEFINE last == {i \in 1 .. Least(Len(data), MaxEncodedSize) : data[i] < Radix}
<1>1. /\ e \in Seq(Nat) /\ Len(e) \in Nat /\ (\A i \in 1 .. Len(e) - 1 : e[i] >= Radix)
      /\ Len(data) \in Nat /\ MaxEncodedSize \in Nat /\ Radix \in Nat
  <2>1. e \in Seq(Nat)
    BY DEF IsHeader
  <2> QED
    BY <2>1, LenProperties, DecoderAssumption DEF IsHeader
<1>2. last = {}
  <2> SUFFICES ASSUME NEW j \in last PROVE FALSE
    OBVIOUS
  <2>1. j \in 1 .. Len(data) /\ data[j] < Radix
    BY <1>1 DEF Least
  <2>2. j \in 1 .. Len(e) - 1 /\ data[j] = e[j] /\ j \in 1 .. Len(e)
    BY <1>1, <2>1
  <2>3. e[j] >= Radix /\ e[j] \in Nat
    BY <1>1, <2>2, ElementOfSeq
  <2>4. e[j] < Radix
    BY <2>1, <2>2, Zenon
  <2> DEFINE y == e[j]
  <2>5. y \in Nat /\ y >= Radix /\ y < Radix
    BY <2>3, <2>4, Zenon
  <2> HIDE DEF y
  <2> QED
    BY <1>1, <2>5
<1> QED
  BY <1>2 DEF DecodeSize

\* decode_size of anything.
LEMMA DecodeType ==
  ASSUME NEW data \in Seq(Nat)
  PROVE  DecodeSize(data).size \in Nat /\ DecodeSize(data).used \in 0 .. Len(data)
<1> DEFINE last == {i \in 1 .. Least(Len(data), MaxEncodedSize) : data[i] < Radix}
           used == CHOOSE i \in last : \A j \in last : i <= j
<1>1. Len(data) \in Nat /\ MaxEncodedSize \in Nat /\ Usize \in Nat /\ Usize > 0
  BY LenProperties, DecoderAssumption
<1>2. CASE last = {}
  <2>1. DecodeSize(data) = [size |-> 0, used |-> 0]
    BY <1>2 DEF DecodeSize
  <2> QED
    BY <1>1, <2>1
<1>3. CASE last # {}
  <2>1. last \subseteq Nat /\ \A i \in last : i \in 1 .. Len(data)
    BY <1>1 DEF Least
  <2>2. \E i \in last : \A j \in last : i <= j
    <3> HIDE DEF last
    <3> QED
      BY <1>3, <2>1, LeastNatural
  <2>3. used \in 1 .. Len(data)
    <3> HIDE DEF last
    <3> QED
      BY <2>1, <2>2
  <2>4. DecodeSize(data) = [size |-> Number(data, used) % Usize, used |-> used]
    BY <1>3 DEF DecodeSize
  <2> HIDE DEF used
  <2>5. Number(data, used) \in Nat
    <3>1. used \in Nat /\ \A i \in 1 .. used : data[i] \in Nat
      BY <1>1, <2>3, ElementOfSeq
    <3> QED
      BY <3>1, NumberType
  <2>6. Number(data, used) % Usize \in Nat
    BY <1>1, <2>5
  <2> QED
    BY <1>1, <2>3, <2>4, <2>6
<1> QED
  BY <1>2, <1>3


-----------------------------------------------------------------------------
(* Concatenations.                                                         *)

\* What is known of two sequences and their concatenation.
Joins(T, a, b) ==
    /\ a \o b \in Seq(T) /\ Len(a) \in Nat /\ Len(b) \in Nat /\ Len(a \o b) = Len(a) + Len(b)
    /\ \A i \in 1 .. Len(a) : (a \o b)[i] = a[i]
    /\ \A i \in 1 .. Len(b) : (a \o b)[Len(a) + i] = b[i]

Associates(T, a, b, c) == (a \o b) \o c = a \o (b \o c)

\* A concatenation, by its elements.
LEMMA Joining ==
  ASSUME NEW T, NEW a \in Seq(T), NEW b \in Seq(T)
  PROVE  Joins(T, a, b)
<1>1. /\ a \o b \in Seq(T) /\ Len(a \o b) = Len(a) + Len(b) /\ Len(a) \in Nat /\ Len(b) \in Nat
      /\ \A i \in 1 .. Len(a) + Len(b) : (a \o b)[i] = IF i <= Len(a) THEN a[i] ELSE b[i - Len(a)]
  BY ConcatProperties, LenProperties
<1> DEFINE l == Len(a)
           k == Len(b)
           c == a \o b
<1>2. l \in Nat /\ k \in Nat /\ \A i \in 1 .. l + k : c[i] = IF i <= l THEN a[i] ELSE b[i - l]
  BY <1>1
<1> HIDE DEF l, k, c
<1>3. ASSUME NEW i \in 1 .. l PROVE c[i] = a[i]
  BY <1>2
<1>4. ASSUME NEW i \in 1 .. k PROVE c[l + i] = b[i]
  <2>1. l + i \in 1 .. l + k /\ ~(l + i <= l) /\ (l + i) - l = i
    BY <1>2
  <2>2. c[l + i] = b[(l + i) - l]
    BY <1>2, <2>1
  <2> QED
    BY <2>1, <2>2
<1> QED
  BY <1>1, <1>3, <1>4 DEF l, k, c, Joins

LEMMA Associating ==
  ASSUME NEW T, NEW a \in Seq(T), NEW b \in Seq(T), NEW c \in Seq(T)
  PROVE  Associates(T, a, b, c)
BY ConcatAssociative DEF Associates

SameParts(T, a, b, c, d) == a \o b = c \o d /\ Len(a) = Len(c) => a = c /\ b = d

\* Two ways to cut a sequence at the same place are the same.
LEMMA SameCut ==
  ASSUME NEW T, NEW a \in Seq(T), NEW b \in Seq(T), NEW c \in Seq(T), NEW d \in Seq(T)
  PROVE  SameParts(T, a, b, c, d)
<1>0. SUFFICES ASSUME a \o b = c \o d, Len(a) = Len(c) PROVE a = c /\ b = d
  BY DEF SameParts
<1>7. Joins(T, a, b) /\ Joins(T, c, d)
  BY Joining
<1>1. /\ Len(a) \in Nat /\ Len(b) \in Nat /\ Len(a \o b) = Len(a) + Len(b)
      /\ \A i \in 1 .. Len(a) : (a \o b)[i] = a[i]
      /\ \A i \in 1 .. Len(b) : (a \o b)[Len(a) + i] = b[i]
  BY <1>7 DEF Joins
<1>2. /\ Len(c) \in Nat /\ Len(d) \in Nat /\ Len(c \o d) = Len(c) + Len(d)
      /\ \A i \in 1 .. Len(c) : (c \o d)[i] = c[i]
      /\ \A i \in 1 .. Len(d) : (c \o d)[Len(c) + i] = d[i]
  BY <1>7 DEF Joins
<1>3. Len(b) = Len(d)
  BY <1>0, <1>1, <1>2
<1>4. \A i \in 1 .. Len(a) : a[i] = c[i]
  BY <1>0, <1>1, <1>2
<1>5. \A i \in 1 .. Len(b) : b[i] = d[i]
  BY <1>0, <1>1, <1>2, <1>3
<1> QED
  BY <1>0, <1>3, <1>4, <1>5, SeqEqual

CutsAt(T, s, k) ==
    /\ SubSeq(s, 1, k) \in Seq(T) /\ From(s, k + 1) \in Seq(T)
    /\ Len(SubSeq(s, 1, k)) = k /\ Len(From(s, k + 1)) = Len(s) - k
    /\ s = SubSeq(s, 1, k) \o From(s, k + 1)

\* A sequence can be cut anywhere.
LEMMA Cutting ==
  ASSUME NEW T, NEW s \in Seq(T), NEW k \in 0 .. Len(s)
  PROVE  CutsAt(T, s, k)
<1> DEFINE n == Len(s)
           a == SubSeq(s, 1, k)
           b == SubSeq(s, k + 1, n)
<1>1. n \in Nat /\ k \in Nat /\ k <= n
  BY LenProperties
<1>2. a \in Seq(T) /\ Len(a) = k /\ \A i \in 1 .. k : a[i] = s[i]
  <2>1. 1 \in Int /\ k \in Int /\ \A i \in 1 .. k : s[i] \in T
    BY <1>1, ElementOfSeq
  <2>2. /\ a \in Seq(T) /\ Len(a) = IF 1 <= k THEN k - 1 + 1 ELSE 0
        /\ \A i \in 1 .. k - 1 + 1 : a[i] = s[1 + i - 1]
    BY <2>1, SubSeqProperties
  <2> HIDE DEF a
  <2> QED
    BY <1>1, <2>2
<1>3. b \in Seq(T) /\ Len(b) = n - k /\ \A i \in 1 .. n - k : b[i] = s[k + i]
  <2>1. k + 1 \in Int /\ n \in Int /\ \A i \in k + 1 .. n : s[i] \in T
    BY <1>1, ElementOfSeq
  <2>2. /\ b \in Seq(T) /\ Len(b) = IF k + 1 <= n THEN n - (k + 1) + 1 ELSE 0
        /\ \A i \in 1 .. n - (k + 1) + 1 : b[i] = s[(k + 1) + i - 1]
    BY <2>1, SubSeqProperties
  <2> HIDE DEF a, b, n
  <2>3. Len(b) = n - k
    BY <1>1, <2>2
  <2>4. ASSUME NEW i \in 1 .. n - k PROVE b[i] = s[k + i]
    <3>1. i \in 1 .. n - (k + 1) + 1 /\ (k + 1) + i - 1 = k + i
      BY <1>1
    <3> QED
      BY <2>2, <3>1
  <2> QED
    BY <2>2, <2>3, <2>4
<1>4. s = a \o b
  <2> HIDE DEF a, b
  <2>1. /\ a \o b \in Seq(T) /\ Len(a \o b) = Len(a) + Len(b)
        /\ \A i \in 1 .. Len(a) : (a \o b)[i] = a[i]
        /\ \A i \in 1 .. Len(b) : (a \o b)[Len(a) + i] = b[i]
    <3>1. Joins(T, a, b)
      BY <1>2, <1>3, Joining
    <3> QED
      BY <3>1 DEF Joins
  <2>2. Len(a \o b) = Len(s)
    BY <1>1, <1>2, <1>3, <2>1
  <2>3. ASSUME NEW i \in 1 .. Len(s) PROVE s[i] = (a \o b)[i]
    <3>1. CASE i <= k
      <4>1. i \in 1 .. k /\ i \in 1 .. Len(a)
        BY <1>2, <3>1
      <4> QED
        BY <1>2, <2>1, <4>1
    <3>2. CASE i > k
      <4>1. i - k \in 1 .. n - k /\ i - k \in 1 .. Len(b) /\ k + (i - k) = i /\ Len(a) + (i - k) = i
        BY <1>1, <1>2, <1>3, <3>2
      <4>2. s[k + (i - k)] = b[i - k] /\ (a \o b)[Len(a) + (i - k)] = b[i - k]
        BY <1>3, <2>1, <4>1
      <4> QED
        BY <4>1, <4>2
    <3>3. i <= k \/ i > k
      BY <1>1
    <3> QED
      BY <3>1, <3>2, <3>3
  <2> QED
    BY <2>1, <2>2, <2>3, SeqEqual
<1> QED
  BY <1>2, <1>3, <1>4 DEF From, CutsAt

CutBefore(T, a, b, c, d) ==
    a \o b = c \o d /\ Len(a) <= Len(c) => \E z \in Seq(T) : c = a \o z /\ b = z \o d

\* Of two ways to cut a sequence, one is before the other.
LEMMA TwoCuts ==
  ASSUME NEW T, NEW a \in Seq(T), NEW b \in Seq(T), NEW c \in Seq(T), NEW d \in Seq(T)
  PROVE  CutBefore(T, a, b, c, d)
<1>0. SUFFICES ASSUME a \o b = c \o d, Len(a) <= Len(c)
               PROVE  \E z \in Seq(T) : c = a \o z /\ b = z \o d
  BY DEF CutBefore
<1> DEFINE k == Len(a)
           p == SubSeq(c, 1, k)
           z == From(c, k + 1)
<1>1. k \in 0 .. Len(c)
  BY <1>0, LenProperties
<1>2. p \in Seq(T) /\ z \in Seq(T) /\ Len(p) = Len(a) /\ c = p \o z
  <2> HIDE DEF k
  <2>1. CutsAt(T, c, k)
    BY <1>1, Cutting
  <2> QED
    BY <2>1 DEF k, CutsAt
<1> HIDE DEF p, z
<1>3. a \o b = p \o (z \o d) /\ z \o d \in Seq(T)
  <2>1. Associates(T, p, z, d) /\ Joins(T, z, d)
    BY <1>2, Associating, Joining
  <2> QED
    BY <1>0, <1>2, <2>1, Zenon DEF Associates, Joins
<1>4. SameParts(T, a, b, p, z \o d)
  BY <1>2, <1>3, SameCut
<1>5. a = p /\ b = z \o d
  BY <1>2, <1>3, <1>4, Zenon DEF SameParts
<1> QED
  BY <1>2, <1>5

-----------------------------------------------------------------------------
(* try_decode of any data.                                                 *)

\* The last i bytes of the data.
Remaining(data, i) == From(data, Len(data) - i + 1)

\* What is decoded of s, of length i, when f tells what is decoded of less.
DecodeAt(f, s, i) ==
    LET h == DecodeSize(s)
        more == f[i - h.used - h.size]
    IN  IF h.used > 0 /\ i - h.used >= h.size
        THEN [stored |-> more.stored, out |-> <<SubSeq(s, h.used + 1, h.used + h.size)>> \o more.out]
        ELSE [stored |-> s, out |-> <<>>]

IsDecoding(f, data, n) == f = [i \in 0 .. n |-> DecodeAt(f, Remaining(data, i), i)]

LEMMA RemainingType ==
  ASSUME NEW data \in Seq(Nat), NEW i \in 0 .. Len(data)
  PROVE  Remaining(data, i) \in Seq(Nat) /\ Len(Remaining(data, i)) = i
<1> DEFINE k == Len(data) - i
<1>1. k \in 0 .. Len(data) /\ Len(data) \in Nat /\ i = Len(data) - k
  BY LenProperties
<1>2. Remaining(data, i) = From(data, k + 1)
  BY DEF Remaining
<1> HIDE DEF k
<1>3. CutsAt(Nat, data, k)
  BY <1>1, Cutting
<1> QED
  BY <1>1, <1>2, <1>3 DEF CutsAt

\* Two functions agree on the numbers below i.
AgreeBelow(f, g, i) == \A j \in 0 .. i - 1 : f[j] = g[j]

\* Only what is decoded of less counts.
LEMMA DecodeAtSame ==
  ASSUME NEW f, NEW g, NEW s \in Seq(Nat), NEW i \in Nat, Len(s) = i, AgreeBelow(f, g, i)
  PROVE  DecodeAt(f, s, i) = DecodeAt(g, s, i)
<1> DEFINE u == DecodeSize(s).used
           z == DecodeSize(s).size
           j == i - u - z
<1>1. z \in Nat /\ u \in 0 .. i
  BY DecodeType
<1> HIDE DEF u, z
<1>2. CASE u > 0 /\ i - u >= z
  <2>1. j \in 0 .. i - 1
    BY <1>1, <1>2
  <2>2. f[j] = g[j]
    <3> HIDE DEF j
    <3> QED
      BY <2>1, Zenon DEF AgreeBelow
  <2> QED
    BY <2>2, Zenon DEF DecodeAt, u, z
<1>3. CASE ~(u > 0 /\ i - u >= z)
  BY <1>3, Zenon DEF DecodeAt, u, z
<1> QED
  BY <1>2, <1>3

\* There is a decoding.
LEMMA DecodingExists ==
  ASSUME NEW data \in Seq(Nat)
  PROVE  \A n \in Nat : n <= Len(data) => \E f : IsDecoding(f, data, n)
<1> DEFINE S == {n \in Nat : n <= Len(data) => \E f : IsDecoding(f, data, n)}
<1>0. Len(data) \in Nat
  BY LenProperties
<1>1. 0 \in S
  <2> DEFINE g == [i \in 0 .. 0 |-> DecodeAt(<<>>, Remaining(data, i), i)]
  <2>1. ASSUME NEW i \in 0 .. 0 PROVE g[i] = DecodeAt(g, Remaining(data, i), i)
    <3>1. i \in Nat /\ i \in 0 .. Len(data) /\ AgreeBelow(<<>>, g, i)
      BY <1>0 DEF AgreeBelow
    <3>2. g[i] = DecodeAt(<<>>, Remaining(data, i), i)
      OBVIOUS
    <3> HIDE DEF g
    <3>3. Remaining(data, i) \in Seq(Nat) /\ Len(Remaining(data, i)) = i
      BY <3>1, RemainingType
    <3>4. DecodeAt(<<>>, Remaining(data, i), i) = DecodeAt(g, Remaining(data, i), i)
      BY <3>1, <3>3, DecodeAtSame, Zenon
    <3> QED
      BY <3>2, <3>4
  <2>2. g = [i \in 0 .. 0 |-> g[i]]
    OBVIOUS
  <2> HIDE DEF g
  <2>3. IsDecoding(g, data, 0)
    BY <2>1, <2>2 DEF IsDecoding
  <2> QED
    BY <2>3
<1>2. ASSUME NEW n \in Nat, n \in S PROVE n + 1 \in S
  <2> SUFFICES ASSUME n + 1 <= Len(data) PROVE \E f : IsDecoding(f, data, n + 1)
    OBVIOUS
  <2>1. PICK f : IsDecoding(f, data, n)
    BY <1>0, <1>2
  <2> DEFINE g == [i \in 0 .. n + 1 |-> IF i <= n THEN f[i] ELSE DecodeAt(f, Remaining(data, i), i)]
  <2>2. ASSUME NEW i \in 0 .. n PROVE f[i] = DecodeAt(f, Remaining(data, i), i)
    BY <2>1, Zenon DEF IsDecoding
  <2>3. ASSUME NEW i \in 0 .. n + 1 PROVE g[i] = DecodeAt(g, Remaining(data, i), i)
    <3>1. g[i] = DecodeAt(f, Remaining(data, i), i)
      <4>1. CASE i <= n
        BY <2>2, <4>1
      <4>2. CASE ~(i <= n)
        BY <4>2
      <4> QED
        BY <4>1, <4>2
    <3>2. i \in Nat /\ i \in 0 .. Len(data) /\ AgreeBelow(f, g, i)
      BY <1>0 DEF AgreeBelow
    <3> HIDE DEF g
    <3>3. Remaining(data, i) \in Seq(Nat) /\ Len(Remaining(data, i)) = i
      BY <3>2, RemainingType
    <3>4. DecodeAt(f, Remaining(data, i), i) = DecodeAt(g, Remaining(data, i), i)
      BY <3>2, <3>3, DecodeAtSame, Zenon
    <3> QED
      BY <3>1, <3>4
  <2>4. g = [i \in 0 .. n + 1 |-> g[i]]
    OBVIOUS
  <2> HIDE DEF g
  <2>5. IsDecoding(g, data, n + 1)
    BY <2>3, <2>4 DEF IsDecoding
  <2> QED
    BY <2>5
<1>3. \A n \in Nat : n \in S
  <2> HIDE DEF S
  <2> QED
    BY <1>1, <1>2, SetInduction
<1> QED
  BY <1>3

\* The same bytes at the end.
SameEnd(a, b, k) == \A i \in 0 .. k : Remaining(a, i) = Remaining(b, i)

SameAt(f, a, g, b, k) ==
    IsDecoding(f, a, Len(a)) /\ IsDecoding(g, b, Len(b)) /\ SameEnd(a, b, k) => f[k] = g[k]

\* Decodings of data that end in the same way agree on the end.
LEMMA DecodingsAgree ==
  ASSUME NEW a \in Seq(Nat), NEW f, NEW b \in Seq(Nat), NEW g, NEW k \in Nat, k <= Len(a), k <= Len(b)
  PROVE  SameAt(f, a, g, b, k)
<1> SUFFICES ASSUME IsDecoding(f, a, Len(a)), IsDecoding(g, b, Len(b)), SameEnd(a, b, k) PROVE f[k] = g[k]
  BY DEF SameAt
<1> DEFINE m == Len(a)
           n == Len(b)
<1> DEFINE S == {i \in Nat : i <= k => f[i] = g[i]}
<1>0. m \in Nat /\ n \in Nat
  BY LenProperties
<1>1. ASSUME NEW i \in Nat, \A j \in 0 .. i - 1 : j \in S PROVE i \in S
  <2> SUFFICES ASSUME i <= k PROVE f[i] = g[i]
    OBVIOUS
  <2>1. i \in 0 .. k /\ i \in 0 .. m /\ i \in 0 .. n /\ i \in 0 .. Len(a) /\ \A j \in 0 .. i - 1 : f[j] = g[j]
    BY <1>0, <1>1
  <2>2. f[i] = DecodeAt(f, Remaining(a, i), i)
    BY <2>1, Zenon DEF IsDecoding
  <2>3. g[i] = DecodeAt(g, Remaining(b, i), i)
    BY <2>1, Zenon DEF IsDecoding
  <2>4. Remaining(a, i) = Remaining(b, i)
    BY <2>1 DEF SameEnd
  <2>5. Remaining(a, i) \in Seq(Nat) /\ Len(Remaining(a, i)) = i
    BY <2>1, RemainingType
  <2>6. DecodeAt(f, Remaining(a, i), i) = DecodeAt(g, Remaining(a, i), i)
    <3> DEFINE s == Remaining(a, i)
    <3>1. s \in Seq(Nat) /\ Len(s) = i
      BY <2>5
    <3>2. AgreeBelow(f, g, i)
      BY <2>1, Zenon DEF AgreeBelow
    <3>3. i \in Nat
      OBVIOUS
    <3> HIDE DEF s
    <3>4. DecodeAt(f, s, i) = DecodeAt(g, s, i)
      BY <3>1, <3>2, <3>3, DecodeAtSame
    <3> QED
      BY <3>4 DEF s
  <2> QED
    BY <2>2, <2>3, <2>4, <2>6
<1>2. \A i \in Nat : i \in S
  <2>1. \A i \in Nat : (\A j \in 0 .. i - 1 : j \in S) => i \in S
    BY <1>1
  <2> HIDE DEF S
  <2> QED
    BY <2>1, StrongInduction
<1> QED
  BY <1>2

\* The decoding that try_decode makes.
LEMMA TryIsDecoding ==
  ASSUME NEW data \in Seq(Nat)
  PROVE  \E f : IsDecoding(f, data, Len(data)) /\ TryDecode(data) = f[Len(data)]
<1> DEFINE c == CHOOSE f : IsDecoding(f, data, Len(data))
<1>1. TryDecode(data) = c[Len(data)]
  BY Zenon DEF TryDecode, IsDecoding, DecodeAt, Remaining
<1>2. IsDecoding(c, data, Len(data))
  <2>1. Len(data) \in Nat /\ Len(data) <= Len(data)
    BY LenProperties
  <2>2. \E f : IsDecoding(f, data, Len(data))
    BY <2>1, DecodingExists
  <2> QED
    BY <2>2, Zenon
<1> QED
  BY <1>1, <1>2

LEMMA EmptyJoins ==
  ASSUME NEW T, NEW s \in Seq(T)
  PROVE  <<>> \in Seq(T) /\ Len(<<>>) = 0 /\ <<>> \o s = s /\ s \o <<>> = s /\ (Len(s) = 0 => s = <<>>)
<1>1. <<>> \in Seq(T) /\ Len(<<>>) = 0 /\ (Len(s) = 0 => s = <<>>)
  BY EmptySeq
<1>2. <<>> \o s = s /\ s \o <<>> = s
  BY ConcatEmptySeq
<1> QED
  BY <1>1, <1>2

\* All of the data remains before any of it is decoded.
LEMMA AllRemains ==
  ASSUME NEW data \in Seq(Nat)
  PROVE  Remaining(data, Len(data)) = data
<1> DEFINE p == SubSeq(data, 1, 0)
           r == From(data, 0 + 1)
<1>1. Len(data) \in Nat /\ 0 \in 0 .. Len(data)
  BY LenProperties
<1>2. p \in Seq(Nat) /\ r \in Seq(Nat) /\ Len(p) = 0 /\ data = p \o r
  <2>1. CutsAt(Nat, data, 0)
    BY <1>1, Cutting
  <2> QED
    BY <2>1 DEF CutsAt
<1>3. Remaining(data, Len(data)) = r
  BY <1>1 DEF Remaining
<1> HIDE DEF p, r
<1>4. p = <<>>
  BY <1>2, EmptyJoins
<1>5. <<>> \o r = r
  BY <1>2, EmptyJoins
<1> QED
  BY <1>2, <1>3, <1>4, <1>5

\* What is in front of the data does not matter to what remains of it.
LEMMA EndOfJoined ==
  ASSUME NEW x \in Seq(Nat), NEW w \in Seq(Nat)
  PROVE  SameEnd(x \o w, w, Len(w))
<1> DEFINE data == x \o w
<1>1. data \in Seq(Nat) /\ Len(x) \in Nat /\ Len(w) \in Nat /\ Len(data) = Len(x) + Len(w)
  BY Joining DEF Joins
<1> HIDE DEF data
<1> SUFFICES ASSUME NEW i \in 0 .. Len(w) PROVE Remaining(data, i) = Remaining(w, i)
  BY DEF SameEnd, data
<1> DEFINE k == Len(w) - i
           l == Len(data) - i
           p == SubSeq(w, 1, k)
           r == From(w, k + 1)
           q == SubSeq(data, 1, l)
           t == From(data, l + 1)
<1>2. k \in 0 .. Len(w) /\ l \in 0 .. Len(data) /\ l = Len(x) + k
  BY <1>1
<1>3. Remaining(data, i) = t /\ Remaining(w, i) = r
  BY DEF Remaining
<1> HIDE DEF k, l
<1>4. CutsAt(Nat, w, k) /\ CutsAt(Nat, data, l)
  BY <1>1, <1>2, Cutting
<1>5. /\ p \in Seq(Nat) /\ r \in Seq(Nat) /\ Len(p) = k /\ w = p \o r
      /\ q \in Seq(Nat) /\ t \in Seq(Nat) /\ Len(q) = l /\ data = q \o t
  BY <1>4 DEF CutsAt
<1> HIDE DEF p, r, q, t
<1>6. Associates(Nat, x, p, r) /\ Joins(Nat, x, p)
  BY <1>5, Associating, Joining
<1>7. (x \o p) \o r = q \o t /\ x \o p \in Seq(Nat) /\ Len(x \o p) = Len(q)
  <2>1. (x \o p) \o r = data
    BY <1>5, <1>6, Zenon DEF Associates, data
  <2>2. x \o p \in Seq(Nat) /\ Len(x \o p) = Len(x) + Len(p)
    BY <1>6 DEF Joins
  <2> QED
    BY <1>2, <1>5, <2>1, <2>2
<1>8. SameParts(Nat, x \o p, r, q, t)
  BY <1>5, <1>7, SameCut
<1> QED
  BY <1>3, <1>7, <1>8, Zenon DEF SameParts

\* try_decode of data without a complete message.
LEMMA TryRest ==
  ASSUME NEW data \in Seq(Nat),
         ~(DecodeSize(data).used > 0 /\ Len(data) - DecodeSize(data).used >= DecodeSize(data).size)
  PROVE  TryDecode(data).stored = data /\ TryDecode(data).out = <<>>
<1>1. PICK f : IsDecoding(f, data, Len(data)) /\ TryDecode(data) = f[Len(data)]
  BY TryIsDecoding
<1>2. f[Len(data)] = DecodeAt(f, data, Len(data))
  <2>1. Len(data) \in 0 .. Len(data)
    BY LenProperties
  <2>2. f[Len(data)] = DecodeAt(f, Remaining(data, Len(data)), Len(data))
    BY <1>1, <2>1, Zenon DEF IsDecoding
  <2> QED
    BY <2>2, AllRemains
<1>3. DecodeAt(f, data, Len(data)) = [stored |-> data, out |-> <<>>]
  BY Zenon DEF DecodeAt
<1> QED
  BY <1>1, <1>2, <1>3

\* The first message of x \o w is decoded from x.
Decodes(x, w, u, n) ==
    DecodeSize(x \o w) = [size |-> n, used |-> u] =>
        /\ TryDecode(x \o w).stored = TryDecode(w).stored
        /\ TryDecode(x \o w).out = <<SubSeq(x \o w, u + 1, u + n)>> \o TryDecode(w).out

\* try_decode of a complete message and what follows it.
LEMMA TryWhole ==
  ASSUME NEW x \in Seq(Nat), NEW w \in Seq(Nat), NEW u \in Nat, NEW n \in Nat, u > 0, Len(x) = u + n
  PROVE  Decodes(x, w, u, n)
<1> SUFFICES ASSUME DecodeSize(x \o w) = [size |-> n, used |-> u]
             PROVE  /\ TryDecode(x \o w).stored = TryDecode(w).stored
                    /\ TryDecode(x \o w).out = <<SubSeq(x \o w, u + 1, u + n)>> \o TryDecode(w).out
  BY DEF Decodes
<1> DEFINE data == x \o w
           l == Len(data)
           k == Len(w)
<1>1. /\ data \in Seq(Nat) /\ Len(x) \in Nat /\ k \in Nat /\ l = Len(x) + k /\ l \in Nat
  BY Joining DEF Joins
<1>2. SameEnd(data, w, k)
  BY EndOfJoined
<1>3. DecodeSize(data).used = u /\ DecodeSize(data).size = n
  OBVIOUS
<1> HIDE DEF data
<1>4. PICK f : IsDecoding(f, data, l) /\ TryDecode(data) = f[l]
  BY <1>1, TryIsDecoding
<1>5. PICK g : IsDecoding(g, w, k) /\ TryDecode(w) = g[k]
  BY TryIsDecoding
<1>6. f[k] = g[k]
  <2>1. k <= Len(data) /\ k <= Len(w)
    BY <1>1
  <2>2. SameAt(f, data, g, w, k)
    <3> HIDE DEF k
    <3> QED
      BY <1>1, <2>1, DecodingsAgree
  <2> QED
    BY <1>2, <1>4, <1>5, <2>2, Zenon DEF SameAt
<1>7. f[l] = DecodeAt(f, data, l)
  <2>1. l \in 0 .. l /\ Remaining(data, l) = data
    <3>1. l \in 0 .. l
      BY <1>1
    <3> QED
      BY <1>1, <3>1, AllRemains, Zenon
  <2>2. f[l] = DecodeAt(f, Remaining(data, l), l)
    <3> HIDE DEF l
    <3> QED
      BY <1>4, <2>1, Zenon DEF IsDecoding
  <2> QED
    BY <2>1, <2>2
<1>8. u > 0 /\ l - u >= n /\ l - u - n = k
  BY <1>1
<1> HIDE DEF l, k
<1>9. DecodeAt(f, data, l) =
        [stored |-> f[k].stored, out |-> <<SubSeq(data, u + 1, u + n)>> \o f[k].out]
  <2>1. DecodeAt(f, data, l) =
          IF u > 0 /\ l - u >= n
          THEN [stored |-> f[l - u - n].stored, out |-> <<SubSeq(data, u + 1, u + n)>> \o f[l - u - n].out]
          ELSE [stored |-> data, out |-> <<>>]
    BY <1>3, Zenon DEF DecodeAt
  <2> QED
    BY <1>8, <2>1, Zenon
<1>10. TryDecode(data) =
         [stored |-> TryDecode(w).stored, out |-> <<SubSeq(data, u + 1, u + n)>> \o TryDecode(w).out]
  BY <1>4, <1>5, <1>6, <1>7, <1>9, Zenon
<1>11. /\ TryDecode(data).stored = TryDecode(w).stored
       /\ TryDecode(data).out = <<SubSeq(data, u + 1, u + n)>> \o TryDecode(w).out
  <2> DEFINE r == TryDecode(data)
             y == TryDecode(w).stored
             z == <<SubSeq(data, u + 1, u + n)>> \o TryDecode(w).out
  <2>1. r = [stored |-> y, out |-> z]
    BY <1>10
  <2> HIDE DEF r, y, z
  <2>2. r.stored = y /\ r.out = z
    BY <2>1
  <2> QED
    BY <2>2 DEF r, y, z
<1> QED
  BY <1>11 DEF data

\* What try_decode gives, of any data.
LEMMA TryType ==
  ASSUME NEW data \in Seq(Nat)
  PROVE  TryDecode(data).stored \in Seq(Nat) /\ TryDecode(data).out \in Seq(Seq(Nat))
<1> DEFINE Typed(s) == TryDecode(s).stored \in Seq(Nat) /\ TryDecode(s).out \in Seq(Seq(Nat))
           S == {i \in Nat : \A s \in Seq(Nat) : Len(s) = i => Typed(s)}
<1>1. ASSUME NEW i \in Nat, \A j \in 0 .. i - 1 : j \in S PROVE i \in S
  <2> SUFFICES ASSUME NEW s \in Seq(Nat), Len(s) = i PROVE Typed(s)
    OBVIOUS
  <2> DEFINE u == DecodeSize(s).used
             n == DecodeSize(s).size
  <2>1. u \in 0 .. i /\ n \in Nat
    BY DecodeType
  <2>2. CASE ~(u > 0 /\ i - u >= n)
    <3>1. TryDecode(s).stored = s /\ TryDecode(s).out = <<>>
      BY <2>2, TryRest
    <3>2. <<>> \in Seq(Seq(Nat))
      BY EmptySeq
    <3> QED
      BY <3>1, <3>2
  <2>3. CASE u > 0 /\ i - u >= n
    <3> DEFINE k == u + n
               x == SubSeq(s, 1, k)
               w == From(s, k + 1)
               y == SubSeq(s, u + 1, u + n)
    <3>1. DecodeSize(s) = [size |-> n, used |-> u]
      BY DEF DecodeSize
    <3> HIDE DEF u, n
    <3>2. k \in 0 .. Len(s) /\ k \in Nat
      BY <2>1, <2>3
    <3>3. CutsAt(Nat, s, k)
      <4> HIDE DEF k
      <4> QED
        BY <3>2, Cutting
    <3>4. x \in Seq(Nat) /\ w \in Seq(Nat) /\ Len(x) = u + n /\ Len(w) = i - k /\ s = x \o w
      BY <3>3 DEF CutsAt
    <3>5. y \in Seq(Nat)
      <4>1. u + 1 \in Int /\ u + n \in Int /\ \A j \in u + 1 .. u + n : s[j] \in Nat
        BY <2>1, <2>3, ElementOfSeq
      <4> QED
        BY <4>1, SubSeqProperties
    <3>6. Len(w) \in 0 .. i - 1
      BY <2>1, <2>3, <3>4
    <3> HIDE DEF x, w, k
    <3>7. Typed(w)
      BY <1>1, <3>4, <3>6
    <3>8. /\ TryDecode(s).stored = TryDecode(w).stored
          /\ TryDecode(s).out = <<SubSeq(s, u + 1, u + n)>> \o TryDecode(w).out
      <4>1. DecodeSize(x \o w) = [size |-> n, used |-> u] /\ u > 0 /\ u \in Nat /\ n \in Nat
        BY <2>1, <2>3, <3>1, <3>4
      <4>2. /\ TryDecode(x \o w).stored = TryDecode(w).stored
            /\ TryDecode(x \o w).out = <<SubSeq(x \o w, u + 1, u + n)>> \o TryDecode(w).out
        <5>1. Decodes(x, w, u, n)
          BY <3>4, <4>1, TryWhole
        <5> QED
          BY <4>1, <5>1, Zenon DEF Decodes
      <4> QED
        BY <3>4, <4>2, Zenon
    <3> HIDE DEF y
    <3>9. <<y>> \o TryDecode(w).out \in Seq(Seq(Nat))
      <4> DEFINE a == <<y>>
                 b == TryDecode(w).out
      <4>1. a \in Seq(Seq(Nat)) /\ b \in Seq(Seq(Nat))
        BY <3>5, <3>7
      <4> HIDE DEF a, b
      <4>2. a \o b \in Seq(Seq(Nat))
        BY <4>1, ConcatProperties
      <4> QED
        BY <4>2 DEF a, b
    <3> QED
      BY <3>7, <3>8, <3>9 DEF y
  <2> QED
    BY <2>2, <2>3
<1>2. \A i \in Nat : i \in S
  <2>1. \A i \in Nat : (\A j \in 0 .. i - 1 : j \in S) => i \in S
    BY <1>1
  <2> HIDE DEF S
  <2> QED
    BY <2>1, StrongInduction
<1>3. Len(data) \in Nat
  BY LenProperties
<1> QED
  BY <1>2, <1>3

-----------------------------------------------------------------------------
(* Messages and their frames.                                              *)

\* A message whose size a header can tell.
Message == {m \in Seq(Nat) : Len(m) < Usize /\ Len(EncodeSize(Len(m))) <= MaxEncodedSize}

Header(m) == EncodeSize(Len(m))

LEMMA FramedType ==
  ASSUME NEW m \in Message
  PROVE  /\ m \in Seq(Nat) /\ Len(m) \in Nat /\ Len(m) < Usize
         /\ IsHeader(Header(m), Len(m)) /\ Header(m) \in Seq(Nat)
         /\ Len(Header(m)) \in Nat /\ Len(Header(m)) >= 1 /\ Len(Header(m)) <= MaxEncodedSize
         /\ Framed(m) = Header(m) \o m /\ Framed(m) \in Seq(Nat)
         /\ Len(Framed(m)) = Len(Header(m)) + Len(m) /\ Len(Framed(m)) \in Nat /\ Len(Framed(m)) >= 1
<1>1. m \in Seq(Nat) /\ Len(m) < Usize /\ Len(Header(m)) <= MaxEncodedSize
  BY DEF Message, Header
<1>2. Len(m) \in Nat
  BY <1>1, LenProperties
<1>3. IsHeader(Header(m), Len(m))
  BY <1>2, HeaderOfSize DEF Header
<1>4. Header(m) \in Seq(Nat) /\ Len(Header(m)) >= 1
  BY <1>3 DEF IsHeader
<1>5. Framed(m) = Header(m) \o m
  BY DEF Framed, Header
<1>6. Joins(Nat, Header(m), m)
  BY <1>1, <1>4, Joining
<1>7. /\ Framed(m) \in Seq(Nat) /\ Len(Header(m)) \in Nat /\ Len(Framed(m)) = Len(Header(m)) + Len(m)
  BY <1>5, <1>6 DEF Joins
<1>8. Len(Framed(m)) \in Nat /\ Len(Framed(m)) >= 1
  BY <1>2, <1>4, <1>7
<1> QED
  BY <1>1, <1>2, <1>3, <1>4, <1>5, <1>7, <1>8

IsStream(f, s) == f = [i \in 0 .. Len(s) |-> IF i = 0 THEN <<>> ELSE f[i - 1] \o Framed(s[i])]

\* The frames of every sequence of messages can be joined.
LEMMA StreamExists == ASSUME NEW s \in Seq(Message) PROVE \E f : IsStream(f, s)
<1> DEFINE S == {n \in Nat : \A t \in Seq(Message) : Len(t) = n => \E f : IsStream(f, t)}
<1>1. 0 \in S
  <2> SUFFICES ASSUME NEW t \in Seq(Message), Len(t) = 0 PROVE \E f : IsStream(f, t)
    OBVIOUS
  <2>1. IsStream([i \in {0} |-> <<>>], t)
    BY DEF IsStream
  <2> QED
    BY <2>1
<1>2. ASSUME NEW n \in Nat, n \in S PROVE n + 1 \in S
  <2> SUFFICES ASSUME NEW t \in Seq(Message), Len(t) = n + 1 PROVE \E f : IsStream(f, t)
    OBVIOUS
  <2> DEFINE u == SubSeq(t, 1, n)
  <2>1. u \in Seq(Message) /\ Len(u) = n /\ \A i \in 1 .. n : u[i] = t[i]
    <3>1. /\ u \in Seq(Message) /\ Len(u) = n /\ t = Append(u, t[n + 1]) /\ t[n + 1] \in Message
      BY FrontLast
    <3> QED
      BY <3>1, AppendProperties
  <2> HIDE DEF u
  <2>2. PICK f : IsStream(f, u)
    BY <1>2, <2>1
  <2> DEFINE g == [i \in 0 .. n + 1 |-> IF i <= n THEN f[i] ELSE f[n] \o Framed(t[n + 1])]
  <2>3. f = [i \in 0 .. n |-> IF i = 0 THEN <<>> ELSE f[i - 1] \o Framed(u[i])]
    BY <2>1, <2>2 DEF IsStream
  <2>4. ASSUME NEW i \in 0 .. n + 1
        PROVE  g[i] = IF i = 0 THEN <<>> ELSE g[i - 1] \o Framed(t[i])
    <3>1. CASE i = 0
      BY <2>3, <3>1
    <3>2. CASE i \in 1 .. n
      <4>1. /\ i - 1 \in 0 .. n /\ i \in 0 .. n /\ u[i] = t[i] /\ g[i] = f[i] /\ g[i - 1] = f[i - 1]
        BY <2>1, <3>2
      <4>2. f[i] = IF i = 0 THEN <<>> ELSE f[i - 1] \o Framed(u[i])
        BY <2>3, <4>1
      <4> HIDE DEF g
      <4> QED
        BY <4>1, <4>2
    <3>3. CASE i = n + 1
      BY <3>3
    <3> QED
      BY <3>1, <3>2, <3>3
  <2>5. g = [i \in 0 .. n + 1 |-> g[i]]
    OBVIOUS
  <2>6. IsStream(g, t)
    <3> HIDE DEF g
    <3> QED
      BY <2>4, <2>5 DEF IsStream
  <2> QED
    BY <2>6
<1>3. \A n \in Nat : n \in S
  <2> HIDE DEF S
  <2> QED
    BY <1>1, <1>2, SetInduction
<1> QED
  BY <1>3, LenProperties

\* The streams of two sequences agree as far as the sequences do.
LEMMA StreamsAgree ==
  ASSUME NEW s, NEW t, NEW n \in Nat, n <= Len(s), n <= Len(t), Len(s) \in Nat, Len(t) \in Nat,
         \A i \in 1 .. n : s[i] = t[i],
         NEW f, IsStream(f, s), NEW g, IsStream(g, t)
  PROVE  f[n] = g[n]
<1> DEFINE S == {i \in Nat : i <= n => f[i] = g[i]}
<1>1. ASSUME NEW i \in 0 .. Len(s) PROVE f[i] = IF i = 0 THEN <<>> ELSE f[i - 1] \o Framed(s[i])
  BY DEF IsStream
<1>2. ASSUME NEW i \in 0 .. Len(t) PROVE g[i] = IF i = 0 THEN <<>> ELSE g[i - 1] \o Framed(t[i])
  BY DEF IsStream
<1>3. 0 \in S
  BY <1>1, <1>2
<1>4. ASSUME NEW i \in Nat, i \in S PROVE i + 1 \in S
  <2> SUFFICES ASSUME i + 1 <= n PROVE f[i + 1] = g[i + 1]
    OBVIOUS
  <2>1. f[i] = g[i] /\ s[i + 1] = t[i + 1] /\ i + 1 \in 0 .. Len(s) /\ i + 1 \in 0 .. Len(t) /\ i + 1 > 0
    BY <1>4
  <2>2. f[i + 1] = f[i] \o Framed(s[i + 1])
    <3>1. f[i + 1] = IF i + 1 = 0 THEN <<>> ELSE f[(i + 1) - 1] \o Framed(s[i + 1])
      BY <1>1, <2>1
    <3>2. i + 1 # 0 /\ (i + 1) - 1 = i
      OBVIOUS
    <3> QED
      BY <3>1, <3>2
  <2>3. g[i + 1] = g[i] \o Framed(t[i + 1])
    <3>1. g[i + 1] = IF i + 1 = 0 THEN <<>> ELSE g[(i + 1) - 1] \o Framed(t[i + 1])
      BY <1>2, <2>1
    <3>2. i + 1 # 0 /\ (i + 1) - 1 = i
      OBVIOUS
    <3> QED
      BY <3>1, <3>2
  <2> QED
    BY <2>1, <2>2, <2>3
<1>5. \A i \in Nat : i \in S
  <2> HIDE DEF S
  <2> QED
    BY <1>3, <1>4, SetInduction
<1> QED
  BY <1>5

\* The stream that StreamOf stands for.
LEMMA StreamIsStream ==
  ASSUME NEW s \in Seq(Message)
  PROVE  \E f : IsStream(f, s) /\ StreamOf(s) = f[Len(s)]
<1> DEFINE c == CHOOSE f : IsStream(f, s)
<1>1. StreamOf(s) = c[Len(s)]
  BY Zenon DEF StreamOf, IsStream
<1>2. IsStream(c, s)
  BY StreamExists, Zenon
<1> QED
  BY <1>1, <1>2

\* No messages, and one message more.
LEMMA StreamEmpty == StreamOf(<<>>) = <<>>
<1>1. <<>> \in Seq(Message) /\ Len(<<>>) = 0
  BY EmptySeq
<1>2. PICK f : IsStream(f, <<>>) /\ StreamOf(<<>>) = f[0]
  BY <1>1, StreamIsStream
<1> QED
  BY <1>1, <1>2 DEF IsStream

LEMMA StreamAppend ==
  ASSUME NEW s \in Seq(Message), NEW m \in Message
  PROVE  StreamOf(Append(s, m)) = StreamOf(s) \o Framed(m)
<1> DEFINE t == Append(s, m)
           n == Len(s)
<1>1. /\ t \in Seq(Message) /\ n \in Nat /\ Len(t) = n + 1 /\ t[n + 1] = m
      /\ \A i \in 1 .. n : t[i] = s[i]
  BY AppendProperties, LenProperties
<1> HIDE DEF t, n
<1>2. PICK f : IsStream(f, s) /\ StreamOf(s) = f[n]
  BY StreamIsStream DEF n
<1>3. PICK g : IsStream(g, t) /\ StreamOf(t) = g[n + 1]
  BY <1>1, StreamIsStream
<1>4. f[n] = g[n]
  <2>1. /\ n \in Nat /\ n <= Len(s) /\ n <= Len(t) /\ Len(s) \in Nat /\ Len(t) \in Nat
        /\ \A i \in 1 .. n : s[i] = t[i]
    BY <1>1 DEF n
  <2>2. IsStream(f, s) /\ IsStream(g, t)
    BY <1>2, <1>3
  <2> QED
    BY <2>1, <2>2, StreamsAgree
<1>5. g[n + 1] = g[n] \o Framed(t[n + 1])
  <2>1. g = [i \in 0 .. n + 1 |-> IF i = 0 THEN <<>> ELSE g[i - 1] \o Framed(t[i])]
    BY <1>1, <1>3 DEF IsStream
  <2>2. n + 1 \in 0 .. n + 1 /\ n + 1 # 0 /\ (n + 1) - 1 = n
    BY <1>1
  <2>3. g[n + 1] = IF n + 1 = 0 THEN <<>> ELSE g[(n + 1) - 1] \o Framed(t[n + 1])
    BY <2>1, <2>2
  <2> QED
    BY <2>2, <2>3
<1> QED
  BY <1>1, <1>2, <1>3, <1>4, <1>5 DEF t

\* A stream is bytes.
LEMMA StreamType ==
  ASSUME NEW s \in Seq(Message)
  PROVE  StreamOf(s) \in Seq(Nat)
<1> DEFINE S == {n \in Nat : \A t \in Seq(Message) : Len(t) = n => StreamOf(t) \in Seq(Nat)}
<1>1. 0 \in S
  <2>1. <<>> \in Seq(Nat)
    BY EmptySeq
  <2>2. ASSUME NEW t \in Seq(Message), Len(t) = 0 PROVE t = <<>>
    BY <2>2, EmptySeq
  <2> QED
    BY <2>1, <2>2, StreamEmpty
<1>2. ASSUME NEW n \in Nat, n \in S PROVE n + 1 \in S
  <2> SUFFICES ASSUME NEW t \in Seq(Message), Len(t) = n + 1 PROVE StreamOf(t) \in Seq(Nat)
    OBVIOUS
  <2> DEFINE u == SubSeq(t, 1, n)
             r == t[n + 1]
  <2>1. u \in Seq(Message) /\ Len(u) = n /\ r \in Message /\ t = Append(u, r)
    BY FrontLast
  <2>2. StreamOf(u) \in Seq(Nat)
    BY <1>2, <2>1
  <2> HIDE DEF u, r
  <2>3. StreamOf(t) = StreamOf(u) \o Framed(r) /\ Framed(r) \in Seq(Nat)
    <3>1. Framed(r) \in Seq(Nat)
      BY <2>1, FramedType
    <3> QED
      BY <2>1, <3>1, StreamAppend
  <2> QED
    BY <2>2, <2>3, ConcatProperties
<1>3. \A n \in Nat : n \in S
  <2> HIDE DEF S
  <2> QED
    BY <1>1, <1>2, SetInduction
<1> QED
  BY <1>3, LenProperties

LEMMA SingleType ==
  ASSUME NEW T, NEW r \in T
  PROVE  <<r>> \in Seq(T) /\ Len(<<r>>) = 1 /\ <<r>>[1] = r
OBVIOUS

LEMMA MessagesAreBytes ==
  ASSUME NEW V \in Seq(Message)
  PROVE  V \in Seq(Seq(Nat))
<1>1. Message \subseteq Seq(Nat)
  BY DEF Message
<1> HIDE DEF Message
<1>2. Len(V) \in Nat /\ \A i \in 1 .. Len(V) : V[i] \in Seq(Nat)
  BY <1>1, LenProperties, ElementOfSeq
<1>3. V = [i \in 1 .. Len(V) |-> V[i]]
  BY LenProperties
<1> QED
  BY <1>2, <1>3, SeqDef

\* The last message.
LEMMA SplitLast ==
  ASSUME NEW s \in Seq(Message), NEW n \in Nat, Len(s) = n + 1
  PROVE  \E w \in Seq(Message), r \in Message : Len(w) = n /\ s = w \o <<r>>
<1> DEFINE w == SubSeq(s, 1, n)
           r == s[n + 1]
<1>1. w \in Seq(Message) /\ r \in Message /\ Len(w) = n /\ s = Append(w, r)
  BY FrontLast
<1> HIDE DEF w, r
<1>2. Append(w, r) = w \o <<r>>
  BY <1>1, AppendIsConcat
<1> QED
  BY <1>1, <1>2

LEMMA StreamOne ==
  ASSUME NEW V \in Seq(Message), NEW m \in Message
  PROVE  V \o <<m>> \in Seq(Message) /\ StreamOf(V \o <<m>>) = StreamOf(V) \o Framed(m)
<1>1. Append(V, m) = V \o <<m>> /\ Append(V, m) \in Seq(Message)
  BY AppendIsConcat, AppendProperties
<1>2. StreamOf(Append(V, m)) = StreamOf(V) \o Framed(m)
  BY StreamAppend
<1> QED
  BY <1>1, <1>2, Zenon

\* The stream of one message.
LEMMA StreamSingle ==
  ASSUME NEW m \in Message
  PROVE  <<m>> \in Seq(Message) /\ StreamOf(<<m>>) = Framed(m)
<1>1. <<>> \in Seq(Message) /\ <<m>> \in Seq(Message)
  BY EmptySeq, SingleType
<1>2. StreamOf(<<>> \o <<m>>) = StreamOf(<<>>) \o Framed(m)
  BY <1>1, StreamOne
<1>3. <<>> \o <<m>> = <<m>>
  BY <1>1, EmptyJoins
<1>4. <<>> \o Framed(m) = Framed(m)
  BY FramedType, EmptyJoins
<1> QED
  BY <1>1, <1>2, <1>3, <1>4, StreamEmpty, Zenon

\* The stream of messages and more messages.
LEMMA StreamJoin ==
  ASSUME NEW V \in Seq(Message), NEW W \in Seq(Message)
  PROVE  V \o W \in Seq(Message) /\ StreamOf(V \o W) = StreamOf(V) \o StreamOf(W)
<1> DEFINE S == {n \in Nat : \A U \in Seq(Message) : Len(U) = n =>
                     StreamOf(V \o U) = StreamOf(V) \o StreamOf(U)}
<1>0. StreamOf(V) \in Seq(Nat)
  BY StreamType
<1>1. 0 \in S
  <2> SUFFICES ASSUME NEW U \in Seq(Message), Len(U) = 0
               PROVE  StreamOf(V \o U) = StreamOf(V) \o StreamOf(U)
    OBVIOUS
  <2>1. U = <<>> /\ V \o <<>> = V
    BY EmptyJoins
  <2>2. StreamOf(V) \o <<>> = StreamOf(V)
    BY <1>0, EmptyJoins
  <2> QED
    BY <2>1, <2>2, StreamEmpty, Zenon
<1>2. ASSUME NEW n \in Nat, n \in S PROVE n + 1 \in S
  <2> SUFFICES ASSUME NEW U \in Seq(Message), Len(U) = n + 1
               PROVE  StreamOf(V \o U) = StreamOf(V) \o StreamOf(U)
    OBVIOUS
  <2>1. PICK w \in Seq(Message), r \in Message : Len(w) = n /\ U = w \o <<r>>
    BY SplitLast
  <2>2. StreamOf(V \o w) = StreamOf(V) \o StreamOf(w)
    BY <1>2, <2>1
  <2>3. StreamOf(w \o <<r>>) = StreamOf(w) \o Framed(r)
    BY StreamOne
  <2>4. V \o w \in Seq(Message)
    BY ConcatProperties
  <2>5. StreamOf((V \o w) \o <<r>>) = StreamOf(V \o w) \o Framed(r)
    BY <2>4, StreamOne
  <2>6. Associates(Message, V, w, <<r>>)
    BY SingleType, Associating
  <2>7. Associates(Nat, StreamOf(V), StreamOf(w), Framed(r))
    <3>1. StreamOf(w) \in Seq(Nat) /\ Framed(r) \in Seq(Nat)
      BY StreamType, FramedType
    <3> QED
      BY <1>0, <3>1, Associating
  <2> QED
    BY <2>1, <2>2, <2>3, <2>5, <2>6, <2>7, Zenon DEF Associates
<1>3. \A n \in Nat : n \in S
  <2> HIDE DEF S
  <2> QED
    BY <1>1, <1>2, SetInduction
<1>4. V \o W \in Seq(Message) /\ Len(W) \in Nat
  BY ConcatProperties, LenProperties
<1> QED
  BY <1>3, <1>4

-----------------------------------------------------------------------------
(* try_decode of frames.                                                   *)

LEMMA Middle ==
  ASSUME NEW T, NEW a \in Seq(T), NEW b \in Seq(T), NEW c \in Seq(T)
  PROVE  SubSeq((a \o b) \o c, Len(a) + 1, Len(a) + Len(b)) = b
<1> DEFINE s == (a \o b) \o c
           u == Len(a)
           n == Len(b)
           k == Len(c)
           y == SubSeq(s, u + 1, u + n)
<1>1. Joins(T, a, b) /\ a \o b \in Seq(T)
  BY Joining DEF Joins
<1>2. Joins(T, a \o b, c)
  BY <1>1, Joining
<1>3. /\ u \in Nat /\ n \in Nat /\ k \in Nat /\ s \in Seq(T) /\ Len(s) = (u + n) + k
      /\ \A i \in 1 .. u + n : s[i] = (a \o b)[i]
      /\ \A i \in 1 .. n : (a \o b)[u + i] = b[i]
  BY <1>1, <1>2 DEF Joins
<1> HIDE DEF s, u, n, k
<1>4. ASSUME NEW i \in 1 .. n PROVE s[u + i] = b[i]
  <2>1. u + i \in 1 .. u + n
    BY <1>3
  <2> QED
    BY <1>3, <2>1
<1>5. /\ y \in Seq(T) /\ Len(y) = (IF u + 1 <= u + n THEN (u + n) - (u + 1) + 1 ELSE 0)
      /\ \A i \in 1 .. (u + n) - (u + 1) + 1 : y[i] = s[(u + 1) + i - 1]
  <2>1. u + 1 \in Int /\ u + n \in Int /\ \A j \in u + 1 .. u + n : s[j] \in T
    BY <1>3, ElementOfSeq
  <2> QED
    BY <1>3, <2>1, SubSeqProperties
<1> HIDE DEF y
<1>6. Len(y) = Len(b)
  <2>1. Len(y) = n
    BY <1>3, <1>5
  <2> QED
    BY <2>1 DEF n
<1>7. ASSUME NEW i \in 1 .. Len(b) PROVE y[i] = b[i]
  <2>1. i \in 1 .. n
    BY DEF n
  <2>2. i \in 1 .. (u + n) - (u + 1) + 1 /\ (u + 1) + i - 1 = u + i
    BY <1>3, <2>1
  <2>3. y[i] = s[(u + 1) + i - 1]
    BY <1>5, <2>2
  <2> QED
    BY <1>4, <2>1, <2>2, <2>3
<1>8. y = b
  BY <1>5, <1>6, <1>7, SeqEqual
<1> QED
  BY <1>8 DEF y, s, u, n

\* A frame that is complete.
LEMMA TryFrame ==
  ASSUME NEW m \in Message, NEW x \in Seq(Nat)
  PROVE  /\ TryDecode(Framed(m) \o x).stored = TryDecode(x).stored
         /\ TryDecode(Framed(m) \o x).out = <<m>> \o TryDecode(x).out
<1> DEFINE e == Header(m)
           u == Len(e)
           n == Len(m)
           F == Framed(m)
           data == F \o x
<1>1. /\ m \in Seq(Nat) /\ n \in Nat /\ n < Usize /\ IsHeader(e, n) /\ e \in Seq(Nat) /\ u \in Nat /\ u >= 1
      /\ u <= MaxEncodedSize /\ F = e \o m /\ F \in Seq(Nat) /\ Len(F) = u + n
  BY FramedType
<1>2. Joins(Nat, e, m) /\ Joins(Nat, F, x)
  <2> HIDE DEF e, F
  <2> QED
    BY <1>1, Joining
<1> HIDE DEF e, F
<1>3. data \in Seq(Nat) /\ u <= Len(data) /\ \A i \in 1 .. u : data[i] = e[i]
  <2>1. /\ data \in Seq(Nat) /\ Len(data) = Len(F) + Len(x) /\ Len(x) \in Nat
        /\ \A i \in 1 .. Len(F) : data[i] = F[i]
    BY <1>2 DEF Joins
  <2>2. \A i \in 1 .. u : F[i] = e[i]
    BY <1>1, <1>2 DEF Joins
  <2> HIDE DEF data, u, n
  <2>3. u <= Len(data)
    BY <1>1, <2>1
  <2>4. ASSUME NEW i \in 1 .. u PROVE data[i] = e[i]
    <3>1. i \in 1 .. Len(F)
      BY <1>1
    <3> QED
      BY <2>1, <2>2, <3>1
  <2> QED
    BY <2>1, <2>3, <2>4
<1>4. DecodeSize(data) = [size |-> n, used |-> u]
  <2> HIDE DEF data, n
  <2> QED
    BY <1>1, <1>3, DecodeHeader
<1>5. Decodes(F, x, u, n)
  <2> HIDE DEF u, n
  <2>1. u > 0
    BY <1>1
  <2> QED
    BY <1>1, <2>1, TryWhole
<1>6. SubSeq(data, u + 1, u + n) = m
  BY <1>1, Middle, Zenon
<1>7. /\ TryDecode(data).stored = TryDecode(x).stored
      /\ TryDecode(data).out = <<SubSeq(data, u + 1, u + n)>> \o TryDecode(x).out
  BY <1>4, <1>5, Zenon DEF Decodes
<1> QED
  BY <1>6, <1>7, Zenon DEF F

\* decode_size of the first bytes of a frame.
LEMMA HeaderOfPart ==
  ASSUME NEW m \in Message, NEW r \in Seq(Nat), NEW z \in Seq(Nat), Framed(m) = r \o z
  PROVE  /\ Len(r) < Len(Header(m)) => DecodeSize(r).used = 0
         /\ Len(r) >= Len(Header(m)) => DecodeSize(r) = [size |-> Len(m), used |-> Len(Header(m))]
         /\ Len(r) \in Nat /\ Len(z) \in Nat /\ Len(Header(m)) + Len(m) = Len(r) + Len(z)
<1> DEFINE e == Header(m)
           u == Len(e)
           n == Len(m)
           F == Framed(m)
<1>1. /\ m \in Seq(Nat) /\ n \in Nat /\ n < Usize /\ IsHeader(e, n) /\ e \in Seq(Nat) /\ u \in Nat /\ u >= 1
      /\ u <= MaxEncodedSize /\ F = e \o m /\ F \in Seq(Nat) /\ Len(F) = u + n
  BY FramedType
<1>2. F = r \o z
  OBVIOUS
<1> HIDE DEF e, F
<1>3. Joins(Nat, e, m) /\ Joins(Nat, r, z)
  BY <1>1, Joining
<1>4. /\ Len(F) = Len(r) + Len(z) /\ Len(r) \in Nat /\ Len(z) \in Nat
      /\ (\A i \in 1 .. Len(r) : F[i] = r[i]) /\ \A i \in 1 .. u : F[i] = e[i]
  BY <1>1, <1>2, <1>3 DEF Joins
<1>5. ASSUME Len(r) < u PROVE DecodeSize(r).used = 0
  <2>1. ASSUME NEW i \in 1 .. Len(r) PROVE r[i] = e[i]
    <3>1. i \in 1 .. u
      BY <1>1, <1>4, <1>5
    <3> QED
      BY <1>4, <3>1, Zenon
  <2>2. Len(r) < Len(e)
    BY <1>5
  <2> QED
    BY <1>1, <2>1, <2>2, DecodePart
<1>6. ASSUME Len(r) >= u PROVE DecodeSize(r) = [size |-> n, used |-> u]
  <2>1. ASSUME NEW i \in 1 .. u PROVE r[i] = e[i]
    <3>1. i \in 1 .. Len(r)
      <4> HIDE DEF u
      <4> QED
        BY <1>1, <1>4, <1>6
    <3> QED
      BY <1>4, <3>1
  <2>2. u <= Len(r)
    <3> HIDE DEF u
    <3> QED
      BY <1>1, <1>4, <1>6
  <2> HIDE DEF n
  <2> QED
    BY <1>1, <2>1, <2>2, DecodeHeader
<1> QED
  BY <1>1, <1>4, <1>5, <1>6 DEF e

\* A part of a frame.
LEMMA TryPart ==
  ASSUME NEW m \in Message, NEW r \in Seq(Nat), NEW z \in Seq(Nat), Framed(m) = r \o z, z # <<>>
  PROVE  TryDecode(r).stored = r /\ TryDecode(r).out = <<>>
<1> DEFINE u == Len(Header(m))
           n == Len(m)
<1>1. /\ Len(r) < u => DecodeSize(r).used = 0
      /\ Len(r) >= u => DecodeSize(r) = [size |-> n, used |-> u]
      /\ Len(r) \in Nat /\ Len(z) \in Nat /\ u + n = Len(r) + Len(z)
  BY HeaderOfPart
<1>2. u \in Nat /\ n \in Nat
  BY FramedType
<1>3. Len(z) > 0
  BY <1>1, EmptyJoins
<1> HIDE DEF u, n
<1>4. ~(DecodeSize(r).used > 0 /\ Len(r) - DecodeSize(r).used >= DecodeSize(r).size)
  <2>1. CASE Len(r) < u
    BY <1>1, <2>1
  <2>2. CASE Len(r) >= u
    <3>1. DecodeSize(r).used = u /\ DecodeSize(r).size = n
      BY <1>1, <2>2
    <3> QED
      BY <1>1, <1>2, <1>3, <3>1
  <2> QED
    BY <1>1, <1>2, <2>1, <2>2
<1> QED
  BY <1>4, TryRest

\* try_decode of nothing.
LEMMA TryNothing == TryDecode(<<>>).stored = <<>> /\ TryDecode(<<>>).out = <<>>
<1>1. <<>> \in Seq(Nat) /\ Len(<<>>) = 0
  BY EmptySeq
<1>2. DecodeSize(<<>>).used \in 0 .. 0
  BY <1>1, DecodeType
<1>3. ~(DecodeSize(<<>>).used > 0)
  BY <1>2
<1> QED
  BY <1>1, <1>3, TryRest, Zenon

\* Frames that are complete.
LEMMA TryStream ==
  ASSUME NEW V \in Seq(Message), NEW x \in Seq(Nat)
  PROVE  /\ TryDecode(StreamOf(V) \o x).stored = TryDecode(x).stored
         /\ TryDecode(StreamOf(V) \o x).out = V \o TryDecode(x).out
<1> DEFINE Good(U, y) == /\ TryDecode(StreamOf(U) \o y).stored = TryDecode(y).stored
                         /\ TryDecode(StreamOf(U) \o y).out = U \o TryDecode(y).out
           S == {n \in Nat : \A U \in Seq(Message) : Len(U) = n => \A y \in Seq(Nat) : Good(U, y)}
<1>1. 0 \in S
  <2> SUFFICES ASSUME NEW U \in Seq(Message), Len(U) = 0, NEW y \in Seq(Nat) PROVE Good(U, y)
    OBVIOUS
  <2>1. U = <<>>
    BY EmptyJoins
  <2>2. <<>> \o y = y /\ TryDecode(y).out \in Seq(Seq(Nat))
    BY EmptyJoins, TryType
  <2>3. <<>> \o TryDecode(y).out = TryDecode(y).out
    BY <2>2, EmptyJoins
  <2> QED
    BY <2>1, <2>2, <2>3, StreamEmpty, Zenon
<1>2. ASSUME NEW n \in Nat, n \in S PROVE n + 1 \in S
  <2> SUFFICES ASSUME NEW U \in Seq(Message), Len(U) = n + 1, NEW y \in Seq(Nat) PROVE Good(U, y)
    OBVIOUS
  <2>1. PICK w \in Seq(Message), m \in Message : Len(w) = n /\ U = w \o <<m>>
    BY SplitLast
  <2>2. Framed(m) \in Seq(Nat) /\ StreamOf(w) \in Seq(Nat) /\ Joins(Nat, Framed(m), y)
    <3>1. Framed(m) \in Seq(Nat) /\ StreamOf(w) \in Seq(Nat)
      BY StreamType, FramedType
    <3> QED
      BY <3>1, Joining
  <2>3. Good(w, Framed(m) \o y)
    <3>1. Framed(m) \o y \in Seq(Nat)
      BY <2>2 DEF Joins
    <3> HIDE DEF Good
    <3> QED
      BY <1>2, <2>1, <3>1
  <2>4. /\ TryDecode(Framed(m) \o y).stored = TryDecode(y).stored
        /\ TryDecode(Framed(m) \o y).out = <<m>> \o TryDecode(y).out
    BY TryFrame
  <2>5. StreamOf(U) \o y = StreamOf(w) \o (Framed(m) \o y)
    <3>1. StreamOf(U) = StreamOf(w) \o Framed(m)
      BY <2>1, StreamOne
    <3>2. Associates(Nat, StreamOf(w), Framed(m), y)
      BY <2>2, Associating
    <3> QED
      BY <3>1, <3>2, Zenon DEF Associates
  <2>6. Associates(Seq(Nat), w, <<m>>, TryDecode(y).out)
    <3>1. w \in Seq(Seq(Nat)) /\ TryDecode(y).out \in Seq(Seq(Nat)) /\ <<m>> \in Seq(Seq(Nat))
      BY MessagesAreBytes, TryType, FramedType, SingleType
    <3> QED
      BY <3>1, Associating
  <2> QED
    BY <2>1, <2>3, <2>4, <2>5, <2>6, Zenon DEF Associates
<1>3. \A n \in Nat : n \in S
  <2> HIDE DEF S
  <2> QED
    BY <1>1, <1>2, SetInduction
<1>4. Len(V) \in Nat
  BY LenProperties
<1> QED
  BY <1>3, <1>4

-----------------------------------------------------------------------------
(* Bytes that agree with a stream of frames, as far as both go.            *)

Compatible(c, s) == \E x \in Seq(Nat), y \in Seq(Nat) : c \o x = s \o y

\* Bytes r of the first frame of the messages W, but not all of them.
Partial(r, W) ==
    \/ W = <<>> /\ r = <<>>
    \/ \E m \in Message, X \in Seq(Message), z \in Seq(Nat) :
           W = <<m>> \o X /\ Framed(m) = r \o z /\ z # <<>>

\* The bytes end within the stream of W, after the messages V.
Within(W, c) == \E V \in Seq(Message), X \in Seq(Message), r \in Seq(Nat) :
                    W = V \o X /\ c = StreamOf(V) \o r /\ Partial(r, X)

\* The bytes end after the stream of W.
Beyond(W, c) == \E r \in Seq(Nat) : r # <<>> /\ c = StreamOf(W) \o r

LEMMA PartialMore ==
  ASSUME NEW r \in Seq(Nat), NEW X \in Seq(Message), NEW m \in Message, Partial(r, X)
  PROVE  X \o <<m>> \in Seq(Message) /\ Partial(r, X \o <<m>>)
<1>0. <<m>> \in Seq(Message) /\ <<>> \in Seq(Message) /\ X \o <<m>> \in Seq(Message)
  <2>1. <<m>> \in Seq(Message)
    BY SingleType
  <2> QED
    BY <2>1, EmptySeq, ConcatProperties
<1>1. CASE X = <<>> /\ r = <<>>
  <2>1. X \o <<m>> = <<m>> \o <<>>
    BY <1>0, <1>1, EmptyJoins
  <2>2. Framed(m) \in Seq(Nat) /\ Len(Framed(m)) >= 1
    BY FramedType
  <2>3. Framed(m) = r \o Framed(m) /\ Framed(m) # <<>>
    BY <1>1, <2>2, EmptyJoins
  <2> QED
    BY <1>0, <2>1, <2>2, <2>3, Zenon DEF Partial
<1>2. ASSUME NEW l \in Message, NEW Y \in Seq(Message), NEW z \in Seq(Nat),
             X = <<l>> \o Y, Framed(l) = r \o z, z # <<>>
      PROVE  Partial(r, X \o <<m>>)
  <2>1. <<l>> \in Seq(Message)
    BY SingleType
  <2>2. Associates(Message, <<l>>, Y, <<m>>) /\ Joins(Message, Y, <<m>>)
    BY <1>0, <2>1, Associating, Joining
  <2>3. X \o <<m>> = <<l>> \o (Y \o <<m>>) /\ Y \o <<m>> \in Seq(Message)
    BY <1>2, <2>2, Zenon DEF Associates, Joins
  <2> QED
    BY <1>2, <2>3, Zenon DEF Partial
<1> QED
  BY <1>0, <1>1, <1>2 DEF Partial

\* Bytes that agree with a stream end in a frame of it or after it.
LEMMA CutStream ==
  ASSUME NEW W \in Seq(Message), NEW c \in Seq(Nat), Compatible(c, StreamOf(W))
  PROVE  Within(W, c) \/ Beyond(W, c)
<1> DEFINE Good(U) == Compatible(c, StreamOf(U)) => Within(U, c) \/ Beyond(U, c)
           S == {n \in Nat : \A U \in Seq(Message) : Len(U) = n => Good(U)}
<1>0. <<>> \in Seq(Message) /\ <<>> \in Seq(Nat)
  BY EmptySeq
<1>1. 0 \in S
  <2> SUFFICES ASSUME NEW U \in Seq(Message), Len(U) = 0 PROVE Within(U, c) \/ Beyond(U, c)
    OBVIOUS
  <2>1. U = <<>> /\ StreamOf(<<>>) = <<>> /\ <<>> \o c = c
    BY EmptyJoins, StreamEmpty
  <2>2. <<>> = <<>> \o <<>>
    BY <1>0, EmptyJoins
  <2>3. CASE c = <<>>
    <3>1. Partial(c, <<>>)
      BY <2>3, Zenon DEF Partial
    <3>2. U = <<>> \o <<>> /\ c = StreamOf(<<>>) \o c
      BY <2>1, <2>2, Zenon
    <3> QED
      BY <1>0, <3>1, <3>2, Zenon DEF Within
  <2>4. CASE c # <<>>
    <3>1. c = StreamOf(U) \o c
      BY <2>1, Zenon
    <3> QED
      BY <2>4, <3>1, Zenon DEF Beyond
  <2> QED
    BY <2>3, <2>4
<1>2. ASSUME NEW n \in Nat, n \in S PROVE n + 1 \in S
  <2> SUFFICES ASSUME NEW U \in Seq(Message), Len(U) = n + 1, Compatible(c, StreamOf(U))
               PROVE  Within(U, c) \/ Beyond(U, c)
    OBVIOUS
  <2>1. PICK w \in Seq(Message), m \in Message : Len(w) = n /\ U = w \o <<m>>
    BY SplitLast
  <2>2. PICK x \in Seq(Nat), y \in Seq(Nat) : c \o x = StreamOf(U) \o y
    BY DEF Compatible
  <2> DEFINE F == Framed(m)
             p == StreamOf(w)
  <2>3. F \in Seq(Nat) /\ p \in Seq(Nat) /\ StreamOf(U) = p \o F
    BY <2>1, FramedType, StreamType, StreamOne
  <2> HIDE DEF F, p
  <2>4. c \o x = p \o (F \o y) /\ F \o y \in Seq(Nat)
    <3>1. Associates(Nat, p, F, y) /\ Joins(Nat, F, y)
      BY <2>3, Associating, Joining
    <3> QED
      BY <2>2, <2>3, <3>1, Zenon DEF Associates, Joins
  <2>5. Within(w, c) \/ Beyond(w, c)
    <3>1. Compatible(c, StreamOf(w))
      BY <2>4, Zenon DEF Compatible, p
    <3>2. Good(w)
      BY <1>2, <2>1
    <3> QED
      BY <3>1, <3>2, Zenon
  <2>6. ASSUME Within(w, c) PROVE Within(U, c)
    <3>1. PICK V \in Seq(Message), X \in Seq(Message), r \in Seq(Nat) :
               w = V \o X /\ c = StreamOf(V) \o r /\ Partial(r, X)
      BY <2>6, Zenon DEF Within
    <3>2. X \o <<m>> \in Seq(Message) /\ Partial(r, X \o <<m>>)
      BY <3>1, PartialMore
    <3>3. Associates(Message, V, X, <<m>>)
      BY SingleType, Associating
    <3>4. U = V \o (X \o <<m>>)
      BY <2>1, <3>1, <3>3, Zenon DEF Associates
    <3> QED
      BY <3>1, <3>2, <3>4, Zenon DEF Within
  <2>7. ASSUME Beyond(w, c) PROVE Within(U, c) \/ Beyond(U, c)
    <3>1. PICK r \in Seq(Nat) : r # <<>> /\ c = p \o r
      BY <2>7, Zenon DEF Beyond, p
    <3>2. r \o x = F \o y
      <4>1. Associates(Nat, p, r, x) /\ Joins(Nat, r, x)
        BY <2>3, <3>1, Associating, Joining
      <4>2. p \o (r \o x) = p \o (F \o y) /\ r \o x \in Seq(Nat)
        BY <2>4, <3>1, <4>1, Zenon DEF Associates, Joins
      <4>3. SameParts(Nat, p, r \o x, p, F \o y)
        BY <2>3, <2>4, <4>2, SameCut
      <4> QED
        BY <4>2, <4>3, Zenon DEF SameParts
    <3>3. ASSUME r = F PROVE Within(U, c)
      <4>1. c = StreamOf(U)
        BY <2>3, <3>1, <3>3
      <4>2. StreamOf(U) \o <<>> = StreamOf(U) /\ U \o <<>> = U
        BY StreamType, EmptyJoins
      <4>3. Partial(<<>>, <<>>)
        BY Zenon DEF Partial
      <4>4. U = U \o <<>> /\ c = StreamOf(U) \o <<>>
        BY <4>1, <4>2, Zenon
      <4> QED
        BY <1>0, <4>3, <4>4, Zenon DEF Within
    <3>4. CASE Len(r) <= Len(F)
      <4>1. CutBefore(Nat, r, x, F, y)
        BY <2>3, <3>1, TwoCuts
      <4>2. PICK z \in Seq(Nat) : F = r \o z
        BY <3>2, <3>4, <4>1, Zenon DEF CutBefore
      <4>3. CASE z = <<>>
        <5>1. r \o <<>> = r
          BY EmptyJoins
        <5> QED
          BY <3>3, <4>2, <4>3, <5>1, Zenon
      <4>4. CASE z # <<>>
        <5>1. <<m>> \in Seq(Message) /\ <<m>> \o <<>> = <<m>>
          BY SingleType, EmptyJoins
        <5>2. Partial(r, <<m>>)
          BY <1>0, <4>2, <4>4, <5>1, Zenon DEF Partial, F
        <5> QED
          BY <2>1, <3>1, <5>1, <5>2, Zenon DEF Within, p
      <4> QED
        BY <4>3, <4>4
    <3>5. CASE Len(F) <= Len(r)
      <4>1. CutBefore(Nat, F, y, r, x)
        BY <2>3, <3>1, TwoCuts
      <4>2. PICK z \in Seq(Nat) : r = F \o z
        BY <3>2, <3>5, <4>1, Zenon DEF CutBefore
      <4>3. CASE z = <<>>
        <5>1. F \o <<>> = F
          BY <2>3, EmptyJoins
        <5> QED
          BY <3>3, <4>2, <4>3, <5>1, Zenon
      <4>4. CASE z # <<>>
        <5>1. Associates(Nat, p, F, z)
          BY <2>3, Associating
        <5>2. c = StreamOf(U) \o z
          BY <2>3, <3>1, <4>2, <5>1, Zenon DEF Associates
        <5> QED
          BY <4>4, <5>2, Zenon DEF Beyond
      <4> QED
        BY <4>3, <4>4
    <3>6. Len(r) \in Nat /\ Len(F) \in Nat
      BY <2>3, LenProperties
    <3> QED
      BY <3>4, <3>5, <3>6
  <2> QED
    BY <2>5, <2>6, <2>7
<1>3. \A n \in Nat : n \in S
  <2> HIDE DEF S
  <2> QED
    BY <1>1, <1>2, SetInduction
<1>4. Len(W) \in Nat
  BY LenProperties
<1> QED
  BY <1>3, <1>4

-----------------------------------------------------------------------------
(* store_and_decoded_data.                                                 *)

\* The bytes of the data that complete the header.
Take(old, data) == IF DecodeSize(old).used > 0 THEN 0
                   ELSE Least((MaxEncodedSize - Len(old)) % Usize, Len(data))

\* The rest of store_and_decoded_data, with the header completed.
Finish(head, rest) ==
    LET h == DecodeSize(head)
        missing == (h.size - (Len(head) - h.used)) % Usize
    IN  IF h.used = 0 THEN [stored |-> head, done |-> FALSE, message |-> <<>>, rest |-> <<>>]
        ELSE IF Len(rest) < missing
        THEN [stored |-> head \o rest, done |-> FALSE, message |-> <<>>, rest |-> <<>>]
        ELSE [stored |-> <<>>, done |-> TRUE, message |-> From(head \o SubSeq(rest, 1, missing), h.used + 1),
              rest |-> From(rest, missing + 1)]

LEMMA StoreFinishes ==
  ASSUME NEW old, NEW data
  PROVE  StoreAndDecode(old, data) =
             Finish(old \o SubSeq(data, 1, Take(old, data)), From(data, Take(old, data) + 1))
<1>1. CASE DecodeSize(old).used > 0
  BY <1>1, Zenon DEF StoreAndDecode, Finish, Take
<1>2. CASE ~(DecodeSize(old).used > 0)
  BY <1>2, Zenon DEF StoreAndDecode, Finish, Take
<1> QED
  BY <1>1, <1>2

LEMMA ModType ==
  ASSUME NEW a \in Int, NEW b \in Nat, b > 0
  PROVE  a % b \in Nat
OBVIOUS

\* Where a concatenation is cut.
LEMMA CutJoined ==
  ASSUME NEW T, NEW a \in Seq(T), NEW b \in Seq(T)
  PROVE  SubSeq(a \o b, 1, Len(a)) = a /\ From(a \o b, Len(a) + 1) = b
<1> DEFINE s == a \o b
           k == Len(a)
           p == SubSeq(s, 1, k)
           q == From(s, k + 1)
<1>1. s \in Seq(T) /\ k \in 0 .. Len(s)
  <2>1. Joins(T, a, b)
    BY Joining
  <2>2. s \in Seq(T) /\ Len(s) = k + Len(b) /\ k \in Nat /\ Len(b) \in Nat
    BY <2>1 DEF Joins
  <2> HIDE DEF s, k
  <2> QED
    BY <2>2
<1>2. CutsAt(T, s, k)
  <2> HIDE DEF s, k
  <2> QED
    BY <1>1, Cutting
<1>3. p \in Seq(T) /\ q \in Seq(T) /\ Len(p) = Len(a) /\ a \o b = p \o q
  BY <1>2, Zenon DEF CutsAt
<1> HIDE DEF p, q
<1>4. SameParts(T, a, b, p, q)
  BY <1>3, SameCut
<1>5. a = p /\ b = q
  BY <1>3, <1>4, Zenon DEF SameParts
<1> QED
  BY <1>5 DEF p, q

\* What is given back, of any data.
LEMMA FinishType ==
  ASSUME NEW head \in Seq(Nat), NEW rest \in Seq(Nat)
  PROVE  /\ Finish(head, rest).stored \in Seq(Nat) /\ Finish(head, rest).message \in Seq(Nat)
         /\ Finish(head, rest).rest \in Seq(Nat)
<1> DEFINE u == DecodeSize(head).used
           n == DecodeSize(head).size
           k == (n - (Len(head) - u)) % Usize
           body == head \o SubSeq(rest, 1, k)
<1>1. u \in 0 .. Len(head) /\ n \in Nat /\ Len(head) \in Nat /\ Len(rest) \in Nat /\ Usize \in Nat /\ Usize > 0
  BY DecodeType, LenProperties, DecoderAssumption
<1>2. k \in Nat
  <2>1. n - (Len(head) - u) \in Int
    BY <1>1
  <2> QED
    BY <1>1, <2>1, ModType
<1>3. /\ <<>> \in Seq(Nat) /\ head \o rest \in Seq(Nat)
  BY EmptySeq, ConcatProperties
<1>4. CASE u = 0
  <2>1. Finish(head, rest) = [stored |-> head, done |-> FALSE, message |-> <<>>, rest |-> <<>>]
    BY <1>4, Zenon DEF Finish
  <2> QED
    BY <1>3, <2>1
<1>5. CASE u # 0 /\ Len(rest) < k
  <2>1. Finish(head, rest) = [stored |-> head \o rest, done |-> FALSE, message |-> <<>>, rest |-> <<>>]
    BY <1>5, Zenon DEF Finish
  <2> QED
    BY <1>3, <2>1
<1>6. CASE u # 0 /\ ~(Len(rest) < k)
  <2>1. Finish(head, rest) =
          [stored |-> <<>>, done |-> TRUE, message |-> From(body, u + 1), rest |-> From(rest, k + 1)]
    BY <1>6, Zenon DEF Finish
  <2>2. CutsAt(Nat, rest, k)
    <3>1. k \in 0 .. Len(rest)
      <4> HIDE DEF k
      <4> QED
        BY <1>1, <1>2, <1>6
    <3> HIDE DEF k
    <3> QED
      BY <3>1, Cutting
  <2>3. From(rest, k + 1) \in Seq(Nat) /\ SubSeq(rest, 1, k) \in Seq(Nat)
    BY <2>2 DEF CutsAt
  <2>4. body \in Seq(Nat) /\ u \in 0 .. Len(body)
    <3> DEFINE w == SubSeq(rest, 1, k)
    <3>1. w \in Seq(Nat)
      BY <2>3
    <3> HIDE DEF w, u
    <3>2. Joins(Nat, head, w)
      BY <3>1, Joining
    <3>3. head \o w \in Seq(Nat) /\ Len(head \o w) = Len(head) + Len(w) /\ Len(w) \in Nat
      BY <3>2 DEF Joins
    <3>4. head \o w \in Seq(Nat) /\ u \in 0 .. Len(head \o w)
      BY <1>1, <3>3
    <3> QED
      BY <3>4 DEF w
  <2> HIDE DEF body, u
  <2>5. CutsAt(Nat, body, u)
    BY <2>4, Cutting
  <2>6. From(body, u + 1) \in Seq(Nat)
    BY <2>5 DEF CutsAt
  <2> QED
    BY <1>3, <2>1, <2>3, <2>6
<1> QED
  BY <1>4, <1>5, <1>6

LEMMA TakeType ==
  ASSUME NEW old \in Seq(Nat), NEW data \in Seq(Nat)
  PROVE  Take(old, data) \in 0 .. Len(data)
<1> DEFINE k == (MaxEncodedSize - Len(old)) % Usize
<1>1. Len(old) \in Nat /\ Len(data) \in Nat /\ MaxEncodedSize \in Nat /\ Usize \in Nat /\ Usize > 0
  BY LenProperties, DecoderAssumption
<1>2. k \in Nat
  <2>1. MaxEncodedSize - Len(old) \in Int
    BY <1>1
  <2> QED
    BY <1>1, <2>1, ModType
<1> HIDE DEF k
<1>3. Least(k, Len(data)) \in 0 .. Len(data)
  BY <1>1, <1>2 DEF Least
<1>4. Take(old, data) = IF DecodeSize(old).used > 0 THEN 0 ELSE Least(k, Len(data))
  BY Zenon DEF Take, k
<1> QED
  BY <1>1, <1>3, <1>4

LEMMA StoreType ==
  ASSUME NEW old \in Seq(Nat), NEW data \in Seq(Nat)
  PROVE  /\ StoreAndDecode(old, data).stored \in Seq(Nat) /\ StoreAndDecode(old, data).message \in Seq(Nat)
         /\ StoreAndDecode(old, data).rest \in Seq(Nat)
<1> DEFINE k == Take(old, data)
           p == SubSeq(data, 1, k)
           head == old \o p
           rest == From(data, k + 1)
<1>1. k \in 0 .. Len(data)
  BY TakeType
<1> HIDE DEF k
<1>2. CutsAt(Nat, data, k)
  BY <1>1, Cutting
<1>3. p \in Seq(Nat) /\ rest \in Seq(Nat)
  BY <1>2 DEF CutsAt
<1>4. StoreAndDecode(old, data) = Finish(head, rest)
  BY StoreFinishes, Zenon DEF k
<1> HIDE DEF p, rest
<1>5. head \in Seq(Nat)
  BY <1>3, ConcatProperties
<1> HIDE DEF head
<1> QED
  BY <1>3, <1>4, <1>5, FinishType

\* What r, of store_and_decoded_data, says of b, the bytes since the frame of m began.
Completes(r, m, b) ==
    \/ r.done = FALSE /\ r.stored = b /\ Len(b) < Len(Framed(m))
    \/ r.done = TRUE /\ r.message = m /\ r.rest \in Seq(Nat) /\ b = Framed(m) \o r.rest

\* The header is complete, and no more than the frame has been taken with it.
LEMMA FinishFrame ==
  ASSUME NEW m \in Message, NEW head \in Seq(Nat), NEW rest \in Seq(Nat),
         Compatible(head \o rest, Framed(m)),
         Len(head) >= Len(Header(m)), Len(head) <= Len(Framed(m))
  PROVE  Completes(Finish(head, rest), m, head \o rest)
<1> DEFINE e == Header(m)
           u == Len(e)
           n == Len(m)
           F == Framed(m)
<1>1. /\ m \in Seq(Nat) /\ n \in Nat /\ n < Usize /\ e \in Seq(Nat) /\ u \in Nat /\ u >= 1
      /\ F = e \o m /\ F \in Seq(Nat) /\ Len(F) = u + n
  BY FramedType
<1>2. PICK x \in Seq(Nat), y \in Seq(Nat) : (head \o rest) \o x = F \o y
  BY DEF Compatible
<1>3. PICK z \in Seq(Nat) : F = head \o z /\ rest \o x = z \o y
  <2>1. Associates(Nat, head, rest, x) /\ Joins(Nat, rest, x)
    BY Associating, Joining
  <2>2. head \o (rest \o x) = F \o y /\ rest \o x \in Seq(Nat) /\ Len(head) <= Len(F)
    BY <1>2, <2>1, Zenon DEF Associates, Joins
  <2> HIDE DEF F
  <2>3. CutBefore(Nat, head, rest \o x, F, y)
    BY <1>1, <2>2, TwoCuts
  <2> QED
    BY <2>2, <2>3, Zenon DEF CutBefore
<1>4. /\ DecodeSize(head) = [size |-> n, used |-> u]
      /\ Len(head) \in Nat /\ Len(z) \in Nat /\ u + n = Len(head) + Len(z)
  BY <1>3, HeaderOfPart
<1>5. DecodeSize(head).used = u /\ DecodeSize(head).size = n
  BY <1>4
<1>6. (n - (Len(head) - u)) % Usize = Len(z)
  <2> DEFINE a == Len(head)
             b == Len(z)
  <2>1. a \in Nat /\ b \in Nat /\ u + n = a + b /\ u <= a /\ Usize \in Nat
    BY <1>4, DecoderAssumption
  <2> HIDE DEF a, b, u, n
  <2>2. n - (a - u) = b /\ b < Usize
    BY <1>1, <2>1
  <2>3. b % Usize = b
    BY <2>1, <2>2, ModLess
  <2> QED
    BY <2>2, <2>3 DEF a, b
<1> HIDE DEF e, u, n, F
<1>7. Finish(head, rest) =
        IF u = 0 THEN [stored |-> head, done |-> FALSE, message |-> <<>>, rest |-> <<>>]
        ELSE IF Len(rest) < Len(z)
        THEN [stored |-> head \o rest, done |-> FALSE, message |-> <<>>, rest |-> <<>>]
        ELSE [stored |-> <<>>, done |-> TRUE, message |-> From(head \o SubSeq(rest, 1, Len(z)), u + 1),
              rest |-> From(rest, Len(z) + 1)]
  BY <1>5, <1>6, Zenon DEF Finish
<1>8. u # 0 /\ Len(rest) \in Nat
  BY <1>1, LenProperties
<1>9. CASE Len(rest) < Len(z)
  <2> DEFINE b == head \o rest
  <2>1. Finish(head, rest) = [stored |-> b, done |-> FALSE, message |-> <<>>, rest |-> <<>>]
    BY <1>7, <1>8, <1>9, Zenon
  <2>2. Len(b) < Len(F)
    <3>1. Len(b) = Len(head) + Len(rest)
      BY Joining DEF Joins
    <3> HIDE DEF b
    <3> QED
      BY <1>1, <1>4, <1>8, <1>9, <3>1
  <2> HIDE DEF b
  <2>3. Completes(Finish(head, rest), m, b)
    BY <2>1, <2>2 DEF Completes, F
  <2> QED
    BY <2>3 DEF b
<1>10. CASE ~(Len(rest) < Len(z))
  <2>1. PICK r \in Seq(Nat) : rest = z \o r
    <3>1. CutBefore(Nat, z, y, rest, x)
      BY TwoCuts
    <3>2. Len(z) <= Len(rest)
      BY <1>4, <1>8, <1>10
    <3>3. z \o y = rest \o x
      BY <1>3
    <3> QED
      BY <3>1, <3>2, <3>3, Zenon DEF CutBefore
  <2>2. SubSeq(rest, 1, Len(z)) = z /\ From(rest, Len(z) + 1) = r
    BY <2>1, CutJoined, Zenon
  <2>3. From(F, u + 1) = m
    BY <1>1, CutJoined, Zenon DEF u
  <2>4. Finish(head, rest) = [stored |-> <<>>, done |-> TRUE, message |-> m, rest |-> r]
    BY <1>3, <1>7, <1>8, <1>10, <2>2, <2>3, Zenon
  <2>5. head \o rest = F \o r
    <3>1. Associates(Nat, head, z, r)
      BY Associating
    <3> QED
      BY <1>3, <2>1, <3>1, Zenon DEF Associates
  <2> DEFINE b == head \o rest
             G == Finish(head, rest)
  <2> HIDE DEF b, G
  <2>6. G.done = TRUE /\ G.message = m /\ G.rest = r
    BY <2>4 DEF G
  <2>7. b = Framed(m) \o G.rest
    BY <2>5, <2>6, Zenon DEF b, F
  <2>8. Completes(G, m, b)
    BY <2>6, <2>7 DEF Completes
  <2> QED
    BY <2>8 DEF b, G
<1> QED
  BY <1>9, <1>10

\* A frame of which bytes are stored is completed, by nothing but its bytes.
LEMMA StoreFrame ==
  ASSUME NEW m \in Message, NEW s \in Seq(Nat), NEW z \in Seq(Nat), NEW c \in Seq(Nat),
         Framed(m) = s \o z, z # <<>>, s # <<>>, Compatible(s \o c, Framed(m))
  PROVE  Completes(StoreAndDecode(s, c), m, s \o c)
<1> DEFINE e == Header(m)
           u == Len(e)
           n == Len(m)
           F == Framed(m)
           k == Take(s, c)
           p == SubSeq(c, 1, k)
           head == s \o p
           rest == From(c, k + 1)
<1>1. /\ n \in Nat /\ n < Usize /\ IsHeader(e, n) /\ e \in Seq(Nat) /\ u \in Nat /\ u >= 1
      /\ u <= MaxEncodedSize /\ F \in Seq(Nat) /\ Len(F) = u + n
  BY FramedType
<1>2. u >= 2 => n >= Radix
  BY <1>1 DEF IsHeader
<1>3. /\ Len(s) < u => DecodeSize(s).used = 0
      /\ Len(s) >= u => DecodeSize(s) = [size |-> n, used |-> u]
      /\ Len(s) \in Nat /\ Len(z) \in Nat /\ u + n = Len(s) + Len(z)
  BY HeaderOfPart
<1>4. Len(s) >= 1 /\ Len(z) >= 1 /\ Len(c) \in Nat
  BY <1>3, EmptyJoins, LenProperties
<1>5. k \in 0 .. Len(c)
  BY TakeType
<1>6. StoreAndDecode(s, c) = Finish(head, rest)
  BY StoreFinishes, Zenon
<1> HIDE DEF e, F, k
<1>7. p \in Seq(Nat) /\ rest \in Seq(Nat) /\ Len(p) = k /\ Len(rest) = Len(c) - k /\ c = p \o rest
  <2>1. CutsAt(Nat, c, k)
    BY <1>5, Cutting
  <2> QED
    BY <2>1 DEF CutsAt
<1> HIDE DEF p, rest
<1>8. head \in Seq(Nat) /\ Len(head) = Len(s) + k /\ head \o rest = s \o c
  <2>1. Joins(Nat, s, p) /\ Associates(Nat, s, p, rest)
    BY <1>7, Joining, Associating
  <2>2. head \in Seq(Nat) /\ Len(head) = Len(s) + Len(p)
    BY <2>1 DEF Joins
  <2>3. head \o rest = s \o c
    BY <1>7, <2>1, Zenon DEF Associates
  <2> QED
    BY <1>7, <2>2, <2>3
<1> HIDE DEF head
<1>9. Compatible(head \o rest, Framed(m))
  BY <1>8
<1>10. CASE Len(head) >= u /\ Len(head) <= Len(F)
  <2>1. Completes(Finish(head, rest), m, head \o rest)
    BY <1>7, <1>8, <1>9, <1>10, FinishFrame DEF e, F
  <2> QED
    BY <1>6, <1>8, <2>1
<1>11. CASE Len(s) >= u
  <2>1. DecodeSize(s).used = u
    BY <1>3, <1>11
  <2>2. k = 0
    BY <1>1, <2>1 DEF Take, k
  <2>3. Len(head) >= u /\ Len(head) <= Len(F)
    <3> HIDE DEF u, n
    <3> QED
      BY <1>1, <1>3, <1>4, <1>8, <1>11, <2>2
  <2> QED
    BY <1>10, <2>3
<1>12. CASE Len(s) < u
  <2>1. k = Least(MaxEncodedSize - Len(s), Len(c))
    <3> DEFINE a == MaxEncodedSize - Len(s)
    <3>1. a \in Nat /\ a < Usize /\ Usize \in Nat
      <4> DEFINE l == Len(s)
      <4>1. /\ u \in Nat /\ u <= MaxEncodedSize /\ l \in Nat /\ l < u /\ l >= 1
            /\ MaxEncodedSize \in Nat /\ Usize \in Nat /\ Usize > MaxEncodedSize
        BY <1>1, <1>3, <1>4, <1>12, DecoderAssumption
      <4> HIDE DEF u, l
      <4>2. MaxEncodedSize - l \in Nat /\ MaxEncodedSize - l < Usize
        BY <4>1
      <4> QED
        BY <4>1, <4>2 DEF l
    <3>2. a % Usize = a
      <4> HIDE DEF a
      <4> QED
        BY <3>1, ModLess
    <3>3. ~(DecodeSize(s).used > 0)
      BY <1>3, <1>12
    <3> QED
      BY <3>2, <3>3, Zenon DEF Take, k
  <2>2. k <= MaxEncodedSize - Len(s) /\ (k = Len(c) \/ k = MaxEncodedSize - Len(s))
    BY <1>3, <1>4, <2>1, DecoderAssumption DEF Least
  <2>3. CASE Len(head) >= u
    <3>1. Len(head) <= Len(F)
      <4>1. n >= Radix
        <5> HIDE DEF u
        <5> QED
          BY <1>1, <1>2, <1>3, <1>4, <1>12
      <4> HIDE DEF u, n
      <4> QED
        BY <1>1, <1>3, <1>4, <1>5, <1>8, <1>12, <2>2, <4>1, DecoderAssumption
    <3> QED
      BY <1>10, <2>3, <3>1
  <2>4. CASE Len(head) < u
    <3>1. k = Len(c) /\ Len(rest) = 0
      <4> DEFINE l == Len(s)
                 q == Len(c)
      <4>1. /\ u \in Nat /\ u <= MaxEncodedSize /\ l \in Nat /\ q \in Nat /\ MaxEncodedSize \in Nat
            /\ k \in Nat /\ l + k < u /\ (k = q \/ k = MaxEncodedSize - l) /\ Len(rest) = q - k
        BY <1>1, <1>3, <1>4, <1>5, <1>7, <1>8, <2>2, <2>4, DecoderAssumption
      <4> HIDE DEF u, l, q
      <4>2. k = q /\ q - k = 0
        BY <4>1
      <4> QED
        BY <4>1, <4>2 DEF q
    <3>2. rest = <<>> /\ head \o <<>> = head
      BY <1>7, <1>8, <3>1, EmptyJoins
    <3>3. head = s \o c /\ Len(head) < Len(F)
      <4>1. head = s \o c
        BY <1>8, <3>2, Zenon
      <4>2. Len(head) < Len(F)
        <5> HIDE DEF u, n
        <5> QED
          BY <1>1, <1>3, <1>5, <1>8, <2>4
      <4> QED
        BY <4>1, <4>2
    <3>4. \E y \in Seq(Nat) : Framed(m) = head \o y
      <4>1. PICK x \in Seq(Nat), y \in Seq(Nat) : head \o x = F \o y
        BY <3>3 DEF Compatible, F
      <4>2. CutBefore(Nat, head, x, F, y)
        BY <1>1, <1>8, TwoCuts
      <4>3. Len(head) <= Len(F)
        BY <1>1, <1>3, <1>5, <1>8, <3>3
      <4> QED
        BY <4>1, <4>2, <4>3, Zenon DEF CutBefore, F
    <3>5. DecodeSize(head).used = 0
      BY <1>8, <2>4, <3>4, HeaderOfPart DEF e
    <3>6. Finish(head, rest) = [stored |-> head, done |-> FALSE, message |-> <<>>, rest |-> <<>>]
      BY <3>5, Zenon DEF Finish
    <3>7. Completes(Finish(head, rest), m, head)
      <4> DEFINE w == Finish(head, rest)
      <4>1. w.stored = head /\ w.done = FALSE
        BY <3>6
      <4> HIDE DEF w
      <4>2. Completes(w, m, head)
        BY <3>3, <4>1, Zenon DEF Completes, F
      <4> QED
        BY <4>2, Zenon DEF w
    <3> QED
      BY <1>6, <3>3, <3>7, Zenon
  <2> QED
    <3> HIDE DEF u
    <3> QED
      BY <1>1, <1>3, <1>5, <1>8, <2>3, <2>4
<1> QED
  <2> HIDE DEF u
  <2> QED
    BY <1>1, <1>3, <1>11, <1>12

-----------------------------------------------------------------------------
(* decode: what has been given to the callback and what is stored.         *)

\* The bytes b have been decoded to the messages o and the stored bytes s, where the
\* stream begins with the frames of U: b ends in a frame of U, of which s is the part
\* that there is, or after them.
DecodedOf(U, o, b, s) ==
    \/ /\ o \in Seq(Message) /\ b = StreamOf(o) \o s
       /\ \E X \in Seq(Message) : U = o \o X /\ Partial(s, X)
    \/ /\ \E X \in Seq(Seq(Nat)) : o = U \o X
       /\ \E y \in Seq(Nat) : b = StreamOf(U) \o y /\ y # <<>>

\* Nothing is stored.
LEMMA DecodeFresh ==
  ASSUME NEW V \in Seq(Message), NEW X \in Seq(Message), NEW c \in Seq(Nat), Compatible(c, StreamOf(X))
  PROVE  DecodedOf(V \o X, V \o TryDecode(c).out, StreamOf(V) \o c, TryDecode(c).stored)
<1>1. Within(X, c) \/ Beyond(X, c)
  BY CutStream
<1>2. /\ StreamOf(V) \in Seq(Nat) /\ StreamOf(X) \in Seq(Nat) /\ V \o X \in Seq(Message)
      /\ StreamOf(V \o X) = StreamOf(V) \o StreamOf(X)
  BY StreamType, StreamJoin
<1>3. ASSUME Within(X, c)
      PROVE  DecodedOf(V \o X, V \o TryDecode(c).out, StreamOf(V) \o c, TryDecode(c).stored)
  <2>1. PICK W \in Seq(Message), Y \in Seq(Message), r \in Seq(Nat) :
             X = W \o Y /\ c = StreamOf(W) \o r /\ Partial(r, Y)
    BY <1>3, Zenon DEF Within
  <2>2. TryDecode(r).stored = r /\ TryDecode(r).out = <<>>
    <3>1. CASE Y = <<>> /\ r = <<>>
      BY <3>1, TryNothing
    <3>2. ASSUME NEW m \in Message, NEW z \in Seq(Nat), Framed(m) = r \o z, z # <<>>
          PROVE  TryDecode(r).stored = r /\ TryDecode(r).out = <<>>
      BY <3>2, TryPart
    <3> QED
      BY <2>1, <3>1, <3>2, Zenon DEF Partial
  <2>3. TryDecode(c).stored = r /\ TryDecode(c).out = W \o <<>>
    <3>1. /\ TryDecode(StreamOf(W) \o r).stored = TryDecode(r).stored
          /\ TryDecode(StreamOf(W) \o r).out = W \o TryDecode(r).out
      BY TryStream
    <3> QED
      BY <2>1, <2>2, <3>1, Zenon
  <2>4. W \o <<>> = W /\ V \o W \in Seq(Message) /\ StreamOf(V \o W) = StreamOf(V) \o StreamOf(W)
    BY EmptyJoins, StreamJoin
  <2>5. Associates(Message, V, W, Y) /\ Associates(Nat, StreamOf(V), StreamOf(W), r)
    <3>1. StreamOf(W) \in Seq(Nat)
      BY StreamType
    <3> QED
      BY <1>2, <3>1, Associating
  <2>6. V \o X = (V \o W) \o Y /\ StreamOf(V) \o c = StreamOf(V \o W) \o r
    BY <2>1, <2>4, <2>5, Zenon DEF Associates
  <2>7. DecodedOf(V \o X, V \o W, StreamOf(V) \o c, r)
    BY <2>1, <2>4, <2>6, Zenon DEF DecodedOf
  <2> QED
    BY <2>3, <2>4, <2>7, Zenon
<1>4. ASSUME Beyond(X, c)
      PROVE  DecodedOf(V \o X, V \o TryDecode(c).out, StreamOf(V) \o c, TryDecode(c).stored)
  <2>1. PICK r \in Seq(Nat) : r # <<>> /\ c = StreamOf(X) \o r
    BY <1>4, Zenon DEF Beyond
  <2> DEFINE Y == TryDecode(r).out
  <2>2. Y \in Seq(Seq(Nat)) /\ V \in Seq(Seq(Nat)) /\ X \in Seq(Seq(Nat))
    BY TryType, MessagesAreBytes
  <2>3. TryDecode(c).out = X \o Y
    <3>1. TryDecode(StreamOf(X) \o r).out = X \o Y
      BY TryStream
    <3> QED
      BY <2>1, <3>1
  <2> HIDE DEF Y
  <2>4. Associates(Seq(Nat), V, X, Y) /\ Associates(Nat, StreamOf(V), StreamOf(X), r)
    BY <1>2, <2>2, Associating
  <2>5. V \o TryDecode(c).out = (V \o X) \o Y /\ StreamOf(V) \o c = StreamOf(V \o X) \o r
    BY <1>2, <2>1, <2>3, <2>4, Zenon DEF Associates
  <2> QED
    BY <2>1, <2>2, <2>5, Zenon DEF DecodedOf
<1> QED
  BY <1>1, <1>3, <1>4

\* What decode leaves stored of the data c when s was stored, and what it gives to the
\* callback.
StoredAfter(s, c) ==
    IF s = <<>> THEN TryDecode(c).stored
    ELSE IF StoreAndDecode(s, c).done THEN TryDecode(StoreAndDecode(s, c).rest).stored
    ELSE StoreAndDecode(s, c).stored

OutAfter(o, s, c) ==
    IF s = <<>> THEN o \o TryDecode(c).out
    ELSE IF StoreAndDecode(s, c).done
    THEN o \o <<StoreAndDecode(s, c).message>> \o TryDecode(StoreAndDecode(s, c).rest).out
    ELSE o

LEMMA DecodeIs ==
  ASSUME NEW c, Decode(c)
  PROVE  stored' = StoredAfter(stored, c) /\ out' = OutAfter(out, stored, c)
<1>1. CASE stored = <<>>
  BY <1>1, Zenon DEF Decode, StoredAfter, OutAfter
<1>2. CASE stored # <<>> /\ StoreAndDecode(stored, c).done
  BY <1>2, Zenon DEF Decode, StoredAfter, OutAfter
<1>3. CASE stored # <<>> /\ ~StoreAndDecode(stored, c).done
  BY <1>3, Zenon DEF Decode, StoredAfter, OutAfter
<1> QED
  BY <1>1, <1>2, <1>3

\* More is given to the callback, and nothing of it is taken back.
LEMMA OutGrows ==
  ASSUME NEW o \in Seq(Seq(Nat)), NEW s \in Seq(Nat), NEW c \in Seq(Nat)
  PROVE  /\ StoredAfter(s, c) \in Seq(Nat) /\ OutAfter(o, s, c) \in Seq(Seq(Nat))
         /\ \E Y \in Seq(Seq(Nat)) : OutAfter(o, s, c) = o \o Y
<1> DEFINE R == StoreAndDecode(s, c)
<1>0. <<>> \in Seq(Seq(Nat)) /\ o \o <<>> = o
  BY EmptyJoins
<1>1. R.stored \in Seq(Nat) /\ R.message \in Seq(Nat) /\ R.rest \in Seq(Nat)
  BY StoreType
<1>2. TryDecode(c).stored \in Seq(Nat) /\ TryDecode(c).out \in Seq(Seq(Nat))
  BY TryType
<1>3. TryDecode(R.rest).stored \in Seq(Nat) /\ TryDecode(R.rest).out \in Seq(Seq(Nat))
  BY <1>1, TryType
<1> DEFINE m == <<R.message>>
           d == TryDecode(R.rest).out
<1>4. m \in Seq(Seq(Nat))
  BY <1>1, SingleType
<1>5. StoredAfter(s, c) \in Seq(Nat)
  BY <1>1, <1>2, <1>3, Zenon DEF StoredAfter
<1>6. \E Y \in Seq(Seq(Nat)) : OutAfter(o, s, c) = o \o Y
  <2>1. CASE s = <<>>
    BY <1>2, <2>1, Zenon DEF OutAfter
  <2>2. CASE s # <<>> /\ R.done
    <3>1. OutAfter(o, s, c) = (o \o m) \o d
      BY <2>2, Zenon DEF OutAfter
    <3> HIDE DEF m, d
    <3>2. Associates(Seq(Nat), o, m, d) /\ Joins(Seq(Nat), m, d)
      BY <1>3, <1>4, Associating, Joining DEF d
    <3>3. OutAfter(o, s, c) = o \o (m \o d) /\ m \o d \in Seq(Seq(Nat))
      BY <3>1, <3>2, Zenon DEF Associates, Joins
    <3> QED
      BY <3>3
  <2>3. CASE s # <<>> /\ ~R.done
    <3>1. OutAfter(o, s, c) = o
      BY <2>3, Zenon DEF OutAfter
    <3> QED
      BY <1>0, <3>1, Zenon
  <2> QED
    BY <2>1, <2>2, <2>3
<1>7. PICK Y \in Seq(Seq(Nat)) : OutAfter(o, s, c) = o \o Y
  BY <1>6
<1>8. Joins(Seq(Nat), o, Y)
  BY Joining
<1> QED
  BY <1>5, <1>7, <1>8, Zenon DEF Joins

\* Bytes of a frame are stored.
LEMMA DecodeStored ==
  ASSUME NEW V \in Seq(Message), NEW m \in Message, NEW X \in Seq(Message),
         NEW s \in Seq(Nat), NEW z \in Seq(Nat), NEW c \in Seq(Nat),
         Framed(m) = s \o z, z # <<>>, s # <<>>, Compatible(s \o c, Framed(m) \o StreamOf(X))
  PROVE  DecodedOf(V \o (<<m>> \o X), OutAfter(V, s, c), StreamOf(V) \o (s \o c), StoredAfter(s, c))
<1> DEFINE F == Framed(m)
           R == StoreAndDecode(s, c)
           b == s \o c
           one == <<m>>
           p == StreamOf(X)
           g == StreamOf(V)
<1>1. /\ F \in Seq(Nat) /\ p \in Seq(Nat) /\ g \in Seq(Nat) /\ b \in Seq(Nat) /\ one \in Seq(Message)
      /\ Len(F) \in Nat /\ Len(b) \in Nat
  <2>1. b \in Seq(Nat) /\ one \in Seq(Message)
    BY ConcatProperties, SingleType
  <2> QED
    BY <2>1, FramedType, StreamType, LenProperties
<1>2. PICK x \in Seq(Nat), y \in Seq(Nat) : b \o x = (F \o p) \o y
  BY DEF Compatible
<1>3. V \o one \in Seq(Message) /\ StreamOf(V \o one) = g \o F
  BY StreamOne
<1>4. one \o X \in Seq(Message) /\ Associates(Message, V, one, X)
  <2> HIDE DEF one
  <2> QED
    BY <1>1, ConcatProperties, Associating
<1>5. DecodedOf(V \o (one \o X), OutAfter(V, s, c), g \o b, StoredAfter(s, c))
  <2> HIDE DEF F, b, one, p, g
  <2>1. b \o x = F \o (p \o y) /\ p \o y \in Seq(Nat)
    <3>1. Associates(Nat, F, p, y) /\ Joins(Nat, p, y)
      BY <1>1, Associating, Joining
    <3> QED
      BY <1>2, <3>1, Zenon DEF Associates, Joins
  <2>2. Completes(R, m, b)
    <3>1. Compatible(s \o c, Framed(m))
      BY <2>1, Zenon DEF Compatible, b, F
    <3> QED
      BY <3>1, StoreFrame DEF b
  <2>3. CASE R.done = FALSE /\ R.stored = b /\ Len(b) < Len(F)
    <3>1. StoredAfter(s, c) = b /\ OutAfter(V, s, c) = V
      BY <2>3, Zenon DEF StoredAfter, OutAfter
    <3>2. PICK w \in Seq(Nat) : F = b \o w
      <4>1. CutBefore(Nat, b, x, F, p \o y)
        BY <1>1, <2>1, TwoCuts
      <4>2. Len(b) <= Len(F)
        BY <1>1, <2>3
      <4> QED
        BY <2>1, <4>1, <4>2, Zenon DEF CutBefore
    <3>3. w # <<>>
      <4> SUFFICES ASSUME w = <<>> PROVE FALSE
        OBVIOUS
      <4>1. b \o <<>> = b
        BY <1>1, EmptyJoins
      <4>2. F = b
        BY <3>2, <4>1, Zenon
      <4> QED
        BY <1>1, <2>3, <4>2
    <3>4. Partial(b, one \o X)
      BY <3>2, <3>3, Zenon DEF Partial, one, F
    <3> QED
      BY <1>4, <3>1, <3>4, Zenon DEF DecodedOf, g
  <2>4. CASE R.done = TRUE /\ R.message = m /\ R.rest \in Seq(Nat) /\ b = F \o R.rest
    <3> DEFINE r == R.rest
    <3>1. /\ StoredAfter(s, c) = TryDecode(r).stored
          /\ OutAfter(V, s, c) = (V \o one) \o TryDecode(r).out
      BY <2>4, Zenon DEF StoredAfter, OutAfter, one
    <3>2. r \in Seq(Nat) /\ b = F \o r
      BY <2>4
    <3> HIDE DEF r
    <3>3. Compatible(r, p)
      <4>1. Associates(Nat, F, r, x) /\ Joins(Nat, r, x)
        BY <1>1, <3>2, Associating, Joining
      <4>2. F \o (r \o x) = F \o (p \o y) /\ r \o x \in Seq(Nat)
        BY <2>1, <3>2, <4>1, Zenon DEF Associates, Joins
      <4>3. SameParts(Nat, F, r \o x, F, p \o y)
        BY <1>1, <2>1, <4>2, SameCut
      <4>4. r \o x = p \o y
        BY <4>2, <4>3, Zenon DEF SameParts
      <4> QED
        BY <4>4, Zenon DEF Compatible
    <3>4. DecodedOf((V \o one) \o X, (V \o one) \o TryDecode(r).out, StreamOf(V \o one) \o r, TryDecode(r).stored)
      BY <1>3, <3>2, <3>3, DecodeFresh DEF p
    <3>5. StreamOf(V \o one) \o r = g \o b
      <4>1. Associates(Nat, g, F, r)
        BY <1>1, <3>2, Associating
      <4> QED
        BY <1>3, <3>2, <4>1, Zenon DEF Associates
    <3>6. (V \o one) \o X = V \o (one \o X)
      BY <1>4, Zenon DEF Associates
    <3> QED
      BY <3>1, <3>4, <3>5, <3>6, Zenon
  <2> QED
    BY <2>2, <2>3, <2>4, Zenon DEF Completes, F
<1> QED
  BY <1>5, Zenon

\* The bytes decoded stay decoded, as long as they agree with the stream.
LEMMA DecodeStep ==
  ASSUME NEW U \in Seq(Message), NEW o \in Seq(Seq(Nat)), NEW b \in Seq(Nat), NEW s \in Seq(Nat),
         NEW c \in Seq(Nat), DecodedOf(U, o, b, s), Compatible(b \o c, StreamOf(U))
  PROVE  DecodedOf(U, OutAfter(o, s, c), b \o c, StoredAfter(s, c))
<1>1. ASSUME o \in Seq(Message), b = StreamOf(o) \o s,
             NEW X \in Seq(Message), U = o \o X, Partial(s, X)
      PROVE  DecodedOf(U, OutAfter(o, s, c), b \o c, StoredAfter(s, c))
  <2> DEFINE g == StreamOf(o)
             p == StreamOf(X)
  <2>1. g \in Seq(Nat) /\ p \in Seq(Nat) /\ StreamOf(U) = g \o p /\ s \o c \in Seq(Nat)
    BY <1>1, StreamType, StreamJoin, ConcatProperties
  <2>2. b = g \o s
    BY <1>1
  <2> HIDE DEF g, p
  <2>3. b \o c = g \o (s \o c)
    <3>1. Associates(Nat, g, s, c)
      BY <2>1, Associating
    <3> QED
      BY <2>2, <3>1, Zenon DEF Associates
  <2>4. Compatible(s \o c, p)
    <3>1. PICK x \in Seq(Nat), y \in Seq(Nat) : (b \o c) \o x = StreamOf(U) \o y
      BY DEF Compatible
    <3> DEFINE d == s \o c
    <3>2. d \in Seq(Nat) /\ b \o c = g \o d
      BY <2>1, <2>3
    <3> HIDE DEF d
    <3>3. Associates(Nat, g, d, x) /\ Joins(Nat, d, x) /\ Associates(Nat, g, p, y) /\ Joins(Nat, p, y)
      BY <2>1, <3>2, Associating, Joining
    <3>4. g \o (d \o x) = g \o (p \o y) /\ d \o x \in Seq(Nat) /\ p \o y \in Seq(Nat)
      BY <2>1, <3>1, <3>2, <3>3, Zenon DEF Associates, Joins
    <3>5. SameParts(Nat, g, d \o x, g, p \o y)
      BY <2>1, <3>4, SameCut
    <3>6. d \o x = p \o y
      BY <3>4, <3>5, Zenon DEF SameParts
    <3> QED
      BY <3>6, Zenon DEF Compatible, d
  <2>5. CASE s = <<>>
    <3>1. s \o c = c
      BY <2>5, EmptyJoins
    <3>2. DecodedOf(o \o X, o \o TryDecode(c).out, StreamOf(o) \o c, TryDecode(c).stored)
      BY <1>1, <2>4, <3>1, DecodeFresh DEF p
    <3>3. OutAfter(o, s, c) = o \o TryDecode(c).out /\ StoredAfter(s, c) = TryDecode(c).stored
      BY <2>5, Zenon DEF OutAfter, StoredAfter
    <3> QED
      BY <1>1, <2>3, <3>1, <3>2, <3>3, Zenon DEF g
  <2>6. CASE s # <<>>
    <3>1. PICK m \in Message, Y \in Seq(Message), z \in Seq(Nat) :
               X = <<m>> \o Y /\ Framed(m) = s \o z /\ z # <<>>
      BY <1>1, <2>6, Zenon DEF Partial
    <3>2. p = Framed(m) \o StreamOf(Y)
      <4>1. <<m>> \in Seq(Message) /\ StreamOf(<<m>>) = Framed(m)
        BY StreamSingle
      <4>2. StreamOf(<<m>> \o Y) = StreamOf(<<m>>) \o StreamOf(Y)
        BY <4>1, StreamJoin
      <4> QED
        BY <3>1, <4>1, <4>2, Zenon DEF p
    <3>3. Compatible(s \o c, Framed(m) \o StreamOf(Y))
      BY <2>4, <3>2
    <3>4. DecodedOf(o \o (<<m>> \o Y), OutAfter(o, s, c), StreamOf(o) \o (s \o c), StoredAfter(s, c))
      BY <1>1, <2>6, <3>1, <3>3, DecodeStored
    <3> QED
      BY <1>1, <2>3, <3>1, <3>4, Zenon DEF g
  <2> QED
    BY <2>5, <2>6
<1>2. ASSUME NEW X \in Seq(Seq(Nat)), o = U \o X, NEW y \in Seq(Nat), b = StreamOf(U) \o y, y # <<>>
      PROVE  DecodedOf(U, OutAfter(o, s, c), b \o c, StoredAfter(s, c))
  <2>1. PICK Y \in Seq(Seq(Nat)) : OutAfter(o, s, c) = o \o Y
    BY OutGrows
  <2>2. U \in Seq(Seq(Nat)) /\ StreamOf(U) \in Seq(Nat)
    BY MessagesAreBytes, StreamType
  <2>3. Associates(Seq(Nat), U, X, Y) /\ Joins(Seq(Nat), X, Y)
    BY <2>2, Associating, Joining
  <2>4. OutAfter(o, s, c) = U \o (X \o Y) /\ X \o Y \in Seq(Seq(Nat))
    BY <1>2, <2>1, <2>3, Zenon DEF Associates, Joins
  <2>5. Associates(Nat, StreamOf(U), y, c) /\ Joins(Nat, y, c)
    BY <2>2, Associating, Joining
  <2>6. b \o c = StreamOf(U) \o (y \o c) /\ y \o c \in Seq(Nat)
    BY <1>2, <2>5, Zenon DEF Associates, Joins
  <2>7. y \o c # <<>>
    <3>1. Len(y \o c) = Len(y) + Len(c) /\ Len(y) \in Nat /\ Len(c) \in Nat
      BY <2>5 DEF Joins
    <3>2. Len(y) # 0 /\ Len(<<>>) = 0
      BY <1>2, EmptyJoins
    <3>3. Len(y \o c) # 0
      BY <3>1, <3>2
    <3> QED
      BY <3>2, <3>3, Zenon
  <2> QED
    BY <2>4, <2>6, <2>7, Zenon DEF DecodedOf
<1> QED
  BY <1>1, <1>2, Zenon DEF DecodedOf

-----------------------------------------------------------------------------
(* The messages before the first whose send was cut short.                 *)

Statuses == {"Sent", "ResourceNotFound", "SendAbort"}

CutsOf(st) == {k \in DOMAIN st : st[k] # "Sent"}

FirstOf(cut) == CHOOSE k \in cut : \A j \in cut : k <= j

UncutOf(st, ms) == IF CutsOf(st) = {} THEN ms ELSE SubSeq(ms, 1, FirstOf(CutsOf(st)) - 1)

LEMMA UncutIs == Uncut = UncutOf(status, messages)
BY Zenon DEF Uncut, UncutOf, CutsOf, FirstOf

LEMMA FirstIs ==
  ASSUME NEW cut, cut \subseteq Nat, cut # {}
  PROVE  FirstOf(cut) \in cut /\ \A j \in cut : FirstOf(cut) <= j
<1>1. \E k \in cut : \A j \in cut : k <= j
  BY LeastNatural
<1> QED
  BY <1>1 DEF FirstOf

LEMMA CutsType ==
  ASSUME NEW st \in Seq(Statuses)
  PROVE  /\ Len(st) \in Nat /\ CutsOf(st) \subseteq Nat /\ \A k \in CutsOf(st) : k \in 1 .. Len(st)
<1>1. Len(st) \in Nat /\ DOMAIN st = 1 .. Len(st)
  BY LenProperties
<1> QED
  BY <1>1 DEF CutsOf

LEMMA UncutType ==
  ASSUME NEW st \in Seq(Statuses), NEW ms \in Seq(Message), Len(st) <= Len(ms)
  PROVE  /\ UncutOf(st, ms) \in Seq(Message)
         /\ CutsOf(st) = {} => UncutOf(st, ms) = ms
         /\ CutsOf(st) # {} => /\ Len(UncutOf(st, ms)) = FirstOf(CutsOf(st)) - 1
                               /\ FirstOf(CutsOf(st)) \in 1 .. Len(st)
<1>1. CASE CutsOf(st) = {}
  BY <1>1 DEF UncutOf
<1>2. CASE CutsOf(st) # {}
  <2> DEFINE k == FirstOf(CutsOf(st))
  <2>1. k \in 1 .. Len(st) /\ Len(st) \in Nat
    BY <1>2, CutsType, FirstIs
  <2>2. k - 1 \in 0 .. Len(ms)
    BY <2>1, LenProperties
  <2> HIDE DEF k
  <2>3. CutsAt(Message, ms, k - 1)
    BY <2>2, Cutting
  <2>4. UncutOf(st, ms) = SubSeq(ms, 1, k - 1)
    BY <1>2 DEF UncutOf, k
  <2>5. SubSeq(ms, 1, k - 1) \in Seq(Message) /\ Len(SubSeq(ms, 1, k - 1)) = k - 1
    BY <2>3 DEF CutsAt
  <2> QED
    BY <1>2, <2>1, <2>4, <2>5 DEF k
<1> QED
  BY <1>1, <1>2

LEMMA ReturnSent ==
  ASSUME NEW st \in Seq(Statuses)
  PROVE  CutsOf(Append(st, "Sent")) = CutsOf(st)
<1> DEFINE t == Append(st, "Sent")
<1>1. "Sent" \in Statuses
  BY DEF Statuses
<1>2. /\ t \in Seq(Statuses) /\ Len(t) = Len(st) + 1 /\ Len(st) \in Nat /\ t[Len(st) + 1] = "Sent"
      /\ \A i \in 1 .. Len(st) : t[i] = st[i]
  BY <1>1, AppendProperties, LenProperties
<1> HIDE DEF t
<1>3. DOMAIN st = 1 .. Len(st) /\ DOMAIN t = 1 .. Len(st) + 1
  BY <1>2, LenProperties
<1>4. ASSUME NEW k \in CutsOf(t) PROVE k \in CutsOf(st)
  <2>1. k \in 1 .. Len(st) + 1 /\ t[k] # "Sent"
    BY <1>3 DEF CutsOf
  <2>2. k \in 1 .. Len(st)
    BY <1>2, <2>1
  <2> QED
    BY <1>2, <1>3, <2>1, <2>2 DEF CutsOf
<1>5. ASSUME NEW k \in CutsOf(st) PROVE k \in CutsOf(t)
  <2>1. k \in 1 .. Len(st) /\ st[k] # "Sent" /\ k \in 1 .. Len(st) + 1
    BY <1>2, <1>3 DEF CutsOf
  <2> QED
    BY <1>2, <1>3, <2>1 DEF CutsOf
<1>6. CutsOf(t) = CutsOf(st)
  BY <1>4, <1>5
<1> QED
  BY <1>6 DEF t

LEMMA ReturnCut ==
  ASSUME NEW st \in Seq(Statuses), NEW x \in Statuses, x # "Sent", NEW ms
  PROVE  /\ CutsOf(Append(st, x)) # {}
         /\ UncutOf(Append(st, x), ms) =
                IF CutsOf(st) = {} THEN SubSeq(ms, 1, Len(st)) ELSE UncutOf(st, ms)
<1> DEFINE t == Append(st, x)
           n == Len(st)
           k == FirstOf(CutsOf(t))
<1>2. /\ t \in Seq(Statuses) /\ Len(t) = n + 1 /\ n \in Nat /\ t[n + 1] = x
      /\ \A i \in 1 .. n : t[i] = st[i]
  BY AppendProperties, LenProperties
<1>3. DOMAIN st = 1 .. n
  BY LenProperties
<1> HIDE DEF t, n
<1>4. DOMAIN t = 1 .. n + 1
  BY <1>2, LenProperties
<1>5. ASSUME NEW i \in CutsOf(t) PROVE i \in CutsOf(st) \/ i = n + 1
  <2>1. i \in 1 .. n + 1 /\ t[i] # "Sent"
    BY <1>4 DEF CutsOf
  <2>2. CASE i \in 1 .. n
    BY <1>2, <1>3, <2>1, <2>2 DEF CutsOf
  <2> QED
    BY <1>2, <2>1, <2>2
<1>6. ASSUME NEW i \in CutsOf(st) PROVE i \in CutsOf(t)
  <2>1. i \in 1 .. n /\ st[i] # "Sent" /\ i \in 1 .. n + 1
    BY <1>2, <1>3 DEF CutsOf
  <2> QED
    BY <1>2, <1>4, <2>1 DEF CutsOf
<1>7. n + 1 \in CutsOf(t)
  BY <1>2, <1>4 DEF CutsOf
<1>8. k \in CutsOf(t) /\ \A j \in CutsOf(t) : k <= j
  <2>1. CutsOf(t) \subseteq Nat /\ CutsOf(t) # {}
    BY <1>2, <1>7, CutsType
  <2> QED
    BY <2>1, FirstIs
<1>9. UncutOf(t, ms) = SubSeq(ms, 1, k - 1)
  BY <1>7 DEF UncutOf
<1> HIDE DEF k
<1>10. CASE CutsOf(st) = {}
  <2>1. k = n + 1
    BY <1>5, <1>8, <1>10
  <2>2. k - 1 = n
    BY <1>2, <2>1
  <2> QED
    BY <1>7, <1>9, <1>10, <2>2, Zenon DEF t, n
<1>11. CASE CutsOf(st) # {}
  <2> DEFINE l == FirstOf(CutsOf(st))
  <2>1. CutsOf(st) \subseteq Nat /\ \A i \in CutsOf(st) : i \in 1 .. n
    BY CutsType DEF n
  <2>2. l \in CutsOf(st) /\ \A j \in CutsOf(st) : l <= j
    BY <1>11, <2>1, FirstIs
  <2>3. UncutOf(st, ms) = SubSeq(ms, 1, l - 1)
    BY <1>11 DEF UncutOf
  <2> HIDE DEF l
  <2>4. l \in 1 .. n /\ k <= l
    BY <1>6, <1>8, <2>1, <2>2
  <2>5. k \in CutsOf(st)
    <3>1. k # n + 1
      BY <1>2, <1>8, <2>4
    <3> QED
      BY <1>5, <1>8, <3>1
  <2>6. k = l
    <3>1. k \in Nat /\ l \in Nat /\ l <= k
      BY <2>1, <2>2, <2>5
    <3> QED
      BY <2>4, <3>1
  <2> QED
    BY <1>7, <1>9, <1>11, <2>3, <2>6, Zenon DEF t
<1> QED
  BY <1>10, <1>11

\* A concatenation begins as its first part does.
LEMMA FrontOfJoined ==
  ASSUME NEW T, NEW a \in Seq(T), NEW b \in Seq(T), NEW k \in 0 .. Len(a)
  PROVE  SubSeq(a \o b, 1, k) = SubSeq(a, 1, k)
<1> DEFINE p == SubSeq(a, 1, k)
           q == From(a, k + 1)
           s == q \o b
<1>1. p \in Seq(T) /\ q \in Seq(T) /\ Len(p) = k /\ a = p \o q
  <2>1. CutsAt(T, a, k)
    BY Cutting
  <2> QED
    BY <2>1 DEF CutsAt
<1> HIDE DEF p, q
<1>2. Associates(T, p, q, b) /\ Joins(T, q, b)
  BY <1>1, Associating, Joining
<1>3. a \o b = p \o s /\ s \in Seq(T)
  BY <1>1, <1>2, Zenon DEF Associates, Joins
<1> HIDE DEF s
<1>4. SubSeq(p \o s, 1, Len(p)) = p
  BY <1>1, <1>3, CutJoined
<1> QED
  BY <1>1, <1>3, <1>4, Zenon DEF p

LEMMA UncutMore ==
  ASSUME NEW st \in Seq(Statuses), CutsOf(st) # {}, NEW ms \in Seq(Message), Len(st) <= Len(ms),
         NEW m \in Message
  PROVE  UncutOf(st, ms \o <<m>>) = UncutOf(st, ms)
<1> DEFINE k == FirstOf(CutsOf(st)) - 1
           one == <<m>>
<1>1. k \in 0 .. Len(ms)
  <2>1. FirstOf(CutsOf(st)) \in 1 .. Len(st) /\ Len(st) \in Nat /\ Len(ms) \in Nat
    BY UncutType, LenProperties
  <2> QED
    BY <2>1
<1>2. one \in Seq(Message)
  BY SingleType
<1>3. UncutOf(st, ms) = SubSeq(ms, 1, k) /\ UncutOf(st, ms \o one) = SubSeq(ms \o one, 1, k)
  BY DEF UncutOf
<1> HIDE DEF k, one
<1>4. SubSeq(ms \o one, 1, k) = SubSeq(ms, 1, k)
  BY <1>1, <1>2, FrontOfJoined
<1> QED
  BY <1>3, <1>4 DEF one

-----------------------------------------------------------------------------
(* The inductive invariant.                                                *)

TypeOK ==
    /\ messages \in Seq(Message) /\ status \in Seq(Statuses) /\ total \in Nat
    /\ wire \in Seq(Nat) /\ Len(wire) <= Window /\ read \in Seq(Nat)
    /\ stored \in Seq(Nat) /\ out \in Seq(Seq(Nat))

\* A send runs or all have returned; the one that runs has not written all of its frame.
Counts ==
    /\ Len(status) = Len(messages) \/ Len(status) + 1 = Len(messages)
    /\ Sending => total < Len(Framed(messages[Len(messages)]))

\* What the socket has been given: the frames that were sent and the part of the one that
\* is being written, until a send is cut short.
Wired ==
    /\ CutsOf(status) = {} /\ ~Sending => read \o wire = StreamOf(messages)
    /\ CutsOf(status) = {} /\ Sending =>
           read \o wire = StreamOf(SubSeq(messages, 1, Len(status)))
                              \o SubSeq(Framed(messages[Len(messages)]), 1, total)
    /\ CutsOf(status) # {} => \E y \in Seq(Nat) : read \o wire = StreamOf(UncutOf(status, messages)) \o y

Decoded == DecodedOf(UncutOf(status, messages), out, read, stored)

IInv == TypeOK /\ Counts /\ Wired /\ Decoded

\* The payloads are messages.
LEMMA PayloadType ==
  ASSUME NEW n \in Sizes, NEW k \in Nat
  PROVE  Payload(n, k) \in Message
<1>1. n \in Nat /\ n < Usize /\ Len(EncodeSize(n)) <= MaxEncodedSize
  BY StreamAssumption
<1>2. 2 * Radix \in Nat /\ 2 * Radix > 0
  BY DecoderAssumption
<1>3. ASSUME NEW i \in 1 .. n PROVE (i + k) % (2 * Radix) \in Nat
  <2>1. i + k \in Int
    BY <1>1
  <2> QED
    BY <1>2, <2>1, ModType
<1>4. Payload(n, k) \in [1 .. n -> Nat]
  BY <1>3 DEF Payload
<1>5. Payload(n, k) \in Seq(Nat) /\ Len(Payload(n, k)) = n
  BY <1>1, <1>4
<1> QED
  BY <1>1, <1>5 DEF Message

\* The message whose send runs.
LEMMA SendingFacts ==
  ASSUME TypeOK, Counts, Sending
  PROVE  \E V \in Seq(Message), m \in Message :
             /\ messages = V \o <<m>> /\ messages[Len(messages)] = m /\ SubSeq(messages, 1, Len(status)) = V
             /\ Len(V) = Len(status) /\ total \in Nat /\ total < Len(Framed(m))
<1> DEFINE n == Len(status)
<1>1. n \in Nat /\ Len(messages) = n + 1 /\ messages \in Seq(Message)
  <2>1. Len(status) \in Nat /\ Len(messages) \in Nat
    BY LenProperties DEF TypeOK
  <2> QED
    BY <2>1 DEF TypeOK, Counts, Sending
<1> HIDE DEF n
<1>2. PICK V \in Seq(Message), m \in Message : Len(V) = n /\ messages = V \o <<m>>
  BY <1>1, SplitLast
<1> DEFINE one == <<m>>
<1>3. one \in Seq(Message) /\ Len(one) = 1 /\ one[1] = m /\ messages = V \o one
  BY <1>2, SingleType
<1> HIDE DEF one
<1>4. messages[Len(messages)] = m
  <2>1. Joins(Message, V, one)
    BY <1>3, Joining
  <2>2. \A i \in 1 .. Len(one) : messages[Len(V) + i] = one[i]
    BY <1>3, <2>1 DEF Joins
  <2>3. 1 \in 1 .. Len(one)
    BY <1>3
  <2> QED
    BY <1>1, <1>2, <1>3, <2>2, <2>3
<1>5. SubSeq(messages, 1, Len(V)) = V
  BY <1>3, CutJoined
<1> QED
  BY <1>2, <1>4, <1>5 DEF n, TypeOK, Counts

LEMMA InitInv == Init => IInv
<1> SUFFICES ASSUME Init PROVE IInv
  OBVIOUS
<1>1. <<>> \in Seq(Message) /\ <<>> \in Seq(Statuses) /\ <<>> \in Seq(Nat) /\ <<>> \in Seq(Seq(Nat)) /\ Len(<<>>) = 0
  BY EmptySeq
<1>2. TypeOK
  BY <1>1, StreamAssumption DEF Init, TypeOK
<1>3. Len(status) = 0 /\ Len(messages) = 0 /\ ~Sending
  BY <1>1 DEF Init, Sending
<1>4. Counts
  BY <1>3 DEF Counts
<1>5. CutsOf(status) = {}
  <2>1. status \in Seq(Statuses)
    BY <1>2 DEF TypeOK
  <2>2. \A k \in CutsOf(status) : k \in 1 .. Len(status)
    BY <2>1, CutsType
  <2>3. \A k \in CutsOf(status) : FALSE
    BY <1>3, <2>2
  <2> QED
    BY <2>3
<1>6. <<>> \o <<>> = <<>>
  BY <1>1, EmptyJoins
<1>7. Wired
  <2>1. read \o wire = StreamOf(messages)
    BY <1>6, StreamEmpty, Zenon DEF Init
  <2> QED
    BY <1>3, <1>5, <2>1 DEF Wired
<1>8. Decoded
  <2>1. UncutOf(status, messages) = <<>>
    BY <1>5 DEF Init, UncutOf
  <2>2. Partial(<<>>, <<>>)
    BY Zenon DEF Partial
  <2>3. DecodedOf(<<>>, <<>>, <<>>, <<>>)
    BY <1>1, <1>6, <2>2, StreamEmpty, Zenon DEF DecodedOf
  <2> QED
    BY <2>1, <2>3 DEF Init, Decoded
<1> QED
  BY <1>2, <1>4, <1>7, <1>8 DEF IInv

\* A message more is sent after the frames of the others.
LEMMA StartSendInv ==
  ASSUME IInv, NEW n \in Sizes, StartSend(n)
  PROVE  IInv'
<1> DEFINE m == Payload(n, Len(messages) + 1)
           one == <<m>>
<1>1. TypeOK /\ Counts /\ Wired /\ Decoded
  BY DEF IInv
<1>2. /\ messages \in Seq(Message) /\ status \in Seq(Statuses) /\ Len(messages) \in Nat /\ Len(status) \in Nat
  BY <1>1, LenProperties DEF TypeOK
<1>3. m \in Message
  <2>1. Len(messages) + 1 \in Nat
    BY <1>2
  <2> QED
    BY <2>1, PayloadType
<1>4. messages' = Append(messages, m)
  BY DEF StartSend
<1>5. ~Sending /\ total' = 0 /\ UNCHANGED <<status, wire, read, stored, out>>
  BY DEF StartSend
<1>6. Len(status) = Len(messages)
  BY <1>1, <1>2, <1>5 DEF Counts, Sending
<1> HIDE DEF m
<1>7. one \in Seq(Message) /\ Append(messages, m) = messages \o one
  BY <1>2, <1>3, SingleType, AppendIsConcat
<1>8. messages' = messages \o one
  BY <1>4, <1>7
<1>9. /\ messages' \in Seq(Message) /\ Len(messages') = Len(messages) + 1 /\ messages'[Len(messages')] = m
  BY <1>2, <1>3, <1>4, AppendProperties
<1>10. TypeOK'
  BY <1>1, <1>5, <1>9 DEF TypeOK
<1>11. Framed(m) \in Seq(Nat) /\ Len(Framed(m)) >= 1
  BY <1>3, FramedType
<1>12. Sending' /\ Counts'
  <2>1. Len(status') < Len(messages')
    BY <1>2, <1>5, <1>6, <1>9
  <2>2. Len(status') + 1 = Len(messages') /\ total' < Len(Framed(messages'[Len(messages')]))
    <3>1. 0 < Len(Framed(m))
      BY <1>11
    <3> QED
      BY <1>2, <1>5, <1>6, <1>9, <3>1
  <2> QED
    BY <2>1, <2>2 DEF Sending, Counts
<1>13. SubSeq(messages', 1, Len(status')) = messages
  <2>1. SubSeq(messages \o one, 1, Len(messages)) = messages
    BY <1>2, <1>7, CutJoined
  <2> QED
    BY <1>5, <1>6, <1>8, <2>1
<1>14. CASE CutsOf(status) = {}
  <2>1. read \o wire = StreamOf(messages) /\ CutsOf(status') = {}
    BY <1>1, <1>5, <1>14 DEF Wired
  <2>2. UncutOf(status, messages) = messages /\ UncutOf(status', messages') = messages'
    BY <1>14, <2>1 DEF UncutOf
  <2>3. Wired'
    <3>1. SubSeq(Framed(m), 1, 0) = <<>>
      <4>1. 0 \in 0 .. Len(Framed(m))
        BY <1>11
      <4>2. CutsAt(Nat, Framed(m), 0)
        BY <1>11, <4>1, Cutting
      <4> QED
        BY <4>2, EmptyJoins DEF CutsAt
    <3>2. StreamOf(messages) \o <<>> = StreamOf(messages)
      BY <1>2, StreamType, EmptyJoins
    <3>3. StreamOf(SubSeq(messages', 1, Len(status'))) \o SubSeq(Framed(messages'[Len(messages')]), 1, total')
            = StreamOf(messages)
      BY <1>5, <1>9, <1>13, <3>1, <3>2, Zenon
    <3>4. read' \o wire' = StreamOf(messages)
      BY <1>5, <2>1
    <3> QED
      BY <1>12, <2>1, <3>3, <3>4, Zenon DEF Wired
  <2>4. DecodedOf(messages, out, read, stored)
    BY <1>1, <2>2 DEF Decoded
  <2>5. ASSUME out \in Seq(Message), read = StreamOf(out) \o stored,
               NEW X \in Seq(Message), messages = out \o X, Partial(stored, X)
        PROVE  DecodedOf(messages', out, read, stored)
    <3>1. X \o one \in Seq(Message) /\ Partial(stored, X \o one)
      BY <1>1, <1>3, <2>5, PartialMore DEF TypeOK
    <3>2. Associates(Message, out, X, one)
      BY <1>7, <2>5, Associating
    <3>3. messages' = out \o (X \o one)
      BY <1>8, <2>5, <3>2, Zenon DEF Associates
    <3> QED
      BY <2>5, <3>1, <3>3, Zenon DEF DecodedOf
  <2>6. ASSUME NEW y \in Seq(Nat), read = StreamOf(messages) \o y, y # <<>> PROVE FALSE
    <3>1. StreamOf(messages) \in Seq(Nat) /\ read \in Seq(Nat) /\ wire \in Seq(Nat)
      BY <1>1, <1>2, StreamType DEF TypeOK
    <3>2. Joins(Nat, StreamOf(messages), y) /\ Joins(Nat, read, wire)
      BY <3>1, Joining
    <3>3. /\ Len(read) = Len(StreamOf(messages)) + Len(y) /\ Len(StreamOf(messages)) = Len(read) + Len(wire)
          /\ Len(y) \in Nat /\ Len(wire) \in Nat /\ Len(read) \in Nat /\ Len(StreamOf(messages)) \in Nat
      BY <2>1, <2>6, <3>2 DEF Joins
    <3>4. Len(y) # 0
      BY <2>6, EmptyJoins
    <3> QED
      BY <3>3, <3>4
  <2>7. DecodedOf(messages', out, read, stored)
    BY <2>4, <2>5, <2>6, Zenon DEF DecodedOf
  <2>8. Decoded'
    BY <1>5, <2>2, <2>7 DEF Decoded
  <2> QED
    BY <1>10, <1>12, <2>3, <2>8 DEF IInv
<1>15. CASE CutsOf(status) # {}
  <2>1. UncutOf(status', messages') = UncutOf(status, messages)
    BY <1>2, <1>3, <1>5, <1>6, <1>8, <1>15, UncutMore
  <2>2. Wired'
    <3>1. PICK y \in Seq(Nat) : read \o wire = StreamOf(UncutOf(status, messages)) \o y
      BY <1>1, <1>15 DEF Wired
    <3>2. read' \o wire' = StreamOf(UncutOf(status', messages')) \o y
      BY <1>5, <2>1, <3>1
    <3>3. CutsOf(status') # {}
      BY <1>5, <1>15
    <3> QED
      BY <3>2, <3>3, Zenon DEF Wired
  <2>3. Decoded'
    BY <1>1, <1>5, <2>1 DEF Decoded
  <2> QED
    BY <1>10, <1>12, <2>2, <2>3 DEF IInv
<1> QED
  BY <1>14, <1>15

\* The part that is written follows the part that was.
LEMMA NextPart ==
  ASSUME NEW F \in Seq(Nat), NEW t \in Nat, NEW n \in Nat, t + n <= Len(F)
  PROVE  /\ SubSeq(F, t + 1, t + n) \in Seq(Nat) /\ Len(SubSeq(F, t + 1, t + n)) = n
         /\ SubSeq(F, 1, t) \in Seq(Nat)
         /\ SubSeq(F, 1, t + n) = SubSeq(F, 1, t) \o SubSeq(F, t + 1, t + n)
<1> DEFINE k == t + n
           a == SubSeq(F, 1, k)
           b == From(F, k + 1)
           p == SubSeq(a, 1, t)
           q == From(a, t + 1)
<1>1. k \in 0 .. Len(F) /\ k \in Nat /\ t <= k
  BY LenProperties
<1> HIDE DEF k
<1>2. CutsAt(Nat, F, k)
  BY <1>1, Cutting
<1>3. a \in Seq(Nat) /\ b \in Seq(Nat) /\ Len(a) = k /\ F = a \o b
  BY <1>2 DEF CutsAt
<1> HIDE DEF a, b
<1>4. t \in 0 .. Len(a)
  BY <1>1, <1>3
<1>5. CutsAt(Nat, a, t)
  BY <1>3, <1>4, Cutting
<1>6. p \in Seq(Nat) /\ q \in Seq(Nat) /\ Len(p) = t /\ Len(q) = k - t /\ a = p \o q
  BY <1>3, <1>5 DEF CutsAt
<1> HIDE DEF p, q
<1>7. Len(p) + Len(q) = k /\ Len(q) = n
  BY <1>1, <1>6 DEF k
<1>8. SubSeq((p \o q) \o b, Len(p) + 1, Len(p) + Len(q)) = q
  BY <1>3, <1>6, Middle
<1>9. SubSeq(F, t + 1, t + n) = q
  <2>1. Len(p) + 1 = t + 1 /\ Len(p) + Len(q) = t + n /\ F = (p \o q) \o b
    BY <1>3, <1>6, <1>7
  <2> QED
    BY <1>8, <2>1, Zenon
<1>10. SubSeq(F, 1, t) = p
  <2>1. SubSeq(a \o b, 1, t) = SubSeq(a, 1, t)
    BY <1>3, <1>4, FrontOfJoined
  <2> QED
    BY <1>3, <2>1 DEF p
<1>11. SubSeq(F, 1, t + n) = p \o q
  BY <1>6 DEF a, k
<1> QED
  BY <1>6, <1>7, <1>9, <1>10, <1>11, Zenon

LEMMA WriteInv ==
  ASSUME IInv, Write
  PROVE  IInv'
<1>1. TypeOK /\ Counts /\ Wired /\ Decoded /\ Sending
  BY DEF IInv, Write
<1>2. PICK V \in Seq(Message), m \in Message :
             /\ messages = V \o <<m>> /\ messages[Len(messages)] = m /\ SubSeq(messages, 1, Len(status)) = V
             /\ Len(V) = Len(status) /\ total \in Nat /\ total < Len(Framed(m))
  BY <1>1, SendingFacts
<1> DEFINE F == Framed(m)
           n == Least(Window - Len(wire), Len(F) - total)
           q == SubSeq(F, total + 1, total + n)
           p == SubSeq(F, 1, total)
<1>3. /\ total' = total + n /\ wire' = wire \o q /\ UNCHANGED <<messages, read, stored, out>>
      /\ IF total + n = Len(F) THEN Return("Sent") ELSE UNCHANGED status
  BY <1>2, Zenon DEF Write
<1>4. /\ messages \in Seq(Message) /\ status \in Seq(Statuses) /\ Len(messages) \in Nat /\ Len(status) \in Nat
      /\ wire \in Seq(Nat) /\ Len(wire) \in Nat /\ Len(wire) <= Window /\ read \in Seq(Nat)
  BY <1>1, LenProperties DEF TypeOK
<1>5. F \in Seq(Nat) /\ Len(F) \in Nat /\ StreamOf(V) \in Seq(Nat) /\ StreamOf(messages) = StreamOf(V) \o F
  BY <1>2, FramedType, StreamType, StreamOne
<1> HIDE DEF F
<1>6. n \in Nat /\ n <= Window - Len(wire) /\ total + n <= Len(F)
  <2>1. Window \in Nat /\ total < Len(F)
    BY <1>2, StreamAssumption DEF F
  <2> QED
    BY <1>2, <1>4, <1>5, <2>1 DEF Least
<1> HIDE DEF n
<1>7. q \in Seq(Nat) /\ Len(q) = n /\ p \in Seq(Nat) /\ SubSeq(F, 1, total + n) = p \o q
  BY <1>2, <1>5, <1>6, NextPart
<1> HIDE DEF q, p
<1>8. wire' \in Seq(Nat) /\ Len(wire') <= Window
  <2>1. Joins(Nat, wire, q)
    BY <1>4, <1>7, Joining
  <2>2. wire' \in Seq(Nat) /\ Len(wire') = Len(wire) + Len(q)
    BY <1>3, <2>1 DEF Joins
  <2> QED
    BY <1>4, <1>6, <1>7, <2>2, StreamAssumption
<1>9. read' \o wire' = (read \o wire) \o q
  <2>1. Associates(Nat, read, wire, q)
    BY <1>4, <1>7, Associating
  <2> QED
    BY <1>3, <2>1, Zenon DEF Associates
<1>10. CutsOf(status) = {} => read' \o wire' = StreamOf(V) \o SubSeq(F, 1, total + n)
  <2> SUFFICES ASSUME CutsOf(status) = {} PROVE read' \o wire' = StreamOf(V) \o SubSeq(F, 1, total + n)
    OBVIOUS
  <2>1. read \o wire = StreamOf(V) \o p
    BY <1>1, <1>2, Zenon DEF Wired, F, p
  <2>2. Associates(Nat, StreamOf(V), p, q)
    BY <1>5, <1>7, Associating
  <2> QED
    BY <1>7, <1>9, <2>1, <2>2, Zenon DEF Associates
<1>11. CutsOf(status) # {} => \E y \in Seq(Nat) : read' \o wire' = StreamOf(UncutOf(status, messages)) \o y
  <2> SUFFICES ASSUME CutsOf(status) # {}
               PROVE  \E y \in Seq(Nat) : read' \o wire' = StreamOf(UncutOf(status, messages)) \o y
    OBVIOUS
  <2>1. PICK y \in Seq(Nat) : read \o wire = StreamOf(UncutOf(status, messages)) \o y
    BY <1>1 DEF Wired
  <2>2. StreamOf(UncutOf(status, messages)) \in Seq(Nat)
    <3>1. Len(status) <= Len(messages)
      BY <1>1, <1>4 DEF Counts
    <3>2. UncutOf(status, messages) \in Seq(Message)
      BY <1>4, <3>1, UncutType
    <3> QED
      BY <3>2, StreamType
  <2>3. Associates(Nat, StreamOf(UncutOf(status, messages)), y, q) /\ Joins(Nat, y, q)
    BY <1>7, <2>2, Associating, Joining
  <2> QED
    BY <1>9, <2>1, <2>3, Zenon DEF Associates, Joins
<1>12. CASE total + n = Len(F)
  <2>1. status' = Append(status, "Sent")
    BY <1>3, <1>12 DEF Return
  <2>2. status' \in Seq(Statuses) /\ Len(status') = Len(status) + 1 /\ "Sent" \in Statuses
    <3>1. "Sent" \in Statuses
      BY DEF Statuses
    <3> QED
      BY <1>4, <2>1, <3>1, AppendProperties
  <2>3. CutsOf(status') = CutsOf(status)
    BY <1>4, <2>1, ReturnSent
  <2>4. UncutOf(status', messages') = UncutOf(status, messages)
    BY <1>3, <2>3, Zenon DEF UncutOf
  <2>5. TypeOK'
    BY <1>1, <1>2, <1>3, <1>6, <1>8, <2>2 DEF TypeOK
  <2>6. Len(status') = Len(messages') /\ ~Sending'
    BY <1>1, <1>3, <1>4, <2>2 DEF Counts, Sending
  <2>7. Counts'
    BY <2>6 DEF Counts
  <2>8. SubSeq(F, 1, total + n) = F
    <3>1. SubSeq(F \o <<>>, 1, Len(F)) = F /\ F \o <<>> = F
      BY <1>5, EmptyJoins, CutJoined
    <3> QED
      BY <1>12, <3>1
  <2>9. Wired'
    <3>1. CutsOf(status) = {} => read' \o wire' = StreamOf(messages')
      BY <1>3, <1>5, <1>10, <2>8, Zenon
    <3> QED
      BY <1>11, <2>3, <2>4, <2>6, <3>1, Zenon DEF Wired
  <2>10. Decoded'
    BY <1>1, <1>3, <2>4 DEF Decoded
  <2> QED
    BY <2>5, <2>7, <2>9, <2>10 DEF IInv
<1>13. CASE total + n # Len(F)
  <2>1. status' = status
    BY <1>3, <1>13
  <2>2. UncutOf(status', messages') = UncutOf(status, messages) /\ Sending'
    BY <1>1, <1>3, <2>1 DEF Sending
  <2>3. TypeOK'
    BY <1>1, <1>2, <1>3, <1>6, <1>8, <2>1 DEF TypeOK
  <2>4. Counts'
    <3>1. total' < Len(Framed(messages'[Len(messages')]))
      <4>1. total + n < Len(F)
        BY <1>2, <1>5, <1>6, <1>13
      <4> QED
        BY <1>2, <1>3, <4>1 DEF F
    <3> QED
      BY <1>1, <1>3, <2>1, <3>1 DEF Counts
  <2>5. Wired'
    <3>1. CutsOf(status') = {} =>
            read' \o wire' = StreamOf(SubSeq(messages', 1, Len(status')))
                                 \o SubSeq(Framed(messages'[Len(messages')]), 1, total')
      BY <1>2, <1>3, <1>10, <2>1, Zenon DEF F
    <3> QED
      BY <1>11, <2>1, <2>2, <3>1, Zenon DEF Wired
  <2>6. Decoded'
    BY <1>1, <1>3, <2>2 DEF Decoded
  <2> QED
    BY <2>3, <2>4, <2>5, <2>6 DEF IInv
<1> QED
  BY <1>12, <1>13

\* A part of the first frame of X and a message more.
LEMMA PartialLess ==
  ASSUME NEW r \in Seq(Nat), NEW X \in Seq(Message), NEW m \in Message, Partial(r, X \o <<m>>)
  PROVE  Partial(r, X) \/ (X = <<>> /\ r # <<>>)
<1> DEFINE one == <<m>>
<1>0. one \in Seq(Message) /\ Len(one) = 1
  BY SingleType
<1>1. CASE X = <<>>
  <2>1. CASE r = <<>>
    BY <1>1, <2>1, Zenon DEF Partial
  <2> QED
    BY <1>1, <2>1
<1>2. CASE X # <<>>
  <2> HIDE DEF one
  <2>1. Joins(Message, X, one)
    BY <1>0, Joining
  <2>2. Len(X \o one) = Len(X) + 1 /\ Len(X) \in Nat /\ Len(X) >= 1 /\ X \o one # <<>>
    <3>1. Len(X \o one) = Len(X) + Len(one) /\ Len(X) \in Nat
      BY <2>1 DEF Joins
    <3>2. Len(X) # 0 /\ Len(<<>>) = 0
      BY <1>2, EmptyJoins
    <3>3. Len(X \o one) # 0
      BY <1>0, <3>1
    <3>4. X \o one # <<>>
      BY <3>2, <3>3, Zenon
    <3> QED
      BY <1>0, <3>1, <3>2, <3>4
  <2>3. PICK l \in Message, Y \in Seq(Message), z \in Seq(Nat) :
             X \o one = <<l>> \o Y /\ Framed(l) = r \o z /\ z # <<>>
    BY <2>2, Zenon DEF Partial, one
  <2> DEFINE f == <<l>>
  <2>4. f \in Seq(Message) /\ Len(f) = 1
    BY SingleType
  <2>5. f \o Y = X \o one
    BY <2>3
  <2> HIDE DEF f
  <2>6. CutBefore(Message, f, Y, X, one)
    BY <1>0, <2>4, TwoCuts
  <2>7. Len(f) <= Len(X)
    BY <2>2, <2>4
  <2>8. PICK W \in Seq(Message) : X = f \o W
    BY <2>5, <2>6, <2>7, Zenon DEF CutBefore
  <2> QED
    BY <2>3, <2>8, Zenon DEF Partial, f
<1> QED
  BY <1>1, <1>2

\* A send that is cut short leaves what was decoded of the frames before it.
LEMMA CutDecoded ==
  ASSUME NEW V \in Seq(Message), NEW m \in Message, NEW o \in Seq(Seq(Nat)), NEW b \in Seq(Nat),
         NEW s \in Seq(Nat), NEW w \in Seq(Nat), NEW p \in Seq(Nat),
         DecodedOf(V \o <<m>>, o, b, s), b \o w = StreamOf(V) \o p, Len(p) < Len(Framed(m))
  PROVE  DecodedOf(V, o, b, s)
<1> DEFINE one == <<m>>
           U == V \o one
           g == StreamOf(V)
           F == Framed(m)
<1>1. /\ one \in Seq(Message) /\ Len(one) = 1 /\ U \in Seq(Message) /\ StreamOf(U) = g \o F
      /\ g \in Seq(Nat) /\ F \in Seq(Nat)
  BY SingleType, StreamOne, StreamType, FramedType
<1>2. DecodedOf(U, o, b, s)
  OBVIOUS
<1> HIDE DEF one, U, g, F
\* The bytes read are fewer than those of the frames and the one that was cut.
<1>3. ASSUME NEW y \in Seq(Nat), b = StreamOf(U) \o y PROVE FALSE
  <2>1. Joins(Nat, g, F) /\ g \o F \in Seq(Nat) /\ Joins(Nat, b, w) /\ Joins(Nat, g, p)
    <3>1. Joins(Nat, g, F) /\ Joins(Nat, b, w) /\ Joins(Nat, g, p)
      BY <1>1, Joining
    <3> QED
      BY <3>1 DEF Joins
  <2>2. Joins(Nat, g \o F, y)
    BY <2>1, Joining
  <2>3. /\ Len(b) = Len(g \o F) + Len(y) /\ Len(g \o F) = Len(g) + Len(F)
        /\ Len(b \o w) = Len(b) + Len(w) /\ Len(g \o p) = Len(g) + Len(p)
        /\ Len(g) \in Nat /\ Len(F) \in Nat /\ Len(y) \in Nat /\ Len(w) \in Nat /\ Len(p) \in Nat
    BY <1>1, <1>3, <2>1, <2>2 DEF Joins
  <2>4. Len(b \o w) = Len(g \o p) /\ Len(p) < Len(F)
    BY DEF g, F
  <2> QED
    BY <2>3, <2>4
<1>4. ASSUME o \in Seq(Message), b = StreamOf(o) \o s, NEW X \in Seq(Message), U = o \o X, Partial(s, X)
      PROVE  DecodedOf(V, o, b, s)
  <2>1. CASE X = <<>>
    <3>1. o \o <<>> = o
      BY EmptyJoins
    <3>2. b = StreamOf(U) \o s
      BY <1>4, <2>1, <3>1, Zenon
    <3> QED
      BY <1>3, <3>2
  <2>2. CASE X # <<>>
    <3>1. Len(X) \in Nat /\ Len(X) # 0 /\ Len(X) - 1 \in Nat /\ Len(X) = (Len(X) - 1) + 1
      BY <2>2, EmptyJoins, LenProperties
    <3>2. PICK Y \in Seq(Message), l \in Message : Len(Y) = Len(X) - 1 /\ X = Y \o <<l>>
      BY <3>1, SplitLast
    <3> DEFINE k == <<l>>
    <3>3. k \in Seq(Message) /\ Len(k) = 1 /\ X = Y \o k
      BY <3>2, SingleType
    <3> HIDE DEF k
    <3>4. o \o Y \in Seq(Message) /\ V \o one = (o \o Y) \o k
      <4>1. Associates(Message, o, Y, k) /\ Joins(Message, o, Y)
        BY <1>4, <3>3, Associating, Joining
      <4> QED
        BY <1>4, <3>3, <4>1, Zenon DEF Associates, Joins, U
    <3>5. Len(V) = Len(o \o Y)
      <4> DEFINE d == o \o Y
      <4>1. d \in Seq(Message)
        BY <3>4
      <4> HIDE DEF d
      <4>2. Joins(Message, V, one) /\ Joins(Message, d, k)
        BY <1>1, <3>3, <4>1, Joining
      <4>3. /\ Len(V \o one) = Len(V) + 1 /\ Len(d \o k) = Len(d) + 1 /\ Len(V) \in Nat /\ Len(d) \in Nat
        BY <1>1, <3>3, <4>2 DEF Joins
      <4>4. V \o one = d \o k
        BY <3>4 DEF d
      <4>5. Len(V) = Len(d)
        BY <4>3, <4>4
      <4> QED
        BY <4>5 DEF d
    <3>6. V = o \o Y
      <4>1. SameParts(Message, V, one, o \o Y, k)
        BY <1>1, <3>3, <3>4, SameCut
      <4> QED
        BY <3>4, <3>5, <4>1, Zenon DEF SameParts
    <3>7. Partial(s, Y) \/ (Y = <<>> /\ s # <<>>)
      BY <1>4, <3>2, PartialLess
    <3>8. CASE Partial(s, Y)
      BY <1>4, <3>6, <3>8, Zenon DEF DecodedOf
    <3>9. CASE Y = <<>> /\ s # <<>>
      <4>1. o \o <<>> = o /\ V \o <<>> = V /\ <<>> \in Seq(Seq(Nat))
        BY EmptyJoins
      <4>2. o = V \o <<>> /\ b = StreamOf(V) \o s
        BY <1>4, <3>6, <3>9, <4>1, Zenon
      <4> QED
        BY <3>9, <4>1, <4>2, Zenon DEF DecodedOf
    <3> QED
      BY <3>7, <3>8, <3>9
  <2> QED
    BY <2>1, <2>2
<1> QED
  BY <1>2, <1>3, <1>4, Zenon DEF DecodedOf

\* A send that fails or gives up.
LEMMA ReturnInv ==
  ASSUME IInv, Sending, NEW x \in Statuses, x # "Sent", Return(x),
         UNCHANGED <<messages, total, wire, read, stored, out>>
  PROVE  IInv'
<1>1. TypeOK /\ Counts /\ Wired /\ Decoded
  BY DEF IInv
<1>2. PICK V \in Seq(Message), m \in Message :
             /\ messages = V \o <<m>> /\ messages[Len(messages)] = m /\ SubSeq(messages, 1, Len(status)) = V
             /\ Len(V) = Len(status) /\ total \in Nat /\ total < Len(Framed(m))
  BY <1>1, SendingFacts
<1>3. /\ messages \in Seq(Message) /\ status \in Seq(Statuses) /\ Len(messages) \in Nat /\ Len(status) \in Nat
      /\ wire \in Seq(Nat) /\ read \in Seq(Nat) /\ stored \in Seq(Nat) /\ out \in Seq(Seq(Nat))
  BY <1>1, LenProperties DEF TypeOK
<1>4. status' = Append(status, x)
  BY DEF Return
<1>5. status' \in Seq(Statuses) /\ Len(status') = Len(status) + 1
  BY <1>3, <1>4, AppendProperties
<1>6. TypeOK'
  BY <1>1, <1>5 DEF TypeOK
<1>7. Len(status') = Len(messages') /\ ~Sending'
  BY <1>1, <1>3, <1>5 DEF Counts, Sending
<1>8. Counts'
  BY <1>7 DEF Counts
<1>9. /\ CutsOf(status') # {}
      /\ UncutOf(status', messages) =
             IF CutsOf(status) = {} THEN SubSeq(messages, 1, Len(status)) ELSE UncutOf(status, messages)
  BY <1>3, <1>4, ReturnCut
<1>10. CASE CutsOf(status) = {}
  <2> DEFINE F == Framed(m)
             p == SubSeq(F, 1, total)
  <2>1. UncutOf(status', messages') = V /\ UncutOf(status, messages) = messages
    BY <1>2, <1>9, <1>10 DEF UncutOf
  <2>2. read \o wire = StreamOf(V) \o p
    BY <1>1, <1>2, <1>10, Zenon DEF Wired
  <2>3. p \in Seq(Nat) /\ Len(p) < Len(F)
    <3>1. F \in Seq(Nat) /\ total \in 0 .. Len(F)
      BY <1>2, FramedType
    <3> HIDE DEF F
    <3>2. CutsAt(Nat, F, total)
      BY <3>1, Cutting
    <3>3. total < Len(F)
      BY <1>2 DEF F
    <3> QED
      BY <3>2, <3>3 DEF CutsAt
  <2> HIDE DEF p
  <2>4. Wired'
    <3>1. read' \o wire' = StreamOf(UncutOf(status', messages')) \o p
      BY <2>1, <2>2
    <3> QED
      BY <1>9, <2>3, <3>1, Zenon DEF Wired
  <2>5. DecodedOf(V \o <<m>>, out, read, stored)
    BY <1>1, <1>2, <2>1 DEF Decoded
  <2>6. DecodedOf(V, out, read, stored)
    BY <1>3, <2>2, <2>3, <2>5, CutDecoded
  <2>7. Decoded'
    BY <2>1, <2>6 DEF Decoded
  <2> QED
    BY <1>6, <1>8, <2>4, <2>7 DEF IInv
<1>11. CASE CutsOf(status) # {}
  <2>1. UncutOf(status', messages') = UncutOf(status, messages)
    BY <1>9, <1>11
  <2>2. PICK y \in Seq(Nat) : read \o wire = StreamOf(UncutOf(status, messages)) \o y
    BY <1>1, <1>11 DEF Wired
  <2>3. read' \o wire' = StreamOf(UncutOf(status', messages')) \o y
    BY <2>1, <2>2
  <2>4. Wired'
    BY <1>9, <2>3, Zenon DEF Wired
  <2>5. Decoded'
    BY <1>1, <2>1 DEF Decoded
  <2> QED
    BY <1>6, <1>8, <2>4, <2>5 DEF IInv
<1> QED
  BY <1>10, <1>11

\* What the socket has been given agrees with the frames, as far as both go.
LEMMA GivenAgrees ==
  ASSUME TypeOK, Counts, Wired
  PROVE  Compatible(read \o wire, StreamOf(UncutOf(status, messages)))
<1>0. /\ messages \in Seq(Message) /\ status \in Seq(Statuses) /\ Len(messages) \in Nat /\ Len(status) \in Nat
      /\ wire \in Seq(Nat) /\ read \in Seq(Nat) /\ read \o wire \in Seq(Nat) /\ <<>> \in Seq(Nat)
  BY LenProperties, ConcatProperties, EmptySeq DEF TypeOK
<1>1. CASE CutsOf(status) = {} /\ ~Sending
  <2>1. read \o wire = StreamOf(UncutOf(status, messages))
    BY <1>1 DEF Wired, UncutOf
  <2> QED
    BY <1>0, <2>1, Zenon DEF Compatible
<1>2. CASE CutsOf(status) = {} /\ Sending
  <2>1. PICK V \in Seq(Message), m \in Message :
             /\ messages = V \o <<m>> /\ messages[Len(messages)] = m /\ SubSeq(messages, 1, Len(status)) = V
             /\ Len(V) = Len(status) /\ total \in Nat /\ total < Len(Framed(m))
    BY <1>2, SendingFacts
  <2> DEFINE F == Framed(m)
             p == SubSeq(F, 1, total)
             z == From(F, total + 1)
             g == StreamOf(V)
             b == read \o wire
  <2>2. UncutOf(status, messages) = messages
    BY <1>2 DEF UncutOf
  <2>3. g \in Seq(Nat) /\ F \in Seq(Nat) /\ StreamOf(messages) = g \o F
    BY <2>1, StreamType, FramedType, StreamOne
  <2>4. b = g \o p
    BY <1>2, <2>1, Zenon DEF Wired
  <2>5. total \in 0 .. Len(F)
    BY <2>1, FramedType
  <2> HIDE DEF F, g, b
  <2>6. CutsAt(Nat, F, total)
    BY <2>3, <2>5, Cutting
  <2>7. p \in Seq(Nat) /\ z \in Seq(Nat) /\ F = p \o z
    BY <2>6 DEF CutsAt
  <2> HIDE DEF p, z
  <2>8. Associates(Nat, g, p, z) /\ g \o F \in Seq(Nat)
    BY <2>3, <2>7, Associating, ConcatProperties
  <2>9. b \o z = g \o F
    BY <2>4, <2>7, <2>8, Zenon DEF Associates
  <2>10. (g \o F) \o <<>> = g \o F
    BY <2>8, EmptyJoins
  <2>11. b \o z = StreamOf(UncutOf(status, messages)) \o <<>>
    BY <2>2, <2>3, <2>9, <2>10, Zenon
  <2> QED
    BY <1>0, <2>7, <2>11, Zenon DEF Compatible, b
<1>3. CASE CutsOf(status) # {}
  <2>1. PICK y \in Seq(Nat) : read \o wire = StreamOf(UncutOf(status, messages)) \o y
    BY <1>3 DEF Wired
  <2>2. (read \o wire) \o <<>> = read \o wire
    BY <1>0, EmptyJoins
  <2>3. (read \o wire) \o <<>> = StreamOf(UncutOf(status, messages)) \o y
    BY <2>1, <2>2, Zenon
  <2> QED
    BY <1>0, <2>3, Zenon DEF Compatible
<1> QED
  BY <1>1, <1>2, <1>3

LEMMA ReceiveInv ==
  ASSUME IInv, NEW n \in 1 .. Window, Receive(n)
  PROVE  IInv'
<1> DEFINE c == SubSeq(wire, 1, n)
           w == From(wire, n + 1)
           U == UncutOf(status, messages)
<1>1. TypeOK /\ Counts /\ Wired /\ Decoded
  BY DEF IInv
<1>2. /\ messages \in Seq(Message) /\ status \in Seq(Statuses) /\ Len(messages) \in Nat /\ Len(status) \in Nat
      /\ wire \in Seq(Nat) /\ Len(wire) \in Nat /\ Len(wire) <= Window
      /\ read \in Seq(Nat) /\ stored \in Seq(Nat) /\ out \in Seq(Seq(Nat))
  BY <1>1, LenProperties DEF TypeOK
<1>3. /\ wire' = w /\ read' = read \o c /\ Decode(c) /\ n <= Len(wire)
      /\ UNCHANGED <<messages, total, writes, status, lost>>
  BY DEF Receive
<1>4. stored' = StoredAfter(stored, c) /\ out' = OutAfter(out, stored, c)
  BY <1>3, DecodeIs
<1>5. c \in Seq(Nat) /\ w \in Seq(Nat) /\ Len(w) = Len(wire) - n /\ wire = c \o w
  <2>1. n \in 0 .. Len(wire)
    BY <1>2, <1>3, StreamAssumption
  <2>2. CutsAt(Nat, wire, n)
    BY <1>2, <2>1, Cutting
  <2> QED
    BY <2>2 DEF CutsAt
<1> HIDE DEF c, w
<1>6. Joins(Nat, read, c) /\ Associates(Nat, read, c, w)
  BY <1>2, <1>5, Joining, Associating
<1>7. read' \in Seq(Nat) /\ read' \o wire' = read \o wire
  BY <1>3, <1>5, <1>6, Zenon DEF Joins, Associates
<1>8. stored' \in Seq(Nat) /\ out' \in Seq(Seq(Nat))
  BY <1>2, <1>4, <1>5, OutGrows
<1>9. Len(wire') <= Window
  BY <1>2, <1>3, <1>5, StreamAssumption
<1>10. TypeOK'
  BY <1>1, <1>3, <1>5, <1>7, <1>8, <1>9 DEF TypeOK
<1>11. Sending' = Sending
  BY <1>3 DEF Sending
<1>12. Counts'
  BY <1>1, <1>3, <1>11 DEF Counts
<1>13. Wired'
  BY <1>1, <1>3, <1>7, <1>11, Zenon DEF Wired
<1>14. U \in Seq(Message)
  <2>1. Len(status) <= Len(messages)
    BY <1>1, <1>2 DEF Counts
  <2> QED
    BY <1>2, <2>1, UncutType
<1>15. DecodedOf(U, out, read, stored)
  BY <1>1 DEF Decoded
<1>16. UncutOf(status', messages') = U
  BY <1>3
<1>17. Compatible(read \o wire, StreamOf(U))
  BY <1>1, GivenAgrees
<1> HIDE DEF U
<1>18. Compatible(read \o c, StreamOf(U))
  <2>1. PICK x \in Seq(Nat), y \in Seq(Nat) : (read \o wire) \o x = StreamOf(U) \o y
    BY <1>17 DEF Compatible
  <2> DEFINE d == read \o c
  <2>2. d \in Seq(Nat) /\ d \o w = read \o wire
    BY <1>3, <1>7
  <2> HIDE DEF d
  <2>3. Associates(Nat, d, w, x) /\ Joins(Nat, w, x)
    BY <1>5, <2>2, Associating, Joining
  <2>4. d \o (w \o x) = StreamOf(U) \o y /\ w \o x \in Seq(Nat)
    BY <2>1, <2>2, <2>3, Zenon DEF Associates, Joins
  <2> QED
    BY <2>4, Zenon DEF Compatible, d
<1>19. DecodedOf(U, OutAfter(out, stored, c), read \o c, StoredAfter(stored, c))
  BY <1>2, <1>5, <1>14, <1>15, <1>18, DecodeStep
<1>20. Decoded'
  BY <1>3, <1>4, <1>16, <1>19 DEF Decoded
<1> QED
  BY <1>10, <1>12, <1>13, <1>20 DEF IInv

\* Nothing of what the invariant is about changes.
LEMMA SameInv ==
  ASSUME IInv, UNCHANGED <<messages, total, status, wire, read, stored, out>>
  PROVE  IInv'
<1>1. TypeOK'
  BY DEF IInv, TypeOK
<1>2. Sending' = Sending
  BY DEF Sending
<1>3. Counts'
  BY <1>2 DEF IInv, Counts
<1>4. Wired'
  BY <1>2, Zenon DEF IInv, Wired
<1>5. Decoded'
  BY DEF IInv, Decoded
<1> QED
  BY <1>1, <1>3, <1>4, <1>5 DEF IInv

LEMMA NextInv == IInv /\ [Next]_vars => IInv'
<1> SUFFICES ASSUME IInv, [Next]_vars PROVE IInv'
  OBVIOUS
<1>1. ASSUME NEW n \in Sizes, StartSend(n) PROVE IInv'
  BY <1>1, StartSendInv
<1>2. CASE Write
  BY <1>2, WriteInv
<1>3. CASE WriteFails
  <2>1. "ResourceNotFound" \in Statuses /\ "ResourceNotFound" # "Sent"
    BY DEF Statuses
  <2>2. Sending /\ Return("ResourceNotFound") /\ UNCHANGED <<messages, total, wire, read, stored, out>>
    BY <1>3 DEF WriteFails
  <2> QED
    BY <2>1, <2>2, ReturnInv
<1>4. CASE SendAbort
  <2>1. "SendAbort" \in Statuses /\ "SendAbort" # "Sent"
    BY DEF Statuses
  <2>2. Sending /\ Return("SendAbort") /\ UNCHANGED <<messages, total, wire, read, stored, out>>
    BY <1>4 DEF SendAbort
  <2> QED
    BY <2>1, <2>2, ReturnInv
<1>5. ASSUME NEW n \in 1 .. Window, Receive(n) PROVE IInv'
  BY <1>5, ReceiveInv
<1>6. CASE Lose
  BY <1>6, SameInv DEF Lose
<1>7. CASE UNCHANGED vars
  BY <1>7, SameInv DEF vars
<1> QED
  BY <1>1, <1>2, <1>3, <1>4, <1>5, <1>6, <1>7 DEF Next

LEMMA Invariant == Spec => []IInv
BY InitInv, NextInv, PTL DEF Spec

-----------------------------------------------------------------------------
(* The theorems.                                                           *)

LEMMA PrefixJoined ==
  ASSUME NEW a \in Seq(Nat), NEW b \in Seq(Nat)
  PROVE  IsPrefix(a, a \o b)
<1>1. SubSeq(a \o b, 1, Len(a)) = a
  BY CutJoined
<1>2. Joins(Nat, a, b)
  BY Joining
<1>3. Len(a) <= Len(a \o b)
  <2>1. Len(a \o b) = Len(a) + Len(b) /\ Len(a) \in Nat /\ Len(b) \in Nat
    BY <1>2 DEF Joins
  <2> QED
    BY <2>1
<1> QED
  BY <1>1, <1>3 DEF IsPrefix

LEMMA AllOf ==
  ASSUME NEW T, NEW s \in Seq(T)
  PROVE  SubSeq(s, 1, Len(s)) = s
<1>1. <<>> \in Seq(T) /\ s \o <<>> = s
  BY EmptyJoins
<1>2. SubSeq(s \o <<>>, 1, Len(s)) = s
  BY <1>1, CutJoined
<1> QED
  BY <1>1, <1>2

LEMMA WiredIsWhole ==
  ASSUME TypeOK, Counts, Wired
  PROVE  SentIsWhole
<1> DEFINE U == UncutOf(status, messages)
           l == Len(status)
           n == Len(messages)
           done == SubSeq(U, 1, Least(l, Len(U)))
           part == IF Sending /\ Len(U) = n THEN SubSeq(Framed(messages[n]), 1, total) ELSE <<>>
           b == read \o wire
<1>1. /\ messages \in Seq(Message) /\ status \in Seq(Statuses) /\ n \in Nat /\ l \in Nat /\ l <= n
      /\ b \in Seq(Nat) /\ <<>> \in Seq(Nat)
  <2>1. /\ messages \in Seq(Message) /\ status \in Seq(Statuses) /\ n \in Nat /\ l \in Nat
        /\ b \in Seq(Nat) /\ <<>> \in Seq(Nat)
    BY LenProperties, ConcatProperties, EmptySeq DEF TypeOK
  <2>2. l <= n
    BY <2>1 DEF Counts
  <2> QED
    BY <2>1, <2>2
<1>2. /\ U \in Seq(Message) /\ (CutsOf(status) = {} => U = messages)
      /\ (CutsOf(status) # {} => Len(U) = FirstOf(CutsOf(status)) - 1 /\ FirstOf(CutsOf(status)) \in 1 .. l)
  BY <1>1, UncutType
<1> SUFFICES IsPrefix(StreamOf(done) \o part, b)
  BY UncutIs, Zenon DEF SentIsWhole
<1> HIDE DEF b
<1>3. SUFFICES \E y \in Seq(Nat) : b = (StreamOf(done) \o part) \o y /\ StreamOf(done) \o part \in Seq(Nat)
  BY <1>3, PrefixJoined
<1>4. CASE CutsOf(status) = {} /\ Sending
  <2>1. U = messages /\ Least(l, Len(U)) = l
    BY <1>1, <1>2, <1>4 DEF Least
  <2>2. part = SubSeq(Framed(messages[n]), 1, total) /\ done = SubSeq(messages, 1, l)
    BY <1>4, <2>1
  <2>3. b = StreamOf(done) \o part
    BY <1>4, <2>2, Zenon DEF Wired, b
  <2> HIDE DEF done, part
  <2>4. b \o <<>> = b
    BY <1>1, EmptyJoins
  <2> QED
    BY <1>1, <2>3, <2>4, Zenon
<1>5. CASE CutsOf(status) = {} /\ ~Sending
  <2>1. U = messages /\ Least(l, Len(U)) = Len(U)
    BY <1>1, <1>2, <1>5 DEF Least, Counts, Sending
  <2>2. done = messages /\ part = <<>>
    BY <1>1, <1>5, <2>1, AllOf
  <2>3. b = StreamOf(done)
    BY <1>5, <2>2 DEF Wired, b
  <2> HIDE DEF done, part
  <2>4. b \o <<>> = b
    BY <1>1, EmptyJoins
  <2> QED
    BY <1>1, <2>2, <2>3, <2>4, Zenon
<1>6. CASE CutsOf(status) # {}
  <2>1. Len(U) < l /\ Len(U) \in Nat
    BY <1>1, <1>2, <1>6
  <2>2. Least(l, Len(U)) = Len(U) /\ Len(U) # n
    BY <1>1, <2>1 DEF Least
  <2>3. done = U /\ part = <<>>
    <3>1. SubSeq(U, 1, Len(U)) = U
      BY <1>2, AllOf
    <3> QED
      BY <2>2, <3>1
  <2>4. PICK y \in Seq(Nat) : b = StreamOf(U) \o y
    BY <1>6 DEF Wired, b
  <2>5. StreamOf(U) \in Seq(Nat)
    BY <1>2, StreamType
  <2>6. StreamOf(U) \o <<>> = StreamOf(U)
    BY <2>5, EmptyJoins
  <2> HIDE DEF done, part, U
  <2> QED
    BY <2>3, <2>4, <2>5, <2>6, Zenon
<1> QED
  BY <1>4, <1>5, <1>6

\* Sent means that the whole frame is on the stream, in its place, for every size of the
\* messages and of the socket and every number of writes: what a partial write left is
\* written by the next turn of the loop of send, and nothing is written twice.
THEOREM SentWhole == Spec => []SentIsWhole
<1>1. IInv => SentIsWhole
  BY WiredIsWhole DEF IInv
<1> QED
  BY <1>1, Invariant, PTL

EndOf(U, k) == Len(StreamOf(SubSeq(U, 1, k)))

CompleteOf(U, b) == {k \in 0 .. Len(U) : EndOf(U, k) <= Len(b)}

\* The decoder has delivered the first n messages of U and has stored the bytes after them.
Delivered(U, o, b, s, n) ==
    /\ SubSeq(o, 1, Least(n, Len(o))) = SubSeq(U, 1, n)
    /\ Len(b) <= EndOf(U, Len(U)) => Len(o) = n /\ s = SubSeq(StreamOf(U), EndOf(U, n) + 1, Len(b))

LEMMA ChunkingIs ==
  ASSUME NEW U, U = Uncut, NEW n \in CompleteOf(U, read),
         \A k \in CompleteOf(U, read) : k \in Nat /\ k <= n,
         Delivered(U, out, read, stored, n)
  PROVE  ChunkingIrrelevant
<1> DEFINE c == CHOOSE k \in CompleteOf(U, read) : \A j \in CompleteOf(U, read) : j <= k
<1>1. c = n
  <2>1. c \in CompleteOf(U, read) /\ \A j \in CompleteOf(U, read) : j <= c
    OBVIOUS
  <2> HIDE DEF c
  <2>2. c \in Nat /\ n \in Nat /\ c <= n /\ n <= c
    BY <2>1
  <2> QED
    BY <2>2
<1>2. Delivered(U, out, read, stored, c)
  BY <1>1
<1> QED
  BY <1>2, Zenon DEF ChunkingIrrelevant, Delivered, CompleteOf, EndOf

LEMMA DecodedIsDelivered ==
  ASSUME NEW U \in Seq(Message), NEW o \in Seq(Seq(Nat)), NEW b \in Seq(Nat), NEW s \in Seq(Nat),
         DecodedOf(U, o, b, s)
  PROVE  \E n \in CompleteOf(U, b) :
             (\A k \in CompleteOf(U, b) : k \in Nat /\ k <= n) /\ Delivered(U, o, b, s, n)
<1>0. Len(U) \in Nat /\ Len(o) \in Nat /\ Len(b) \in Nat /\ Len(s) \in Nat
  BY LenProperties
<1>1. ASSUME o \in Seq(Message), b = StreamOf(o) \o s, NEW X \in Seq(Message), U = o \o X, Partial(s, X)
      PROVE  \E n \in CompleteOf(U, b) :
                 (\A k \in CompleteOf(U, b) : k \in Nat /\ k <= n) /\ Delivered(U, o, b, s, n)
  <2> DEFINE g == StreamOf(o)
             n == Len(o)
  <2>1. g \in Seq(Nat) /\ StreamOf(U) = g \o StreamOf(X) /\ StreamOf(X) \in Seq(Nat)
    BY <1>1, StreamType, StreamJoin
  <2>2. Len(b) = Len(g) + Len(s) /\ Len(g) \in Nat
    <3>1. Joins(Nat, g, s)
      BY <2>1, Joining
    <3> QED
      BY <1>1, <3>1 DEF Joins
  <2>3. n <= Len(U)
    <3>1. Joins(Message, o, X)
      BY <1>1, Joining
    <3>2. Len(U) = Len(o) + Len(X) /\ Len(X) \in Nat
      BY <1>1, <3>1 DEF Joins
    <3> QED
      BY <1>0, <3>2
  <2>4. SubSeq(U, 1, n) = o /\ EndOf(U, n) = Len(g) /\ SubSeq(o, 1, n) = o
    <3>1. SubSeq(U, 1, n) = o
      BY <1>1, CutJoined
    <3>2. SubSeq(o, 1, n) = o
      BY AllOf
    <3> QED
      BY <3>1, <3>2 DEF EndOf
  <2>5. n \in CompleteOf(U, b)
    BY <1>0, <2>2, <2>3, <2>4 DEF CompleteOf
  <2>6. ASSUME NEW k \in CompleteOf(U, b) PROVE k \in Nat /\ k <= n
    <3>1. k \in 0 .. Len(U) /\ EndOf(U, k) <= Len(b)
      BY DEF CompleteOf
    <3> SUFFICES ASSUME ~(k <= n) PROVE FALSE
      BY <1>0, <3>1
    <3>2. X # <<>>
      <4> SUFFICES ASSUME X = <<>> PROVE FALSE
        OBVIOUS
      <4>1. o \o <<>> = o
        BY EmptyJoins
      <4>2. U = o
        BY <1>1, <4>1
      <4> QED
        BY <1>0, <3>1, <4>2
    <3>3. PICK m \in Message, Y \in Seq(Message), z \in Seq(Nat) :
               X = <<m>> \o Y /\ Framed(m) = s \o z /\ z # <<>>
      BY <1>1, <3>2, Zenon DEF Partial
    <3> DEFINE p == o \o <<m>>
               A == SubSeq(U, 1, k)
               B == From(U, k + 1)
    <3>4. p \in Seq(Message) /\ StreamOf(p) = g \o Framed(m) /\ Len(p) = n + 1
      <4> DEFINE one == <<m>>
      <4>1. one \in Seq(Message) /\ Len(one) = 1
        BY SingleType
      <4> HIDE DEF one
      <4>2. Joins(Message, o, one)
        BY <1>1, <4>1, Joining
      <4>3. Len(o \o one) = Len(o) + 1
        BY <4>1, <4>2 DEF Joins
      <4> QED
        BY <1>1, <4>3, StreamOne DEF one
    <3>5. U = p \o Y
      <4>1. <<m>> \in Seq(Message)
        BY SingleType
      <4>2. Associates(Message, o, <<m>>, Y)
        BY <1>1, <4>1, Associating
      <4> QED
        BY <1>1, <3>3, <4>2, Zenon DEF Associates
    <3>6. A \in Seq(Message) /\ B \in Seq(Message) /\ Len(A) = k /\ U = A \o B
      <4>1. CutsAt(Message, U, k)
        BY <3>1, Cutting
      <4> QED
        BY <4>1 DEF CutsAt
    <3>7. Len(StreamOf(A)) <= Len(b)
      BY <3>1 DEF EndOf
    <3> HIDE DEF p, A, B
    <3>8. PICK Z \in Seq(Message) : A = p \o Z
      <4>1. CutBefore(Message, p, Y, A, B)
        BY <3>4, <3>6, TwoCuts
      <4>2. Len(p) <= Len(A)
        BY <1>0, <3>1, <3>4, <3>6
      <4>3. p \o Y = A \o B
        BY <3>5, <3>6
      <4> QED
        BY <4>1, <4>2, <4>3, Zenon DEF CutBefore
    <3>9. StreamOf(A) = StreamOf(p) \o StreamOf(Z) /\ StreamOf(p) \in Seq(Nat) /\ StreamOf(Z) \in Seq(Nat)
      BY <3>4, <3>8, StreamType, StreamJoin
    <3>10. /\ Len(StreamOf(A)) = Len(StreamOf(p)) + Len(StreamOf(Z)) /\ Len(StreamOf(Z)) \in Nat
      <4>1. Joins(Nat, StreamOf(p), StreamOf(Z))
        BY <3>9, Joining
      <4> QED
        BY <3>9, <4>1 DEF Joins
    <3>11. Len(StreamOf(p)) = Len(g) + Len(Framed(m)) /\ Framed(m) \in Seq(Nat)
      <4>1. Framed(m) \in Seq(Nat)
        BY FramedType
      <4>2. Joins(Nat, g, Framed(m))
        BY <2>1, <4>1, Joining
      <4> QED
        BY <3>4, <4>1, <4>2 DEF Joins
    <3>12. Len(Framed(m)) = Len(s) + Len(z) /\ Len(z) \in Nat /\ Len(z) # 0
      <4>1. Joins(Nat, s, z)
        BY Joining
      <4>2. Len(z) # 0
        BY <3>3, EmptyJoins
      <4> QED
        BY <3>3, <4>1, <4>2 DEF Joins
    <3> QED
      BY <1>0, <2>2, <3>7, <3>10, <3>11, <3>12
  <2>7. Delivered(U, o, b, s, n)
    <3>1. PICK r \in Seq(Nat) : StreamOf(X) = s \o r
      <4>1. CASE X = <<>> /\ s = <<>>
        <5>1. <<>> \o <<>> = <<>> /\ <<>> \in Seq(Nat)
          BY EmptyJoins
        <5> QED
          BY <4>1, <5>1, StreamEmpty, Zenon
      <4>2. ASSUME NEW m \in Message, NEW Y \in Seq(Message), NEW z \in Seq(Nat),
                   X = <<m>> \o Y, Framed(m) = s \o z
            PROVE  \E r \in Seq(Nat) : StreamOf(X) = s \o r
        <5>1. <<m>> \in Seq(Message) /\ StreamOf(<<m>>) = Framed(m)
          BY StreamSingle
        <5>2. StreamOf(<<m>> \o Y) = StreamOf(<<m>>) \o StreamOf(Y) /\ StreamOf(Y) \in Seq(Nat)
          BY <5>1, StreamJoin, StreamType
        <5>3. Associates(Nat, s, z, StreamOf(Y)) /\ Joins(Nat, z, StreamOf(Y))
          BY <5>2, Associating, Joining
        <5>4. StreamOf(X) = s \o (z \o StreamOf(Y)) /\ z \o StreamOf(Y) \in Seq(Nat)
          BY <4>2, <5>1, <5>2, <5>3, Zenon DEF Associates, Joins
        <5> QED
          BY <5>4
      <4> QED
        BY <1>1, <4>1, <4>2, Zenon DEF Partial
    <3>2. StreamOf(U) = (g \o s) \o r
      <4>1. Associates(Nat, g, s, r)
        BY <2>1, Associating
      <4> QED
        BY <2>1, <3>1, <4>1, Zenon DEF Associates
    <3>3. SubSeq((g \o s) \o r, Len(g) + 1, Len(g) + Len(s)) = s
      BY <2>1, Middle
    <3>4. s = SubSeq(StreamOf(U), EndOf(U, n) + 1, Len(b))
      BY <2>2, <2>4, <3>2, <3>3, Zenon
    <3>5. Least(n, Len(o)) = n
      BY <1>0 DEF Least
    <3>6. SubSeq(o, 1, Least(n, Len(o))) = SubSeq(U, 1, n)
      BY <2>4, <3>5
    <3> QED
      BY <3>4, <3>6 DEF Delivered
  <2> QED
    BY <2>5, <2>6, <2>7
<1>2. ASSUME NEW X \in Seq(Seq(Nat)), o = U \o X, NEW y \in Seq(Nat), b = StreamOf(U) \o y, y # <<>>
      PROVE  \E n \in CompleteOf(U, b) :
                 (\A k \in CompleteOf(U, b) : k \in Nat /\ k <= n) /\ Delivered(U, o, b, s, n)
  <2> DEFINE n == Len(U)
  <2>1. SubSeq(U, 1, n) = U
    BY AllOf
  <2>2. EndOf(U, n) = Len(StreamOf(U)) /\ StreamOf(U) \in Seq(Nat) /\ U \in Seq(Seq(Nat))
    BY <2>1, StreamType, MessagesAreBytes DEF EndOf
  <2>3. Len(b) = Len(StreamOf(U)) + Len(y) /\ Len(y) \in Nat /\ Len(StreamOf(U)) \in Nat /\ Len(y) # 0
    <3>1. Joins(Nat, StreamOf(U), y)
      BY <2>2, Joining
    <3>2. Len(y) # 0
      BY <1>2, EmptyJoins
    <3> QED
      BY <1>2, <3>1, <3>2 DEF Joins
  <2>4. n \in CompleteOf(U, b)
    BY <1>0, <2>2, <2>3 DEF CompleteOf
  <2>5. \A k \in CompleteOf(U, b) : k \in Nat /\ k <= n
    BY <1>0 DEF CompleteOf
  <2>6. SubSeq(o, 1, n) = U /\ n <= Len(o)
    <3>1. Joins(Seq(Nat), U, X)
      BY <2>2, Joining
    <3>2. Len(o) = n + Len(X) /\ Len(X) \in Nat
      BY <1>2, <3>1 DEF Joins
    <3>3. SubSeq(U \o X, 1, n) = U
      BY <2>2, CutJoined
    <3>4. n <= Len(o)
      BY <1>0, <3>2
    <3> QED
      BY <1>2, <3>3, <3>4
  <2>7. Delivered(U, o, b, s, n)
    <3>1. Least(n, Len(o)) = n
      BY <1>0, <2>6 DEF Least
    <3>2. SubSeq(o, 1, Least(n, Len(o))) = SubSeq(U, 1, n)
      BY <2>1, <2>6, <3>1
    <3>3. ~(Len(b) <= EndOf(U, n))
      BY <2>2, <2>3
    <3> QED
      BY <3>2, <3>3 DEF Delivered
  <2> QED
    BY <2>4, <2>5, <2>7
<1> QED
  BY <1>1, <1>2, Zenon DEF DecodedOf

\* Framing does not depend on how the stream is cut: for messages of every size a header
\* can tell, every way the socket takes them in parts and every way the reader gets them,
\* the decoder delivers exactly the messages whose last byte it was fed, each intact and in
\* order, and stores exactly the bytes after them.
THEOREM ChunksDoNotMatter == Spec => []ChunkingIrrelevant
<1>1. ASSUME IInv PROVE ChunkingIrrelevant
  <2> DEFINE U == UncutOf(status, messages)
  <2>1. /\ messages \in Seq(Message) /\ status \in Seq(Statuses) /\ Len(messages) \in Nat /\ Len(status) \in Nat
        /\ read \in Seq(Nat) /\ stored \in Seq(Nat) /\ out \in Seq(Seq(Nat))
    BY <1>1, LenProperties DEF IInv, TypeOK
  <2>2. U \in Seq(Message) /\ DecodedOf(U, out, read, stored) /\ U = Uncut
    <3>1. Len(status) <= Len(messages)
      BY <1>1, <2>1 DEF IInv, Counts
    <3>2. U \in Seq(Message)
      BY <2>1, <3>1, UncutType
    <3> QED
      BY <1>1, <3>2, UncutIs DEF IInv, Decoded
  <2> HIDE DEF U
  <2>3. PICK n \in CompleteOf(U, read) :
             (\A k \in CompleteOf(U, read) : k \in Nat /\ k <= n) /\ Delivered(U, out, read, stored, n)
    BY <2>1, <2>2, DecodedIsDelivered
  <2> QED
    BY <2>2, <2>3, ChunkingIs
<1>2. IInv => ChunkingIrrelevant
  BY <1>1
<1> QED
  BY <1>2, Invariant, PTL
===============
