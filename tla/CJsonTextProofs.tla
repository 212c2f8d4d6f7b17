-------------------------- MODULE CJsonTextProofs --------------------------
(***************************************************************************)
(* Theorems about what the parser of CJson makes of its text: what it      *)
(* writes for a string fits the block it has asked for, so it stays in its *)
(* buffers; and it accepts the texts that start with a JSON value, no      *)
(* other, and reads just that value.  On the way, the lemmas that          *)
(* CJsonTreeProofs needs: what a text says when its blanks are taken out,  *)
(* that a string is read as it would be written, and how far the text is   *)
(* read by each of the skips.                                              *)
(*                                                                         *)
(* Scan, Decode, Body, WithoutBlanks, StringEnd and JsonEnds are recursive *)
(* functions.  That they are what their definitions say (Recursion), and   *)
(* what they compute for every text, is proved by induction on the place   *)
(* in the text, as every set of numbers has a least one.                   *)
(***************************************************************************)
EXTENDS CJsonProofs

-----------------------------------------------------------------------------
(* Induction *)

(* What holds of a number as soon as it holds of all that are smaller,     *)
(* holds of every number.                                                  *)
LEMMA Upwards ==
  ASSUME NEW S \in SUBSET Nat,
         \A n \in Nat : (\A k \in Nat : k < n => k \in S) => n \in S
  PROVE  S = Nat
<1> SUFFICES ASSUME S # Nat
             PROVE  FALSE
  OBVIOUS
<1>1. Nat \ S \in SUBSET Nat /\ Nat \ S # {}
  OBVIOUS
<1> DEFINE n == Min(Nat \ S)
<1>2. n \in Nat \ S /\ \A k \in Nat \ S : n <= k
  BY <1>1, NatMin
<1> HIDE DEF n
<1>3. QED
  BY <1>2

(* What is true of every number above a bound, and of each number when it  *)
(* is of those above, is true of all.                                      *)
LEMMA Downwards ==
  ASSUME NEW S \in SUBSET Nat, NEW b \in Nat,
         \A j \in Nat : j > b => j \in S,
         \A j \in 0 .. b : (\A k \in Nat : k > j => k \in S) => j \in S
  PROVE  S = Nat
<1> SUFFICES ASSUME S # Nat
             PROVE  FALSE
  OBVIOUS
<1> DEFINE R == {b - j : j \in Nat \ S}
<1>1. R \in SUBSET Nat /\ R # {}
  <2>1. \A j \in Nat \ S : b - j \in Nat
    OBVIOUS
  <2>2. Nat \ S # {}
    OBVIOUS
  <2>3. QED
    BY <2>1, <2>2
<1>2. PICK r \in R : \A x \in R : r <= x
  BY <1>1, NatMin
<1>3. PICK j \in Nat \ S : r = b - j
  BY <1>2
<1>4. \A k \in Nat : k > j => k \in S
  <2>1. SUFFICES ASSUME NEW k \in Nat, k > j, k \notin S
                 PROVE  FALSE
    OBVIOUS
  <2>2. b - k \in R
    BY <2>1
  <2>3. r <= b - k
    BY <1>2, <2>2
  <2>4. QED
    BY <1>3, <2>1, <2>3
<1>5. j \in 0 .. b
  BY <1>3
<1>6. QED
  BY <1>3, <1>4, <1>5

(* The greatest of a bounded set of naturals is one of them.               *)
LEMMA NatMax ==
  ASSUME NEW S \in SUBSET Nat, S # {}, NEW b \in Nat, \A x \in S : x <= b
  PROVE  /\ Max(S) \in S
         /\ \A x \in S : x <= Max(S)
<1> DEFINE R == {b - x : x \in S}
<1>1. R \in SUBSET Nat /\ R # {}
  OBVIOUS
<1>2. PICK r \in R : \A y \in R : r <= y
  BY <1>1, NatMin
<1>3. PICK m \in S : r = b - m
  BY <1>2
<1>4. \A x \in S : m >= x
  <2>1. SUFFICES ASSUME NEW x \in S
                 PROVE  m >= x
    OBVIOUS
  <2>2. r <= b - x
    BY <1>2
  <2>3. QED
    BY <1>3, <2>2
<1>5. \E z \in S : \A x \in S : z >= x
  BY <1>4
<1>6. Max(S) \in S /\ \A x \in S : Max(S) >= x
  BY <1>5 DEF Max
<1>7. QED
  BY <1>6

(* A recursive function is well defined if its value at a place depends on *)
(* its values at places of a lower rank only: phi is what its definition   *)
(* makes of a function that is used in place of the recursive calls.       *)
WellDefined(phi, D, V, rank, bound) ==
  /\ V # {} /\ bound \in Nat
  /\ rank \in [D -> Nat] /\ \A x \in D : rank[x] <= bound
  /\ phi \in [[D -> V] -> [D -> V]]
  /\ \A g, h \in [D -> V] : \A x \in D :
       (\A y \in D : rank[y] < rank[x] => g[y] = h[y])
         => phi[g][x] = phi[h][x]

(* Then there is a function that its definition makes itself of.           *)
LEMMA Recursion ==
  ASSUME NEW D, NEW V, NEW rank, NEW bound, NEW phi,
         WellDefined(phi, D, V, rank, bound)
  PROVE  \E f \in [D -> V] : f = phi[f]
<1> DEFINE Good(n) == \E g \in [D -> V] :
                        \A x \in D : rank[x] < n => g[x] = phi[g][x]
           S == {n \in Nat : Good(n)}
<1> USE DEF WellDefined
<1>1. ASSUME NEW n \in Nat, \A k \in Nat : k < n => k \in S
      PROVE  n \in S
  <2>1. CASE n = 0
    <3>1. PICK g : g \in [D -> V]
      <4>1. PICK v : v \in V
        OBVIOUS
      <4>2. [x \in D |-> v] \in [D -> V]
        BY <4>1
      <4>3. QED
        BY <4>2
    <3>2. \A x \in D : ~(rank[x] < n)
      BY <2>1
    <3>3. QED
      BY <3>1, <3>2
  <2>2. CASE n # 0
    <3>1. n - 1 \in Nat /\ n - 1 < n
      BY <2>2
    <3>2. PICK g \in [D -> V] :
                 \A x \in D : rank[x] < n - 1 => g[x] = phi[g][x]
      BY <1>1, <3>1
    <3> DEFINE h == phi[g]
    <3>3. h \in [D -> V]
      OBVIOUS
    <3>4. \A x \in D : rank[x] < n => h[x] = phi[h][x]
      <4>1. SUFFICES ASSUME NEW x \in D, rank[x] < n
                     PROVE  phi[g][x] = phi[h][x]
        OBVIOUS
      <4>2. \A y \in D : rank[y] < rank[x] => g[y] = h[y]
        BY <3>1, <3>2, <4>1
      <4>3. QED
        BY <3>3, <4>2
    <3> HIDE DEF h
    <3>5. QED
      BY <3>3, <3>4
  <2>3. QED
    BY <2>1, <2>2
<1> HIDE DEF S
<1>2. S = Nat
  <2>1. S \in SUBSET Nat
    BY DEF S
  <2>2. QED
    BY <1>1, <2>1, Upwards
<1>3. bound + 1 \in S
  BY <1>2
<1>4. PICK g \in [D -> V] :
             \A x \in D : rank[x] < bound + 1 => g[x] = phi[g][x]
  BY <1>3 DEF S
<1>5. \A x \in D : g[x] = phi[g][x]
  BY <1>4
<1>6. g = phi[g]
  BY <1>5
<1>7. QED
  BY <1>6

-----------------------------------------------------------------------------
(* Bytes *)

(* How many units of a sequence are in a set.                              *)
HowMany(s, S) == Cardinality({i \in DOMAIN s : s[i] \in S})

(* How many there are with one unit more in front.                         *)
LEMMA CountFirst ==
  ASSUME NEW T, NEW s \in Seq(T), NEW u \in T, NEW S
  PROVE  /\ HowMany(s, S) \in Nat
         /\ HowMany(<<u>> \o s, S) = HowMany(s, S) + IF u \in S THEN 1 ELSE 0
<1> DEFINE t == <<u>> \o s
           c == {i \in DOMAIN s : s[i] \in S}
           d == {i \in DOMAIN t : t[i] \in S}
           e == {i \in d : i # 1}
           f == [i \in c |-> i + 1]
<1>1. DOMAIN s = 1 .. Len(s) /\ Len(s) \in Nat
  BY LenProperties
<1>2. <<u>> \in Seq(T) /\ Len(<<u>>) = 1 /\ <<u>>[1] = u
  OBVIOUS
<1>3. /\ t \in Seq(T) /\ Len(t) = Len(s) + 1
      /\ \A i \in 1 .. Len(s) + 1 : t[i] = IF i <= 1 THEN u ELSE s[i - 1]
  <2>1. \A i \in 1 .. Len(s) + 1 : i <= 1 => <<u>>[i] = u
    BY <1>1, <1>2
  <2>2. QED
    BY <1>1, <1>2, <2>1, ConcatProperties
<1>4. DOMAIN t = 1 .. Len(s) + 1
  BY <1>3, LenProperties
<1> HIDE DEF t
<1>5. t[1] = u /\ 1 \in DOMAIN t
  BY <1>1, <1>3, <1>4
<1>6. \A i \in 1 .. Len(s) : i + 1 \in DOMAIN t /\ t[i + 1] = s[i]
  BY <1>1, <1>3, <1>4
<1>7. IsFiniteSet(c) /\ Cardinality(c) \in Nat
  <2>1. IsFiniteSet(1 .. Len(s)) /\ c \in SUBSET (1 .. Len(s))
    BY <1>1, FS_Interval
  <2>2. QED
    BY <2>1, FS_Subset, FS_CardinalityType
<1>8. f \in Bijection(c, e)
  <2>1. f \in [c -> e]
    BY <1>1, <1>6
  <2>2. \A i, j \in c : f[i] = f[j] => i = j
    BY <1>1
  <2>3. \A j \in e : \E i \in c : f[i] = j
    <3>1. SUFFICES ASSUME NEW j \in e
                   PROVE  \E i \in c : f[i] = j
      OBVIOUS
    <3>2. j - 1 \in c /\ f[j - 1] = j
      BY <1>1, <1>3, <1>4
    <3>3. QED
      BY <3>2
  <2>4. QED
    BY <2>1, <2>2, <2>3 DEF Bijection, Injection, Surjection, IsInjective
<1>9. IsFiniteSet(e) /\ Cardinality(e) = Cardinality(c)
  BY <1>7, <1>8, FS_Bijection DEF ExistsBijection
<1>10. 1 \notin e /\ d = IF u \in S THEN e \cup {1} ELSE e
  BY <1>5
<1> HIDE DEF c, d, e
<1>11. Cardinality(d) = Cardinality(c) + IF u \in S THEN 1 ELSE 0
  <2>1. CASE u \in S
    BY <1>7, <1>9, <1>10, <2>1, FS_AddElement
  <2>2. CASE u \notin S
    BY <1>7, <1>9, <1>10, <2>2
  <2>3. QED
    BY <2>1, <2>2
<1>12. QED
  BY <1>7, <1>11 DEF HowMany, c, d, t

(* The bytes of one unit. *)
Size(u) ==
  CASE u \in {"u0000", "u01", "u41", "u20AC", "uD83D", "uDE00"} -> 5
    [] u \in {Literal, "tab+rue", "U+1F600"} -> 4
    [] u = "U+20AC" -> 3
    [] OTHER -> 1

(* A unit in front adds its bytes.                                         *)
LEMMA BytesFirst ==
  ASSUME NEW T, NEW s \in Seq(T), NEW u \in T
  PROVE  /\ Bytes(s) \in Nat
         /\ Bytes(<<u>> \o s) = Size(u) + Bytes(s)
<1> DEFINE t == <<u>> \o s
           A == {"u0000", "u01", "u41", "u20AC", "uD83D", "uDE00"}
           B == {Literal, "tab+rue", "U+1F600"}
           C == {"U+20AC"}
           x(S) == IF u \in S THEN 1 ELSE 0
<1>1. Len(s) \in Nat /\ Len(t) = Len(s) + 1
  <2>1. <<u>> \in Seq(T) /\ Len(<<u>>) = 1
    OBVIOUS
  <2>2. Len(s) \in Nat
    BY LenProperties
  <2>3. QED
    BY <2>1, <2>2, ConcatProperties
<1>2. \A S : /\ HowMany(s, S) \in Nat
             /\ HowMany(t, S) = HowMany(s, S) + x(S)
             /\ x(S) \in Nat
  BY CountFirst
<1> HIDE DEF t
<1>3. \A r : Bytes(r) = Len(r) + 4 * HowMany(r, A) + 3 * HowMany(r, B)
                              + 2 * HowMany(r, C)
  BY DEF Bytes, HowMany
<1>4. Size(u) = 1 + 4 * x(A) + 3 * x(B) + 2 * x(C)
  BY DEF Size, Literal
<1> HIDE DEF A, B, C, x
<1>5. Bytes(s) \in Nat /\ Bytes(t) = Size(u) + Bytes(s)
  <2> DEFINE sA == HowMany(s, A)  tA == HowMany(t, A)
             sB == HowMany(s, B)  tB == HowMany(t, B)
             sC == HowMany(s, C)  tC == HowMany(t, C)
             xA == x(A)  xB == x(B)  xC == x(C)
  <2>1. /\ sA \in Nat /\ tA = sA + xA /\ xA \in Nat
        /\ sB \in Nat /\ tB = sB + xB /\ xB \in Nat
        /\ sC \in Nat /\ tC = sC + xC /\ xC \in Nat
    BY <1>2
  <2>2. /\ Bytes(s) = Len(s) + 4 * sA + 3 * sB + 2 * sC
        /\ Bytes(t) = Len(t) + 4 * tA + 3 * tB + 2 * tC
        /\ Size(u) = 1 + 4 * xA + 3 * xB + 2 * xC
    BY <1>3, <1>4
  <2> HIDE DEF sA, tA, sB, tB, sC, tC, xA, xB, xC
  <2>3. QED
    BY <1>1, <2>1, <2>2
<1>6. QED
  BY <1>5 DEF t

(* Nothing has no bytes.                                                   *)
LEMMA BytesOfNothing == Bytes(<<>>) = 0
<1>1. \A S : HowMany(<<>>, S) = 0
  <2>1. \A S : {i \in DOMAIN <<>> : <<>>[i] \in S} = {}
    OBVIOUS
  <2>2. QED
    BY <2>1, FS_EmptySet DEF HowMany
<1>2. Len(<<>>) = 0
  OBVIOUS
<1>3. Bytes(<<>>) =
        Len(<<>>)
          + 4 * HowMany(<<>>, {"u0000", "u01", "u41", "u20AC", "uD83D",
                               "uDE00"})
          + 3 * HowMany(<<>>, {Literal, "tab+rue", "U+1F600"})
          + 2 * HowMany(<<>>, {"U+20AC"})
  BY DEF Bytes, HowMany
<1>4. QED
  BY <1>1, <1>2, <1>3

(* The bytes of a text from one of its units on.                           *)
LEMMA BytesOfRest ==
  ASSUME text \in Texts, NEW end \in 1 .. Len(text), NEW j \in 1 .. end - 1
  PROVE  /\ Bytes(SubSeq(text, j + 1, end - 1)) \in Nat
         /\ Bytes(SubSeq(text, j, end - 1))
              = Size(text[j]) + Bytes(SubSeq(text, j + 1, end - 1))
<1>1. Len(text) \in Nat /\ DOMAIN text = 1 .. Len(text)
  BY LenProperties DEF Texts
<1>2. j \in 1 .. Len(text) /\ end - 1 \in j .. Len(text)
  BY <1>1
<1> DEFINE rest == SubSeq(text, j + 1, end - 1)
<1>3. SubSeq(text, j, end - 1) = <<text[j]>> \o rest
  BY <1>2, SubSeqRecursiveFirst DEF Texts
<1>4. text[j] \in Units \cup {NUL}
  BY <1>2, ElementOfSeq DEF Texts
<1>5. rest \in Seq(Units \cup {NUL})
  <2>1. \A i \in j + 1 .. end - 1 : text[i] \in Units \cup {NUL}
    BY <1>1, <1>2, ElementOfSeq DEF Texts
  <2>2. j + 1 \in Int /\ end - 1 \in Int
    BY <1>1
  <2>3. QED
    BY <2>1, <2>2, SubSeqProperties
<1> HIDE DEF rest
<1>6. QED
  BY <1>3, <1>4, <1>5, BytesFirst DEF rest

-----------------------------------------------------------------------------
(* The two loops of parse_string *)

(* The equation that Scan's recursive function satisfies.                  *)
ScanEq(from) ==
  \A j \in Nat :
    from[j] = IF j > Len(text) \/ text[j] = Quote THEN {j}
              ELSE {j} \cup from[IF text[j] = Backslash THEN j + 2 ELSE j + 1]

(* There is such a function, and Scan is its value behind the quote.       *)
LEMMA ScanFunction ==
  ASSUME text \in Texts
  PROVE  \E from : ScanEq(from) /\ \A i : Scan(i) = from[i + 1]
<1> DEFINE L == Len(text)
           Step(g, j) == IF j > L \/ text[j] = Quote THEN {j}
             ELSE {j} \cup g[IF text[j] = Backslash THEN j + 2 ELSE j + 1]
           V == SUBSET Nat
           rank == [j \in Nat |-> IF j > L THEN 0 ELSE L + 1 - j]
           phi == [g \in [Nat -> V] |-> [j \in Nat |-> Step(g, j)]]
<1>1. L \in Nat
  BY LenProperties DEF Texts
<1>2. /\ rank \in [Nat -> Nat] /\ \A j \in Nat : rank[j] <= L + 1
      /\ \A j, k \in Nat : j <= L /\ k > j => rank[k] < rank[j]
  BY <1>1
<1>3. \A g \in [Nat -> V], j \in Nat : Step(g, j) \in V
  OBVIOUS
<1>4. ASSUME NEW g \in [Nat -> V], NEW h \in [Nat -> V], NEW j \in Nat,
             \A k \in Nat : rank[k] < rank[j] => g[k] = h[k]
      PROVE  Step(g, j) = Step(h, j)
  <2>1. CASE j > L
    BY <2>1
  <2>2. CASE ~(j > L)
    <3> HIDE DEF rank, L
    <3>1. g[j + 1] = h[j + 1] /\ g[j + 2] = h[j + 2]
      BY <1>1, <1>2, <1>4, <2>2
    <3>2. QED
      BY <3>1
  <2>3. QED
    BY <2>1, <2>2
<1> HIDE DEF rank, Step
<1>5. phi \in [[Nat -> V] -> [Nat -> V]]
  BY <1>3
<1>6. \A g, h \in [Nat -> V] : \A j \in Nat :
        (\A k \in Nat : rank[k] < rank[j] => g[k] = h[k])
          => phi[g][j] = phi[h][j]
  BY <1>4
<1>7. {} \in V /\ L + 1 \in Nat
  BY <1>1
<1>8. \E f \in [Nat -> V] : f = phi[f]
  <2> HIDE DEF phi, V, L
  <2>1. WellDefined(phi, Nat, V, rank, L + 1)
    BY <1>2, <1>5, <1>6, <1>7 DEF WellDefined
  <2>2. QED
    BY <2>1, Recursion
<1>9. \E f : f = [j \in Nat |-> Step(f, j)]
  BY <1>8
<1> DEFINE from == CHOOSE f : f = [j \in Nat |-> Step(f, j)]
<1>10. from = [j \in Nat |-> Step(from, j)]
  BY <1>9
<1>11. \A i : Scan(i) = from[i + 1]
  BY DEF Scan, Step, L
<1> HIDE DEF from
<1>12. \A j \in Nat : from[j] = Step(from, j)
  BY <1>10
<1>13. ScanEq(from)
  BY <1>12 DEF ScanEq, Step, L
<1>14. QED
  BY <1>11, <1>13

(* Every path goes forward, and stops within two places of the end.        *)
LEMMA PathProperties ==
  ASSUME text \in Texts, NEW from, ScanEq(from)
  PROVE  \A j \in Nat :
           /\ from[j] \in SUBSET Nat /\ j \in from[j]
           /\ \A k \in from[j] : j <= k
           /\ j <= Len(text) + 2 => \A k \in from[j] : k <= Len(text) + 2
<1> DEFINE L == Len(text)
           Good(j) == /\ from[j] \in SUBSET Nat /\ j \in from[j]
                      /\ \A k \in from[j] : j <= k
                      /\ j <= L + 2 => \A k \in from[j] : k <= L + 2
           S == {j \in Nat : Good(j)}
<1>1. L \in Nat
  BY LenProperties DEF Texts
<1>2. \A j \in Nat : from[j] = {j} => Good(j)
  OBVIOUS
<1>3. \A j \in Nat : j > L => j \in S
  BY <1>2 DEF ScanEq
<1>4. ASSUME NEW j \in 0 .. L, \A k \in Nat : k > j => k \in S
      PROVE  j \in S
  <2>1. CASE from[j] = {j}
    BY <1>2, <2>1
  <2>2. CASE from[j] # {j}
    <3> DEFINE n == IF text[j] = Backslash THEN j + 2 ELSE j + 1
    <3>1. from[j] = {j} \cup from[n]
      <4>1. j \in Nat
        BY <1>1
      <4>2. QED
        BY <2>2, <4>1, Zenon DEF ScanEq
    <3>2. n \in Nat /\ n > j /\ n <= L + 2
      BY <1>1
    <3>3. Good(n)
      BY <1>4, <3>2
    <3> HIDE DEF n
    <3>4. QED
      BY <1>1, <3>1, <3>2, <3>3
  <2>3. QED
    BY <2>1, <2>2
<1> HIDE DEF S
<1>5. S = Nat
  <2>1. S \in SUBSET Nat
    BY DEF S
  <2>2. QED
    BY <1>1, <1>3, <1>4, <2>1, Downwards
<1>6. QED
  BY <1>5 DEF S

(* What a string may be decoded to.                                        *)
Out ==
  Units \cup {NUL, "tab+rue", "U+00", "U+01", "U+41", "U+20AC", "U+1F600",
              "bad"}

(* A decoded escape is no longer than the escape without its backslash.    *)
LEMMA DecodedIsShort ==
  ASSUME NEW u \in DOMAIN Decoded
  PROVE  /\ Decoded[u] \in Out
         /\ Size(Decoded[u]) <= Size(u)
<1>1. /\ Decoded[Quote] = Quote /\ Decoded[Backslash] = Backslash
      /\ Decoded[Literal] = "tab+rue" /\ Decoded["u01"] = "U+01"
      /\ Decoded["u41"] = "U+41" /\ Decoded["u20AC"] = "U+20AC"
      /\ Decoded["u0000"] = "U+00"
      /\ u \in {Quote, Backslash, Literal, "u0000", "u01", "u41", "u20AC"}
  BY DEF Decoded, Quote, Backslash, Literal
<1>2. /\ Size(Quote) = 1 /\ Size(Backslash) = 1 /\ Size(Literal) = 4
      /\ Size("tab+rue") = 4 /\ Size("u01") = 5 /\ Size("U+01") = 1
      /\ Size("u41") = 5 /\ Size("U+41") = 1
      /\ Size("u0000") = 5 /\ Size("U+00") = 1
      /\ Size("u20AC") = 5 /\ Size("U+20AC") = 3
  BY DEF Size, Quote, Backslash, Literal
<1>3. Decoded[u] \in Out
  BY <1>1 DEF Out, Units, Quote, Backslash
<1>4. QED
  BY <1>1, <1>2, <1>3

(* The same for Decode.                                                    *)
DecodeEq(from, end) ==
  \A j \in Nat :
    from[j] =
      IF j >= end THEN <<>>
      ELSE IF text[j] # Backslash THEN <<text[j]>> \o from[j + 1]
      ELSE IF text[j + 1] \in DOMAIN Decoded
             THEN <<Decoded[text[j + 1]]>> \o from[j + 2]
      ELSE IF j + 4 <= end /\ SubSeq(text, j, j + 3) = Pair
             THEN <<"U+1F600">> \o from[j + 4]
      ELSE <<"bad">>

(* There is such a function, and Decode is its value behind the quote.     *)
LEMMA DecodeFunction ==
  ASSUME NEW end \in Nat
  PROVE  \E from : DecodeEq(from, end) /\ \A i : Decode(i, end) = from[i + 1]
<1> DEFINE Step(g, j) ==
             IF j >= end THEN <<>>
             ELSE IF text[j] # Backslash THEN <<text[j]>> \o g[j + 1]
             ELSE IF text[j + 1] \in DOMAIN Decoded
                    THEN <<Decoded[text[j + 1]]>> \o g[j + 2]
             ELSE IF j + 4 <= end /\ SubSeq(text, j, j + 3) = Pair
                    THEN <<"U+1F600">> \o g[j + 4]
             ELSE <<"bad">>
           A == Out \cup {text[j] : j \in Nat}
           V == Seq(A)
           rank == [j \in Nat |-> IF j >= end THEN 0 ELSE end - j]
           phi == [g \in [Nat -> V] |-> [j \in Nat |-> Step(g, j)]]
<1>1. /\ rank \in [Nat -> Nat] /\ \A j \in Nat : rank[j] <= end
      /\ \A j, k \in Nat : ~(j >= end) /\ k > j => rank[k] < rank[j]
  OBVIOUS
<1>2. ASSUME NEW g \in [Nat -> V], NEW j \in Nat
      PROVE  Step(g, j) \in V
  <2>1. g[j + 1] \in V /\ g[j + 2] \in V /\ g[j + 4] \in V
    OBVIOUS
  <2>2. text[j] \in A /\ "U+1F600" \in A /\ "bad" \in A
    BY DEF Out
  <2>3. text[j + 1] \in DOMAIN Decoded => Decoded[text[j + 1]] \in A
    BY DecodedIsShort
  <2> HIDE DEF A
  <2>4. \A u \in A : <<u>> \in V /\ \A s \in V : <<u>> \o s \in V
    <3>1. \A u \in A : <<u>> \in V
      OBVIOUS
    <3>2. QED
      BY <3>1, ConcatProperties
  <2>5. <<>> \in V
    OBVIOUS
  <2> HIDE DEF V
  <2>6. QED
    BY <2>1, <2>2, <2>3, <2>4, <2>5, Zenon
<1>3. ASSUME NEW g \in [Nat -> V], NEW h \in [Nat -> V], NEW j \in Nat,
             \A k \in Nat : rank[k] < rank[j] => g[k] = h[k]
      PROVE  Step(g, j) = Step(h, j)
  <2>1. CASE j >= end
    BY <2>1
  <2>2. CASE ~(j >= end)
    <3> HIDE DEF rank
    <3>1. g[j + 1] = h[j + 1] /\ g[j + 2] = h[j + 2] /\ g[j + 4] = h[j + 4]
      BY <1>1, <1>3, <2>2
    <3>2. QED
      BY <3>1, Zenon
  <2>3. QED
    BY <2>1, <2>2
<1> HIDE DEF rank, Step
<1>4. phi \in [[Nat -> V] -> [Nat -> V]]
  BY <1>2
<1>5. \A g, h \in [Nat -> V] : \A j \in Nat :
        (\A k \in Nat : rank[k] < rank[j] => g[k] = h[k])
          => phi[g][j] = phi[h][j]
  BY <1>3
<1>6. V # {}
  BY EmptySeq
<1>7. \E f \in [Nat -> V] : f = phi[f]
  <2> HIDE DEF phi, V
  <2>1. WellDefined(phi, Nat, V, rank, end)
    BY <1>1, <1>4, <1>5, <1>6 DEF WellDefined
  <2>2. QED
    BY <2>1, Recursion
<1>8. \E f : f = [j \in Nat |-> Step(f, j)]
  BY <1>7
<1> DEFINE from == CHOOSE f : f = [j \in Nat |-> Step(f, j)]
<1>9. from = [j \in Nat |-> Step(from, j)]
  BY <1>8
<1>10. \A i : Decode(i, end) = from[i + 1]
  BY Zenon DEF Decode, Step
<1> HIDE DEF from
<1>11. \A j \in Nat : from[j] = Step(from, j)
  BY <1>9
<1>12. DecodeEq(from, end)
  BY <1>11, Zenon DEF DecodeEq, Step
<1>13. QED
  BY <1>10, <1>12

-----------------------------------------------------------------------------
(* The room of a string *)

(* The path from j ends at end.                                            *)
Ends(path, end) == end \in path /\ \A k \in path : k <= end

(* The escapes on the path.                                                *)
Escapes(path, end) == {k \in path \ {end} : text[k] = Backslash}

(* The next place on the path, and what is left of the escapes there.      *)
LEMMA EscapesFirst ==
  ASSUME text \in Texts, NEW from, ScanEq(from), NEW end \in 1 .. Len(text),
         NEW j \in Nat, j < end, Ends(from[j], end)
  PROVE  LET n == IF text[j] = Backslash THEN j + 2 ELSE j + 1
             e == Escapes(from[n], end)
         IN /\ n <= end /\ Ends(from[n], end)
            /\ Cardinality(e) \in Nat
            /\ Cardinality(Escapes(from[j], end))
                 = Cardinality(e) + IF text[j] = Backslash THEN 1 ELSE 0
<1> DEFINE n == IF text[j] = Backslash THEN j + 2 ELSE j + 1
           e == Escapes(from[n], end)
           d == Escapes(from[j], end)
<1>1. Len(text) \in Nat /\ n \in Nat /\ n > j
  BY LenProperties DEF Texts
<1>2. from[j] = {j} \cup from[n]
  <2>1. from[j] # {j}
    BY <1>1 DEF Ends
  <2>2. QED
    BY <2>1 DEF ScanEq
<1>3. /\ from[n] \in SUBSET Nat /\ n \in from[n]
      /\ \A k \in from[n] : n <= k
  BY <1>1, PathProperties
<1>4. n <= end /\ Ends(from[n], end) /\ j \notin from[n]
  BY <1>1, <1>2, <1>3 DEF Ends
<1>5. IsFiniteSet(e) /\ Cardinality(e) \in Nat
  <2>1. e \in SUBSET Nat /\ \A k \in e : k <= end
    BY <1>3, <1>4 DEF Escapes, Ends
  <2> HIDE DEF e
  <2>2. IsFiniteSet(e)
    BY <1>1, <2>1, FS_BoundedSetOfNaturals
  <2>3. QED
    BY <2>2, FS_CardinalityType
<1>6. j \notin e /\ d = IF text[j] = Backslash THEN e \cup {j} ELSE e
  BY <1>1, <1>2, <1>4 DEF Escapes
<1> HIDE DEF d, e
<1>7. Cardinality(d) = Cardinality(e) + IF text[j] = Backslash THEN 1 ELSE 0
  <2>1. CASE text[j] = Backslash
    BY <1>5, <1>6, <2>1, FS_AddElement
  <2>2. CASE text[j] # Backslash
    BY <1>5, <1>6, <2>2
  <2>3. QED
    BY <2>1, <2>2
<1>8. QED
  BY <1>4, <1>5, <1>7 DEF d, e

(* From every place of the path that ends at the closing quote, what is    *)
(* written and the number of escapes are together no longer than the text. *)
LEMMA DecodedFits ==
  ASSUME text \in Texts, NEW path, ScanEq(path),
         NEW end \in 1 .. Len(text), text[end] = Quote,
         NEW out, DecodeEq(out, end),
         NEW i \in 1 .. end, Ends(path[i], end)
  PROVE  /\ out[i] \in Seq(Out)
         /\ Cardinality(Escapes(path[i], end)) \in Nat
         /\ Bytes(out[i]) + Cardinality(Escapes(path[i], end))
              <= Bytes(SubSeq(text, i, end - 1))
<1> DEFINE E(j) == Cardinality(Escapes(path[j], end))
           W(j) == Bytes(SubSeq(text, j, end - 1))
           Good(j) == /\ out[j] \in Seq(Out) /\ E(j) \in Nat
                      /\ Bytes(out[j]) + E(j) <= W(j)
           S == {j \in Nat : j > 0 /\ Ends(path[j], end) => Good(j)}
<1>1. Len(text) \in Nat /\ DOMAIN text = 1 .. Len(text) /\ end \in Nat
  BY LenProperties DEF Texts
<1>2. \A s \in Seq(Out) : Bytes(s) \in Nat
  <2>1. "bad" \in Out
    BY DEF Out
  <2>2. QED
    BY <2>1, BytesFirst
<1>3. \A s \in Seq(Out), u \in Out : /\ <<u>> \o s \in Seq(Out)
                                    /\ Bytes(<<u>> \o s) = Size(u) + Bytes(s)
  <2>1. \A u \in Out : <<u>> \in Seq(Out)
    OBVIOUS
  <2>2. QED
    BY <2>1, BytesFirst, ConcatProperties
<1>4. \A j \in 1 .. Len(text) : text[j] \in Out
  BY ElementOfSeq DEF Texts, Out
<1>5. \A j \in Nat : j > end => j \in S
  <2>1. SUFFICES ASSUME NEW j \in Nat, j > end, Ends(path[j], end)
                 PROVE  FALSE
    OBVIOUS
  <2>2. j \in path[j] /\ path[j] \in SUBSET Nat
    BY PathProperties
  <2>3. QED
    BY <1>1, <2>1, <2>2 DEF Ends
<1>6. ASSUME NEW j \in 0 .. end, \A k \in Nat : k > j => k \in S
      PROVE  j \in S
  <2> SUFFICES ASSUME j > 0, Ends(path[j], end)
               PROVE  Good(j)
    BY <1>1
  <2>0. j \in Nat
    BY <1>1
  <2>5. /\ j >= end => out[j] = <<>>
        /\ ~(j >= end) /\ text[j] # Backslash =>
             out[j] = <<text[j]>> \o out[j + 1]
        /\ ~(j >= end) /\ text[j] = Backslash =>
             IF text[j + 1] \in DOMAIN Decoded
               THEN out[j] = <<Decoded[text[j + 1]]>> \o out[j + 2]
             ELSE IF j + 4 <= end /\ SubSeq(text, j, j + 3) = Pair
               THEN out[j] = <<"U+1F600">> \o out[j + 4]
             ELSE out[j] = <<"bad">>
    BY <2>0, Zenon DEF DecodeEq
  <2>3. ASSUME NEW n \in Nat, Good(n), W(n) \in Nat,
               NEW c \in Nat, NEW d \in Nat, NEW w \in Nat, c + d <= w,
               out[j] \in Seq(Out), Bytes(out[j]) = c + Bytes(out[n]),
               E(j) = E(n) + d, W(j) = w + W(n)
        PROVE  Good(j)
    <3> DEFINE b == Bytes(out[n])
               e == E(n)
               v == W(n)
    <3>1. b \in Nat /\ e \in Nat /\ v \in Nat /\ b + e <= v
      BY <1>2, <2>3
    <3>2. Bytes(out[j]) = c + b /\ E(j) = e + d /\ W(j) = w + v
      BY <2>3
    <3> HIDE DEF b, e, v, E, W, Good
    <3>3. E(j) \in Nat /\ Bytes(out[j]) + E(j) <= W(j)
      BY <2>3, <3>1, <3>2
    <3>4. QED
      BY <2>3, <3>3 DEF Good
  <2>1. CASE j = end
    <3>1. out[j] = <<>>
      BY <1>1, <2>0, <2>1, <2>5
    <3>2. path[j] = {j}
      BY <1>1, <2>1 DEF ScanEq
    <3>3. E(j) = 0
      BY <2>1, <3>2, FS_EmptySet DEF Escapes
    <3>4. W(j) = 0
      <4>1. SubSeq(text, end, end - 1) = <<>>
        BY <1>1, SubSeqEmpty
      <4>2. QED
        BY <2>1, <4>1, BytesOfNothing
    <3>5. QED
      BY <3>1, <3>3, <3>4, BytesOfNothing, EmptySeq
  <2>2. CASE j < end
    <3>0. j \in 1 .. end - 1 /\ j \in Nat /\ j \in 1 .. Len(text)
      BY <1>1, <2>2
    <3>1. /\ W(j + 1) \in Nat
          /\ W(j) = Size(text[j]) + W(j + 1)
      BY <3>0, BytesOfRest
    <3>2. CASE text[j] # Backslash
      <4>1. Good(j + 1) /\ E(j) = E(j + 1) + 0
        <5>1. /\ Ends(path[j + 1], end)
              /\ E(j) = E(j + 1) + 0
          BY <2>2, <3>0, <3>2, EscapesFirst
        <5>2. j + 1 \in S
          BY <1>6, <3>0
        <5>3. QED
          BY <3>0, <5>1, <5>2
      <4>2. out[j] = <<text[j]>> \o out[j + 1]
        BY <2>0, <1>1, <2>2, <3>2, <2>5
      <4>3. /\ out[j] \in Seq(Out)
            /\ Bytes(out[j]) = Size(text[j]) + Bytes(out[j + 1])
        BY <1>3, <1>4, <3>0, <4>1, <4>2
      <4>4. Size(text[j]) \in Nat
        BY DEF Size
      <4>5. j + 1 \in Nat
        BY <2>0
      <4> HIDE DEF E, W, Good
      <4>6. QED
        BY <2>3, <3>1, <4>1, <4>3, <4>4, <4>5
    <3>3. CASE text[j] = Backslash
      <4>1. /\ j + 2 <= end /\ Ends(path[j + 2], end)
            /\ E(j) = E(j + 2) + 1
        BY <2>2, <3>0, <3>3, EscapesFirst
      <4>2. Good(j + 2)
        <5>1. j + 2 \in S
          BY <1>6, <3>0
        <5>2. QED
          BY <3>0, <4>1, <5>1
      <4>3. Size(text[j]) = 1
        BY <3>3 DEF Size, Backslash, Literal
      <4>4. /\ W(j + 2) \in Nat
            /\ W(j + 1) = Size(text[j + 1]) + W(j + 2)
        <5>1. j + 1 \in 1 .. end - 1 /\ j + 1 + 1 = j + 2
          BY <1>1, <3>0, <4>1
        <5>2. QED
          BY <5>1, BytesOfRest
      <4>5. Size(text[j + 1]) \in Nat /\ Size(text[j + 1]) >= 1
        BY DEF Size
      <4>6. CASE text[j + 1] \in DOMAIN Decoded
        <5> DEFINE u == Decoded[text[j + 1]]
        <5>1. out[j] = <<u>> \o out[j + 2]
          BY <2>0, <1>1, <2>2, <3>3, <4>6, <2>5
        <5>2. u \in Out /\ Size(u) <= Size(text[j + 1])
          BY <4>6, DecodedIsShort
        <5>3. Size(u) \in Nat
          BY DEF Size
        <5> HIDE DEF u
        <5>4. /\ out[j] \in Seq(Out)
              /\ Bytes(out[j]) = Size(u) + Bytes(out[j + 2])
          BY <1>3, <4>2, <5>1, <5>2
        <5> DEFINE w == 1 + Size(text[j + 1])
        <5>5. /\ w \in Nat /\ j + 2 \in Nat /\ Size(u) + 1 <= w
              /\ W(j) = w + W(j + 2)
          <6> HIDE DEF W
          <6>1. QED
            BY <2>0, <3>1, <4>3, <4>4, <4>5, <5>2, <5>3
        <5> HIDE DEF E, W, Good, w
        <5>6. QED
          BY <2>3, <4>1, <4>2, <4>4, <5>3, <5>4, <5>5
      <4>7. CASE /\ text[j + 1] \notin DOMAIN Decoded
                 /\ j + 4 <= end /\ SubSeq(text, j, j + 3) = Pair
        <5>1. out[j] = <<"U+1F600">> \o out[j + 4]
          BY <2>0, <1>1, <2>2, <3>3, <4>7, <2>5
        <5>2. /\ text[j + 1] = "uD83D" /\ text[j + 2] = Backslash
              /\ text[j + 3] = "uDE00"
          <6> DEFINE s == SubSeq(text, j, j + 3)
          <6>1. \A k \in 1 .. j + 3 - j + 1 : s[k] = text[j + k - 1]
            <7>1. \A k \in j .. j + 3 : text[k] \in Out
              BY <1>1, <1>4, <3>0, <4>7
            <7>2. QED
              BY <3>0, <7>1, SubSeqProperties
          <6>2. s[2] = text[j + 1] /\ s[3] = text[j + 2] /\ s[4] = text[j + 3]
            <7> HIDE DEF s
            <7>1. QED
              BY <3>0, <6>1
          <6>3. s[2] = "uD83D" /\ s[3] = Backslash /\ s[4] = "uDE00"
            <7>1. s = Pair
              BY <4>7
            <7> HIDE DEF s
            <7>2. QED
              BY <7>1 DEF Pair
          <6>4. QED
            BY <6>2, <6>3
        <5>3. /\ Ends(path[j + 4], end)
              /\ E(j + 2) = E(j + 4) + 1
          <6>1. j + 2 \in Nat /\ j + 2 < end /\ j + 2 + 2 = j + 4
            BY <3>0, <4>7, <1>1
          <6>2. QED
            BY <4>1, <5>2, <6>1, EscapesFirst
        <5>4. Good(j + 4)
          <6>1. j + 4 \in S
            BY <1>6, <3>0
          <6>2. QED
            BY <3>0, <5>3, <6>1
        <5>5. /\ W(j + 4) \in Nat
              /\ W(j + 2) = Size(text[j + 2]) + W(j + 3)
              /\ W(j + 3) = Size(text[j + 3]) + W(j + 4)
          <6>1. /\ j + 2 \in 1 .. end - 1 /\ j + 2 + 1 = j + 3
                /\ j + 3 \in 1 .. end - 1 /\ j + 3 + 1 = j + 4
            BY <1>1, <3>0, <4>7
          <6>2. QED
            BY <6>1, BytesOfRest
        <5>6. /\ Size(text[j + 1]) = 5 /\ Size(text[j + 2]) = 1
              /\ Size(text[j + 3]) = 5 /\ Size("U+1F600") = 4
          BY <5>2 DEF Size, Backslash, Literal
        <5>7. /\ out[j] \in Seq(Out)
              /\ Bytes(out[j]) = 4 + Bytes(out[j + 4])
          <6>1. "U+1F600" \in Out
            BY DEF Out
          <6>2. QED
            BY <1>3, <5>1, <5>4, <5>6, <6>1
        <5> HIDE DEF E, W, Good
        <5>8. E(j) = E(j + 4) + 2 /\ W(j) = 12 + W(j + 4) /\ j + 4 \in Nat
          <6> DEFINE e0 == E(j)  e2 == E(j + 2)  e4 == E(j + 4)
                     w0 == W(j)  w1 == W(j + 1)  w2 == W(j + 2)
                     w3 == W(j + 3)  w4 == W(j + 4)
          <6>1. /\ e4 \in Nat /\ e2 = e4 + 1 /\ e0 = e2 + 1 /\ w4 \in Nat
                /\ w0 = 1 + w1 /\ w1 = 5 + w2 /\ w2 = 1 + w3 /\ w3 = 5 + w4
            BY <3>1, <4>1, <4>3, <4>4, <5>3, <5>4, <5>5, <5>6 DEF Good
          <6> HIDE DEF e0, e2, e4, w0, w1, w2, w3, w4
          <6>2. e0 = e4 + 2 /\ w0 = 12 + w4
            BY <6>1
          <6>3. QED
            BY <2>0, <6>2 DEF e0, e4, w0, w4
        <5>9. QED
          BY <2>3, <5>4, <5>5, <5>7, <5>8
      <4>8. CASE /\ text[j + 1] \notin DOMAIN Decoded
                 /\ ~(j + 4 <= end /\ SubSeq(text, j, j + 3) = Pair)
        <5>1. out[j] = <<"bad">>
          BY <2>0, <1>1, <2>2, <3>3, <4>8, <2>5
        <5>2. out[j] \in Seq(Out) /\ Bytes(out[j]) = 1
          <6>1. "bad" \in Out /\ <<>> \in Seq(Out)
            BY DEF Out
          <6>2. <<"bad">> \o <<>> = <<"bad">>
            BY <6>1, ConcatEmptySeq
          <6>3. Size("bad") = 1
            BY DEF Size, Literal
          <6>4. QED
            <7>1. /\ <<"bad">> \o <<>> \in Seq(Out)
                  /\ Bytes(<<"bad">> \o <<>>) = 1 + 0
              BY <1>3, <6>1, <6>3, BytesOfNothing
            <7>2. QED
              BY <5>1, <6>2, <7>1
        <5>3. Bytes(out[j + 2]) \in Nat
          BY <1>2, <4>2
        <5> DEFINE b == Bytes(out[j + 2])
        <5>4. b \in Nat /\ b + E(j + 2) <= W(j + 2) /\ E(j + 2) \in Nat
          BY <4>2, <5>3
        <5> HIDE DEF E, W, b, Good
        <5>5. E(j) \in Nat /\ Bytes(out[j]) + E(j) <= W(j)
          <6> DEFINE e0 == E(j)  e2 == E(j + 2)  w0 == W(j)  w1 == W(j + 1)
                     w2 == W(j + 2)  size == Size(text[j + 1])
          <6>1. /\ e2 \in Nat /\ e0 = e2 + 1 /\ b \in Nat /\ b + e2 <= w2
                /\ size \in Nat /\ size >= 1 /\ w2 \in Nat
                /\ w0 = 1 + w1 /\ w1 = size + w2
            BY <3>1, <4>1, <4>3, <4>4, <4>5, <5>4
          <6> HIDE DEF e0, e2, w0, w1, w2, size
          <6>2. e0 \in Nat /\ 1 + e0 <= w0
            BY <6>1
          <6>3. QED
            BY <5>2, <6>2 DEF e0, w0
        <5>6. QED
          BY <5>2, <5>5 DEF Good
      <4>9. QED
        BY <4>6, <4>7, <4>8
    <3>4. QED
      BY <3>2, <3>3
  <2>4. QED
    BY <1>1, <2>1, <2>2
<1> HIDE DEF S
<1>7. S = Nat
  <2>1. S \in SUBSET Nat
    BY DEF S
  <2>2. QED
    BY <1>1, <1>5, <1>6, <2>1, Downwards
<1>8. i \in S /\ i > 0
  BY <1>1, <1>7
<1>9. QED
  BY <1>8 DEF S

(* What parse_string has decoded, with the terminator, fits the block that *)
(* was asked for before the escapes were decoded.                          *)
LEMMA ParsedStringFits ==
  ASSUME TextInv, offset \in 1 .. Len(text), parse_string(offset).ok
  PROVE  LET block == parse_string(offset).block
         IN Bytes(block.content) + 1 <= block.size
<1> DEFINE i == offset + 1
           end == Max(Scan(offset))
<1>1. PICK path : ScanEq(path) /\ \A k : Scan(k) = path[k + 1]
  <2>1. text \in Texts
    BY DEF TextInv
  <2>2. QED
    BY <2>1, ScanFunction DEF ScanEq
<1>2. text \in Texts /\ Len(text) \in Nat /\ DOMAIN text = 1 .. Len(text)
  BY LenProperties DEF TextInv, Texts
<1>3. /\ text[offset] = Quote /\ end \in 1 .. Len(text) /\ text[end] = Quote
      /\ parse_string(offset).block =
           [content |-> Decode(offset, end),
            size |-> Bytes(SubSeq(text, offset, end - 1))
                       - Cardinality(Escapes(Scan(offset), end)) + 1]
  BY <1>2, Zenon DEF parse_string, Escapes
<1>4. Scan(offset) = path[i] /\ i \in Nat /\ i <= Len(text) + 2
  BY <1>1, <1>2
<1>5. Ends(path[i], end) /\ i \in 1 .. end
  <2>1. /\ path[i] \in SUBSET Nat /\ i \in path[i]
        /\ \A k \in path[i] : k <= Len(text) + 2
    BY <1>1, <1>2, <1>4, PathProperties
  <2>2. Len(text) + 2 \in Nat /\ path[i] # {}
    BY <1>2, <2>1
  <2>3. end \in path[i] /\ \A k \in path[i] : k <= end
    BY <1>4, <2>1, <2>2, NatMax
  <2>4. QED
    BY <1>2, <1>3, <1>4, <2>1, <2>3 DEF Ends
<1> HIDE DEF end
<1>6. end \in Nat
  BY <1>2, <1>3
<1>7. PICK out : DecodeEq(out, end) /\ \A k : Decode(k, end) = out[k + 1]
  BY <1>6, DecodeFunction
<1>8. /\ out[i] \in Seq(Out)
      /\ Cardinality(Escapes(path[i], end)) \in Nat
      /\ Bytes(out[i]) + Cardinality(Escapes(path[i], end))
           <= Bytes(SubSeq(text, i, end - 1))
  BY <1>1, <1>2, <1>3, <1>5, <1>7, DecodedFits
<1>9. /\ Bytes(SubSeq(text, i, end - 1)) \in Nat
      /\ Bytes(SubSeq(text, offset, end - 1))
           = 1 + Bytes(SubSeq(text, i, end - 1))
  <2>1. offset \in 1 .. end - 1
    BY <1>2, <1>5, <1>6
  <2>2. Size(Quote) = 1
    BY DEF Size, Quote, Literal
  <2>3. QED
    BY <1>2, <1>3, <2>1, <2>2, BytesOfRest
<1>10. Bytes(out[i]) \in Nat
  <2>1. "bad" \in Out
    BY DEF Out
  <2>2. QED
    BY <1>8, <2>1, BytesFirst
<1> DEFINE b == Bytes(out[i])
           e == Cardinality(Escapes(path[i], end))
           w == Bytes(SubSeq(text, i, end - 1))
<1>11. /\ Decode(offset, end) = out[i]
       /\ Bytes(SubSeq(text, offset, end - 1)) = 1 + w
       /\ Cardinality(Escapes(Scan(offset), end)) = e
       /\ b \in Nat /\ e \in Nat /\ w \in Nat /\ b + e <= w
  BY <1>4, <1>7, <1>8, <1>9, <1>10
<1> HIDE DEF b, e, w, i
<1>12. b + 1 <= 1 + w - e + 1
  BY <1>11
<1>13. /\ parse_string(offset).block.content = out[i]
       /\ parse_string(offset).block.size = 1 + w - e + 1
  BY <1>3, <1>11
<1>14. QED
  BY <1>12, <1>13 DEF b

(* A step that leaves the strings alone, deletes some or adds one that     *)
(* fits.                                                                   *)
LEMMA FitsStep ==
  ASSUME JsonInv, OutputFits, JsonNext
  PROVE  OutputFits'
<1>1. CASE UNCHANGED str
  BY <1>1 DEF OutputFits
<1>2. CASE \E n : cJSON_Delete(n)
  <2>1. PICK n : cJSON_Delete(n)
    BY <1>2
  <2> DEFINE left == DOMAIN str \ StringsOf(Tree(n))
  <2>2. str' = Restrict(str, left)
    BY <2>1 DEF cJSON_Delete
  <2> HIDE DEF left
  <2>3. DOMAIN str' = left /\ \A s \in left : str'[s] = str[s]
    BY <2>2 DEF Restrict
  <2>4. left \subseteq DOMAIN str
    BY DEF left
  <2>5. QED
    BY <2>3, <2>4 DEF OutputFits
<1>3. CASE /\ pc \in {"parse_value", "parse_name"}
           /\ parse_string(offset).ok
           /\ str' = Put(str, FreeBlock(str), parse_string(offset).block)
  <2> DEFINE block == parse_string(offset).block
             b == FreeBlock(str)
  <2>1. offset \in 1 .. Len(text)
    <3>1. offset <= Len(text) /\ offset \in 1 .. Len(text) + 1
      BY <1>3 DEF JsonInv, ReadsInBuffer, JsonTypeOK
    <3>2. Len(text) \in Nat
      BY LenProperties DEF JsonInv, TextInv, Texts
    <3>3. QED
      BY <3>1, <3>2
  <2>2. Bytes(block.content) + 1 <= block.size
    BY <1>3, <2>1, ParsedStringFits DEF JsonInv
  <2>3. str' = Put(str, b, block)
    BY <1>3
  <2> HIDE DEF block, b
  <2>4. /\ DOMAIN str' = {b} \cup DOMAIN str
        /\ \A s \in DOMAIN str' : str'[s] = IF s = b THEN block ELSE str[s]
    BY <2>3 DEF Put
  <2>5. QED
    BY <2>2, <2>4 DEF OutputFits
<1>4. CASE \E in \in Inputs : cJSON_Parse(in)
  BY <1>1, <1>4 DEF cJSON_Parse
<1>5. CASE parse_value
  <2>1. CASE UNCHANGED str
    BY <1>1, <2>1
  <2>2. CASE parse_value_string
    BY <1>1, <1>3, <2>2 DEF parse_value_string, StringParsed, StringFails, heap
  <2>3. CASE parse_literal \/ parse_number \/ parse_list \/ parse_nothing
    BY <1>1, <2>3 DEF parse_literal, parse_number, parse_list, parse_nothing,
                      ReturnsFalse, heap
  <2>4. QED
    BY <1>5, <2>2, <2>3 DEF parse_value
<1>6. CASE parse_array_or_object
  <2>1. CASE next_item \/ list_ends \/ list_goes_on
    BY <1>1, <2>1 DEF next_item, list_ends, list_goes_on, heap
  <2>2. CASE parse_name
    BY <1>1, <1>3, <2>2 DEF parse_name, StringParsed, StringFails, heap
  <2>3. CASE list_fails
    BY <1>2, <2>3 DEF list_fails
  <2>4. QED
    BY <1>6, <2>1, <2>2, <2>3 DEF parse_array_or_object
<1>7. CASE parse_returns
  BY <1>1, <1>7 DEF parse_returns, heap
<1>8. CASE parse_fails \/ app_deletes
  BY <1>2, <1>8 DEF parse_fails, app_deletes
<1>9. QED
  BY <1>4, <1>5, <1>6, <1>7, <1>8 DEF JsonNext

-----------------------------------------------------------------------------
(* The theorems *)

(* parse_string writes no byte behind the block it allocates, whatever     *)
(* escapes the text has: the string that comes out and its terminator fit  *)
(* what was counted beforehand.                                            *)
THEOREM StringsFit == JsonSpec => []OutputFits
<1>1. JsonInit => OutputFits
  BY DEF JsonInit, OutputFits
<1>2. JsonInv /\ OutputFits /\ [JsonNext]_jsonVars => OutputFits'
  <2>1. UNCHANGED jsonVars /\ OutputFits => OutputFits'
    BY DEF OutputFits, jsonVars, heap
  <2>2. QED
    BY <2>1, FitsStep
<1>3. QED
  BY <1>1, <1>2, JsonInvariant, PTL DEF JsonSpec

(* So the parser reads nothing outside its text and writes nothing outside *)
(* its strings, whatever the host has sent.                                *)
THEOREM ParserInBounds == JsonSpec => []InBounds
<1>1. ReadsInBuffer /\ OutputFits => InBounds
  BY DEF InBounds
<1>2. QED
  BY <1>1, ParserStaysInText, StringsFit, PTL

-----------------------------------------------------------------------------
(* A text without its blanks *)

(* Where in a text its reader is: outside a string, in one, or behind a    *)
(* backslash in one.                                                       *)
Modes == {"out", "in", "escape"}

(* The equation of WithoutBlanks.                                          *)
BlanksEq(f, t) ==
  \A j \in 1 .. Len(t) + 1 : \A where \in Modes :
    f[j][where] = IF j = Len(t) + 1 THEN <<>>
                  ELSE IF where = "out" /\ t[j] = Blank THEN f[j + 1][where]
                  ELSE <<t[j]>> \o f[j + 1][After(where, t[j])]

(* There is such a function, and WithoutBlanks is its first value.         *)
LEMMA BlanksFunction ==
  ASSUME NEW t \in Texts
  PROVE  \E f \in [1 .. Len(t) + 1 -> [Modes -> Texts]] :
           BlanksEq(f, t) /\ WithoutBlanks(t) = f[1]["out"]
<1> DEFINE L == Len(t)
           Step(g, j, w) == IF j = L + 1 THEN <<>>
                  ELSE IF w = "out" /\ t[j] = Blank THEN g[j + 1][w]
                  ELSE <<t[j]>> \o g[j + 1][After(w, t[j])]
           D == 1 .. L + 1
           V == [Modes -> Texts]
           rank == [j \in D |-> L + 1 - j]
           phi == [g \in [D -> V] |->
                     [j \in D |-> [w \in Modes |-> Step(g, j, w)]]]
<1>1. L \in Nat /\ \A j \in 1 .. L : t[j] \in Units \cup {NUL}
  BY LenProperties, ElementOfSeq DEF Texts
<1>2. /\ rank \in [D -> Nat] /\ \A j \in D : rank[j] <= L + 1
      /\ \A j, k \in D : k > j => rank[k] < rank[j]
  BY <1>1
<1>3. \A w \in Modes : \A u : After(w, u) \in Modes
  BY DEF After, Modes
<1>4. ASSUME NEW g \in [D -> V], NEW j \in D, NEW w \in Modes
      PROVE  Step(g, j, w) \in Texts
  <2>1. <<>> \in Texts
    BY EmptySeq DEF Texts
  <2>2. CASE j # L + 1
    <3>1. j + 1 \in D /\ t[j] \in Units \cup {NUL}
      BY <1>1, <2>2
    <3>2. \A v \in Modes : g[j + 1][v] \in Texts
      BY <3>1
    <3>3. <<t[j]>> \o g[j + 1][After(w, t[j])] \in Texts
      <4>1. <<t[j]>> \in Texts /\ g[j + 1][After(w, t[j])] \in Texts
        BY <1>3, <3>1, <3>2 DEF Texts
      <4>2. QED
        BY <4>1, ConcatProperties DEF Texts
    <3>4. QED
      BY <2>1, <3>2, <3>3
  <2>3. QED
    BY <2>1, <2>2
<1>5. ASSUME NEW g \in [D -> V], NEW h \in [D -> V], NEW j \in D,
             \A k \in D : rank[k] < rank[j] => g[k] = h[k]
      PROVE  \A w \in Modes : Step(g, j, w) = Step(h, j, w)
  <2>1. CASE j # L + 1
    <3>1. j + 1 \in D /\ j + 1 > j
      BY <1>1, <2>1
    <3>2. g[j + 1] = h[j + 1]
      BY <1>2, <1>5, <3>1
    <3>3. QED
      BY <3>2
  <2>2. QED
    BY <2>1
<1> HIDE DEF rank, Step
<1>6. phi \in [[D -> V] -> [D -> V]]
  BY <1>4
<1>7. \A g, h \in [D -> V] : \A j \in D :
        (\A k \in D : rank[k] < rank[j] => g[k] = h[k])
          => phi[g][j] = phi[h][j]
  <2>1. SUFFICES ASSUME NEW g \in [D -> V], NEW h \in [D -> V], NEW j \in D,
                        \A k \in D : rank[k] < rank[j] => g[k] = h[k]
                 PROVE  phi[g][j] = phi[h][j]
    OBVIOUS
  <2>2. \A w \in Modes : Step(g, j, w) = Step(h, j, w)
    BY <1>5, <2>1
  <2>3. QED
    BY <2>2
<1>8. V # {}
  <2>1. <<>> \in Texts
    BY EmptySeq DEF Texts
  <2>2. [w \in Modes |-> <<>>] \in V
    BY <2>1
  <2>3. QED
    BY <2>2
<1>9. PICK f \in [D -> V] : f = phi[f]
  <2> HIDE DEF phi, V, D, L
  <2>1. WellDefined(phi, D, V, rank, L + 1)
    <3>1. L + 1 \in Nat
      BY <1>1
    <3>2. QED
      BY <1>2, <1>6, <1>7, <1>8, <3>1 DEF WellDefined
  <2>2. QED
    BY <2>1, Recursion
<1> DEFINE Fix(h) == h = [j \in D |-> [w \in Modes |-> Step(h, j, w)]]
           from == CHOOSE h : Fix(h)
<1>10. Fix(f)
  BY <1>9
<1>11. Fix(from)
  BY <1>10
<1>12. WithoutBlanks(t) = from[1]["out"]
  BY Zenon DEF WithoutBlanks, Step, Modes
<1> HIDE DEF from, D
<1>13. ASSUME NEW j \in D, NEW w \in Modes
       PROVE  from[j][w] = Step(from, j, w)
  BY <1>11
<1>14. BlanksEq(from, t)
  BY <1>13, Zenon DEF BlanksEq, Step, D
<1>15. from \in [D -> V]
  <2> DEFINE S == {k \in Nat : k \in D
        => \A w \in Modes : from[k][w] \in Texts}
  <2>1. \A j \in Nat : j > L + 1 => j \in S
    BY <1>1 DEF D
  <2>2. ASSUME NEW j \in 0 .. L + 1, \A k \in Nat : k > j => k \in S
        PROVE  j \in S
    <3> SUFFICES ASSUME j \in D, NEW w \in Modes
                 PROVE  from[j][w] \in Texts
      BY <1>1
    <3>1. from[j][w] = Step(from, j, w)
      BY <1>13
    <3>2. CASE j = L + 1
      BY <3>1, <3>2, EmptySeq DEF Step, Texts
    <3>3. CASE j # L + 1
      <4>1. j + 1 \in D /\ j + 1 \in S /\ t[j] \in Units \cup {NUL}
        BY <1>1, <2>2, <3>3 DEF D
      <4>2. \A v \in Modes : from[j + 1][v] \in Texts
        BY <4>1
      <4>3. <<t[j]>> \o from[j + 1][After(w, t[j])] \in Texts
        <5>1. <<t[j]>> \in Texts /\ from[j + 1][After(w, t[j])] \in Texts
          BY <1>3, <4>1, <4>2 DEF Texts
        <5>2. QED
          BY <5>1, ConcatProperties DEF Texts
      <4>4. QED
        BY <3>1, <3>3, <4>2, <4>3 DEF Step
    <3>4. QED
      BY <3>2, <3>3
  <2> HIDE DEF S
  <2>3. S = Nat
    <3>1. S \in SUBSET Nat /\ L + 1 \in Nat
      BY <1>1 DEF S
    <3>2. QED
      BY <2>1, <2>2, <3>1, Downwards
  <2>4. \A j \in D : j \in Nat
    BY <1>1 DEF D
  <2>5. \A j \in D, w \in Modes : from[j][w] \in Texts
    BY <2>3, <2>4 DEF S
  <2>6. from = [j \in D |-> [w \in Modes |-> from[j][w]]]
    BY <1>11, <1>13
  <2>7. QED
    BY <2>5, <2>6
<1>16. QED
  BY <1>12, <1>14, <1>15 DEF D

(* A text with another in front of it: behind that one nothing changes.    *)
LEMMA BlanksShift ==
  ASSUME NEW c \in Texts, NEW u \in Texts, NEW f, NEW g,
         BlanksEq(f, c \o u), BlanksEq(g, u)
  PROVE  \A j \in 1 .. Len(u) + 1 : \A where \in Modes :
           f[Len(c) + j][where] = g[j][where]
<1> DEFINE L == Len(u)
           k == Len(c)
           t == c \o u
           S == {j \in Nat : j \in 1 .. L + 1 =>
                   \A w \in Modes : f[k + j][w] = g[j][w]}
<1>1. /\ L \in Nat /\ k \in Nat /\ Len(t) = k + L
      /\ \A j \in 1 .. L : t[k + j] = u[j]
  <2>1. L \in Nat /\ k \in Nat
    BY LenProperties DEF Texts
  <2>2. /\ Len(t) = k + L
        /\ \A i \in 1 .. k + L : t[i] = IF i <= k THEN c[i] ELSE u[i - k]
    BY ConcatProperties DEF Texts
  <2> HIDE DEF L, k, t
  <2>3. \A j \in 1 .. L : k + j \in 1 .. k + L /\ ~(k + j <= k)
          /\ k + j - k = j
    BY <2>1
  <2>4. QED
    BY <2>1, <2>2, <2>3
<1>2. /\ BlanksEq(f, t) /\ BlanksEq(g, u)
      /\ \A w \in Modes : \A x : After(w, x) \in Modes
  BY DEF After, Modes
<1> HIDE DEF t, k
<1>3. \A j \in Nat : j > L + 1 => j \in S
  BY <1>1
<1>4. ASSUME NEW j \in 0 .. L + 1, \A i \in Nat : i > j => i \in S
      PROVE  j \in S
  <2> SUFFICES ASSUME j \in 1 .. L + 1, NEW w \in Modes
               PROVE  f[k + j][w] = g[j][w]
    BY <1>1
  <2>1. k + j \in 1 .. Len(t) + 1 /\ (k + j = Len(t) + 1 <=> j = L + 1)
    BY <1>1
  <2>2. f[k + j][w] =
          IF j = L + 1 THEN <<>>
          ELSE IF w = "out" /\ t[k + j] = Blank THEN f[k + j + 1][w]
          ELSE <<t[k + j]>> \o f[k + j + 1][After(w, t[k + j])]
    BY <1>2, <2>1, Zenon DEF BlanksEq
  <2>3. g[j][w] = IF j = L + 1 THEN <<>>
                  ELSE IF w = "out" /\ u[j] = Blank THEN g[j + 1][w]
                  ELSE <<u[j]>> \o g[j + 1][After(w, u[j])]
    BY <1>2, Zenon DEF BlanksEq
  <2>4. CASE j # L + 1
    <3> HIDE DEF S, L
    <3>1. L \in Nat /\ j \in 1 .. L
      BY <1>1, <2>4
    <3>2. t[k + j] = u[j]
      BY <1>1, <3>1
    <3>3. j + 1 \in Nat /\ j + 1 > j /\ j + 1 \in 1 .. L + 1
      BY <3>1
    <3>4. j + 1 \in S
      BY <1>4, <3>3
    <3>5. k + j + 1 = k + (j + 1)
      BY <1>1
    <3>6. \A v \in Modes : f[k + j + 1][v] = g[j + 1][v]
      BY <3>3, <3>4, <3>5 DEF S
    <3>7. After(w, u[j]) \in Modes
      BY <1>2
    <3>8. QED
      BY <2>2, <2>3, <2>4, <3>2, <3>6, <3>7
  <2>5. QED
    BY <2>2, <2>3, <2>4
<1> HIDE DEF S
<1>5. S = Nat
  <2>1. S \in SUBSET Nat /\ L + 1 \in Nat
    BY <1>1 DEF S
  <2>2. QED
    BY <1>3, <1>4, <2>1, Downwards
<1>6. \A j \in 1 .. L + 1 : j \in Nat
  BY <1>1
<1>7. QED
  BY <1>5, <1>6 DEF S, k

(* The text c says d, whatever comes after it.                             *)
Says(c, d) ==
  /\ c \in Texts /\ d \in Texts
  /\ \A u \in Texts : WithoutBlanks(c \o u) = d \o WithoutBlanks(u)

(* Without its blanks a text is a text; of nothing, nothing is left.       *)
LEMMA BlanksInTexts ==
  /\ \A t \in Texts : WithoutBlanks(t) \in Texts
  /\ WithoutBlanks(<<>>) = <<>>
<1>1. ASSUME NEW t \in Texts
      PROVE  WithoutBlanks(t) \in Texts
  <2>1. 1 \in 1 .. Len(t) + 1 /\ "out" \in Modes
    BY LenProperties DEF Texts, Modes
  <2>2. PICK f \in [1 .. Len(t) + 1 -> [Modes -> Texts]] :
               WithoutBlanks(t) = f[1]["out"]
    BY BlanksFunction
  <2>3. QED
    BY <2>1, <2>2
<1>2. WithoutBlanks(<<>>) = <<>>
  <2>1. <<>> \in Texts /\ Len(<<>>) = 0
    BY EmptySeq DEF Texts
  <2>2. PICK f : BlanksEq(f, <<>>) /\ WithoutBlanks(<<>>) = f[1]["out"]
    BY <2>1, BlanksFunction
  <2>3. 1 \in 1 .. Len(<<>>) + 1 /\ 1 = Len(<<>>) + 1 /\ "out" \in Modes
    BY <2>1 DEF Modes
  <2>4. QED
    BY <2>2, <2>3 DEF BlanksEq
<1>3. QED
  BY <1>1, <1>2

(* So it is that with its blanks taken out.                                *)
LEMMA SaysIs ==
  ASSUME NEW c, NEW d, Says(c, d)
  PROVE  WithoutBlanks(c) = d
<1>1. <<>> \in Texts
  BY EmptySeq DEF Texts
<1>2. c \o <<>> = c /\ d \o <<>> = d
  BY ConcatEmptySeq DEF Says, Texts
<1>3. QED
  BY <1>1, <1>2, BlanksInTexts DEF Says

(* Nothing says nothing.                                                   *)
LEMMA SaysNothing == Says(<<>>, <<>>)
<1>1. <<>> \in Texts /\ \A u \in Texts : <<>> \o u = u
  BY EmptySeq, ConcatEmptySeq DEF Texts
<1>2. \A u \in Texts : <<>> \o WithoutBlanks(u) = WithoutBlanks(u)
  BY <1>1, BlanksInTexts
<1>3. QED
  BY <1>1, <1>2 DEF Says

(* Putting texts together is associative.                                  *)
LEMMA Associative ==
  ASSUME NEW p \in Texts, NEW q \in Texts, NEW r \in Texts
  PROVE  (p \o q) \o r = p \o (q \o r)
<1>1. /\ p \in Seq(Units \cup {NUL}) /\ q \in Seq(Units \cup {NUL})
      /\ r \in Seq(Units \cup {NUL})
  BY DEF Texts
<1>2. QED
  BY <1>1, ConcatAssociative

(* What two texts say, the one behind the other, they say together.        *)
LEMMA SaysBoth ==
  ASSUME NEW a, NEW b, NEW c, NEW d, Says(a, c), Says(b, d)
  PROVE  Says(a \o b, c \o d)
<1>1. a \o b \in Texts /\ c \o d \in Texts
  BY ConcatProperties DEF Says, Texts
<1>2. ASSUME NEW u \in Texts
      PROVE  WithoutBlanks((a \o b) \o u) = (c \o d) \o WithoutBlanks(u)
  <2>1. b \o u \in Texts /\ WithoutBlanks(u) \in Texts
    BY ConcatProperties, BlanksInTexts DEF Says, Texts
  <2>2. (a \o b) \o u = a \o (b \o u)
    BY Associative DEF Says
  <2>3. WithoutBlanks(a \o (b \o u)) = c \o (d \o WithoutBlanks(u))
    BY <2>1 DEF Says
  <2>4. (c \o d) \o WithoutBlanks(u) = c \o (d \o WithoutBlanks(u))
    <3>1. c \in Texts /\ d \in Texts
      BY DEF Says
    <3>2. QED
      BY <2>1, <3>1, Associative
  <2>5. QED
    BY <2>2, <2>3, <2>4
<1>3. QED
  BY <1>1, <1>2 DEF Says

(* A unit that begins no string says itself, a blank nothing.              *)
LEMMA SaysUnit ==
  ASSUME NEW x \in Units \cup {NUL}, x # Quote
  PROVE  Says(<<x>>, IF x = Blank THEN <<>> ELSE <<x>>)
<1>1. <<x>> \in Texts /\ Len(<<x>>) = 1 /\ <<>> \in Texts
  BY EmptySeq DEF Texts
<1>2. ASSUME NEW u \in Texts
      PROVE  WithoutBlanks(<<x>> \o u) =
               (IF x = Blank THEN <<>> ELSE <<x>>) \o WithoutBlanks(u)
  <2> DEFINE t == <<x>> \o u
  <2>1. Len(u) \in Nat /\ t \in Texts /\ Len(t) = Len(u) + 1 /\ t[1] = x
    <3>1. Len(u) \in Nat
      BY LenProperties DEF Texts
    <3>2. 1 \in 1 .. Len(<<x>>) + Len(u) /\ 1 <= Len(<<x>>) /\ <<x>>[1] = x
      BY <1>1, <3>1
    <3>3. QED
      BY <1>1, <3>1, <3>2, ConcatProperties DEF Texts
  <2>2. PICK f : BlanksEq(f, t) /\ WithoutBlanks(t) = f[1]["out"]
    BY <2>1, BlanksFunction
  <2>3. PICK g : BlanksEq(g, u) /\ WithoutBlanks(u) = g[1]["out"]
    BY BlanksFunction
  <2>4. f[2]["out"] = g[1]["out"]
    <3>1. 1 \in 1 .. Len(u) + 1 /\ "out" \in Modes
      BY <2>1 DEF Modes
    <3>2. \A j \in 1 .. Len(u) + 1 : \A w \in Modes :
            f[Len(<<x>>) + j][w] = g[j][w]
      <4> DEFINE c == <<x>>
      <4>1. c \in Texts /\ BlanksEq(f, c \o u)
        BY <1>1, <2>2
      <4> HIDE DEF c
      <4>2. \A j \in 1 .. Len(u) + 1 : \A w \in Modes :
              f[Len(c) + j][w] = g[j][w]
        BY <2>3, <4>1, BlanksShift
      <4>3. QED
        BY <4>2 DEF c
    <3>3. QED
      BY <1>1, <3>1, <3>2
  <2> HIDE DEF t
  <2>5. f[1]["out"] = IF x = Blank THEN f[2]["out"]
                      ELSE <<x>> \o f[2][After("out", x)]
    <3>1. 1 \in 1 .. Len(t) + 1 /\ 1 # Len(t) + 1 /\ 1 + 1 = 2
      BY <2>1
    <3>2. "out" \in Modes
      BY DEF Modes
    <3>3. f[1]["out"] = IF t[1] = Blank THEN f[1 + 1]["out"]
                        ELSE <<t[1]>> \o f[1 + 1][After("out", t[1])]
      BY <2>2, <3>1, <3>2, Zenon DEF BlanksEq
    <3>4. QED
      BY <2>1, <3>1, <3>3
  <2>6. After("out", x) = "out"
    BY DEF After
  <2>7. <<>> \o WithoutBlanks(u) = WithoutBlanks(u)
    BY BlanksInTexts, ConcatEmptySeq DEF Texts
  <2>8. QED
    BY <2>2, <2>3, <2>4, <2>5, <2>6, <2>7 DEF t
<1>3. QED
  BY <1>1, <1>2 DEF Says

(* A text from one of its units on, with something behind it.              *)
LEMMA TextFirst ==
  ASSUME text \in Texts, NEW end \in 1 .. Len(text), NEW j \in 1 .. end,
         NEW w \in Texts
  PROVE  /\ text[j] \in Units \cup {NUL}
         /\ SubSeq(text, j + 1, end) \in Texts
         /\ SubSeq(text, j, end) = <<text[j]>> \o SubSeq(text, j + 1, end)
         /\ SubSeq(text, j, end) \o w =
              <<text[j]>> \o (SubSeq(text, j + 1, end) \o w)
<1> DEFINE rest == SubSeq(text, j + 1, end)
<1>1. Len(text) \in Nat /\ j \in 1 .. Len(text) /\ end \in j .. Len(text)
  BY LenProperties DEF Texts
<1>2. text[j] \in Units \cup {NUL}
  BY <1>1, ElementOfSeq DEF Texts
<1>3. rest \in Texts
  <2>1. \A k \in j + 1 .. end : k \in 1 .. Len(text)
    BY <1>1
  <2>2. \A k \in j + 1 .. end : text[k] \in Units \cup {NUL}
    BY <2>1, ElementOfSeq DEF Texts
  <2>3. j + 1 \in Int /\ end \in Int
    BY <1>1
  <2>4. QED
    BY <2>2, <2>3, SubSeqProperties DEF Texts
<1>4. SubSeq(text, j, end) = <<text[j]>> \o rest
  BY <1>1, SubSeqRecursiveFirst DEF Texts
<1>5. <<text[j]>> \in Texts
  BY <1>2 DEF Texts
<1> HIDE DEF rest
<1>6. (<<text[j]>> \o rest) \o w = <<text[j]>> \o (rest \o w)
  BY <1>3, <1>5, Associative
<1>7. QED
  BY <1>2, <1>3, <1>4, <1>6 DEF rest

(* A place on the path that is not its end, and the next one.              *)
LEMMA NextOnPath ==
  ASSUME text \in Texts, NEW path, ScanEq(path), NEW end \in 1 .. Len(text),
         NEW j \in Nat, j < end, Ends(path[j], end)
  PROVE  LET n == IF text[j] = Backslash THEN j + 2 ELSE j + 1
         IN text[j] # Quote /\ n <= end /\ Ends(path[n], end)
<1>1. path[j] # {j} /\ end \in Nat
  BY LenProperties DEF Ends, Texts
<1>2. text[j] # Quote
  BY <1>1 DEF ScanEq
<1>3. QED
  BY <1>2, EscapesFirst

(* A string says itself, blanks and all.                                   *)
LEMMA SaysString ==
  ASSUME text \in Texts, NEW path, ScanEq(path),
         NEW end \in 1 .. Len(text), text[end] = Quote,
         NEW i \in 1 .. end - 1, text[i] = Quote, Ends(path[i + 1], end)
  PROVE  Says(SubSeq(text, i, end), SubSeq(text, i, end))
<1> DEFINE c == SubSeq(text, i, end)
<1>1. /\ Len(text) \in Nat /\ end \in Nat /\ i \in Nat /\ i < end
      /\ i \in 1 .. end /\ i + 1 \in 1 .. end
  BY LenProperties DEF Texts
<1>2. /\ c \in Texts /\ Len(c) = end - i + 1
      /\ \A k \in 1 .. end - i + 1 : c[k] = text[i + k - 1]
  <2>1. \A k \in i .. end : k \in 1 .. Len(text)
    BY <1>1
  <2>2. \A k \in i .. end : text[k] \in Units \cup {NUL}
    BY <2>1, ElementOfSeq DEF Texts
  <2>3. i \in Int /\ end \in Int /\ i <= end
    BY <1>1
  <2>4. QED
    BY <2>2, <2>3, SubSeqProperties DEF Texts
<1> HIDE DEF c
<1> SUFFICES ASSUME NEW u \in Texts
             PROVE  WithoutBlanks(c \o u) = c \o WithoutBlanks(u)
  BY <1>2 DEF Says, c
<1> DEFINE t == c \o u
           w == WithoutBlanks(u)
<1>3. /\ t \in Texts /\ Len(t) = end - i + 1 + Len(u) /\ Len(u) \in Nat
      /\ \A k \in 1 .. end - i + 1 : t[k] = text[i + k - 1]
  <2>1. Len(u) \in Nat
    BY LenProperties DEF Texts
  <2>2. /\ t \in Texts /\ Len(t) = Len(c) + Len(u)
        /\ \A k \in 1 .. Len(c) + Len(u) :
             t[k] = IF k <= Len(c) THEN c[k] ELSE u[k - Len(c)]
    BY <1>2, ConcatProperties DEF Texts
  <2> HIDE DEF t
  <2>3. \A k \in 1 .. end - i + 1 : k <= Len(c) /\ k \in 1 .. Len(c) + Len(u)
    BY <1>1, <1>2, <2>1
  <2>4. QED
    BY <1>2, <2>1, <2>2, <2>3
<1>4. PICK f : BlanksEq(f, t) /\ WithoutBlanks(t) = f[1]["out"]
  BY <1>3, BlanksFunction
<1>5. PICK g : BlanksEq(g, u) /\ w = g[1]["out"]
  BY BlanksFunction
<1>6. f[end - i + 2]["out"] = w
  <2>1. \A j \in 1 .. Len(u) + 1 : \A v \in Modes :
          f[Len(c) + j][v] = g[j][v]
    <3>1. BlanksEq(f, c \o u)
      BY <1>4
    <3>2. BlanksEq(g, u)
      BY <1>5
    <3>3. c \in Texts
      BY <1>2
    <3> HIDE DEF w, t
    <3>4. QED
      BY <3>1, <3>2, <3>3, BlanksShift
  <2>2. 1 \in 1 .. Len(u) + 1 /\ "out" \in Modes /\ Len(c) + 1 = end - i + 2
    BY <1>1, <1>2, <1>3 DEF Modes
  <2>3. QED
    BY <1>5, <2>1, <2>2
<1>7. w \in Texts
  BY BlanksInTexts
<1> HIDE DEF t, w
<1>8. ASSUME NEW j \in i .. end, NEW v \in Modes, v = "out" => text[j] # Blank
      PROVE  f[j - i + 1][v] = <<text[j]>> \o f[j - i + 2][After(v, text[j])]
  <2> DEFINE k == j - i + 1
  <2>1. /\ k \in 1 .. Len(t) + 1 /\ k # Len(t) + 1 /\ k + 1 = j - i + 2
        /\ k \in 1 .. end - i + 1 /\ i + k - 1 = j
    BY <1>1, <1>3
  <2>2. t[k] = text[j]
    BY <1>3, <2>1
  <2> HIDE DEF k
  <2>3. f[k][v] = IF v = "out" /\ t[k] = Blank THEN f[k + 1][v]
                  ELSE <<t[k]>> \o f[k + 1][After(v, t[k])]
    BY <1>4, <2>1, Zenon DEF BlanksEq
  <2>4. QED
    BY <1>8, <2>1, <2>2, <2>3 DEF k
<1>9. /\ "in" \in Modes /\ "out" \in Modes /\ "escape" \in Modes
      /\ After("out", Quote) = "in" /\ After("in", Quote) = "out"
      /\ After("in", Backslash) = "escape" /\ \A x : After("escape", x) = "in"
      /\ \A x : x # Quote /\ x # Backslash => After("in", x) = "in"
  BY DEF Modes, After, Quote, Backslash
<1> DEFINE Good(j) == f[j - i + 1]["in"] = SubSeq(text, j, end) \o w
           S == {j \in Nat : j \in i + 1 .. end /\ Ends(path[j], end)
             => Good(j)}
<1>10. \A j \in Nat : j > end => j \in S
  BY <1>1
<1>11. ASSUME NEW j \in 0 .. end, \A k \in Nat : k > j => k \in S
       PROVE  j \in S
  <2> SUFFICES ASSUME j \in i + 1 .. end, Ends(path[j], end)
               PROVE  Good(j)
    BY <1>1
  <2>1. j \in Nat /\ j \in 1 .. end /\ j \in i .. end
    BY <1>1
  <2>0. \A k \in Nat :
          k > j /\ k \in i + 1 .. end /\ Ends(path[k], end) => Good(k)
    BY <1>11
  <2>2. SubSeq(text, j, end) \o w = <<text[j]>> \o (SubSeq(text, j + 1,
          end) \o w)
    BY <1>7, <2>1, TextFirst
  <2>3. CASE j = end
    <3>1. f[j - i + 1]["in"] = <<text[j]>> \o w
      <4>1. f[j - i + 1]["in"] = <<text[j]>> \o f[j - i + 2][After("in",
              text[j])]
        BY <1>8, <1>9, <2>1
      <4>2. After("in", text[j]) = "out"
        BY <1>9, <2>3
      <4>3. QED
        BY <1>6, <2>3, <4>1, <4>2
    <3>2. SubSeq(text, j + 1, end) = <<>>
      BY <1>1, <2>3, SubSeqEmpty
    <3>3. <<>> \o w = w
      BY <1>7, ConcatEmptySeq DEF Texts
    <3>4. QED
      BY <2>2, <3>1, <3>2, <3>3
  <2>4. CASE j < end /\ text[j] # Backslash
    <3>1. text[j] # Quote /\ j + 1 <= end /\ Ends(path[j + 1], end)
      BY <2>1, <2>4, NextOnPath
    <3>2. j + 1 \in S /\ j + 1 \in i + 1 .. end
      BY <1>1, <1>11, <2>1, <3>1
    <3>3. f[j + 1 - i + 1]["in"] = SubSeq(text, j + 1, end) \o w
      <4>1. j + 1 \in Nat /\ j + 1 > j
        BY <2>1
      <4>2. Good(j + 1)
        <5> HIDE DEF Good, S
        <5>1. QED
          BY <2>0, <3>1, <3>2, <4>1
      <4>3. QED
        BY <4>2
    <3>4. f[j - i + 1]["in"] = <<text[j]>> \o f[j - i + 2][After("in",
            text[j])]
      BY <1>8, <1>9, <2>1
    <3>5. j + 1 - i + 1 = j - i + 2 /\ After("in", text[j]) = "in"
      BY <1>1, <1>9, <2>1, <2>4, <3>1
    <3>6. QED
      BY <2>2, <3>3, <3>4, <3>5
  <2>5. CASE j < end /\ text[j] = Backslash
    <3>1. j + 2 <= end /\ Ends(path[j + 2], end)
      BY <2>1, <2>5, NextOnPath
    <3>2. /\ j + 2 \in S /\ j + 2 \in i + 1 .. end
          /\ j + 1 \in 1 .. end /\ j + 1 \in i .. end
      BY <1>1, <1>11, <2>1, <3>1
    <3>3. f[j + 2 - i + 1]["in"] = SubSeq(text, j + 2, end) \o w
      <4>1. j + 2 \in Nat /\ j + 2 > j
        BY <2>1
      <4>2. Good(j + 2)
        <5> HIDE DEF Good, S
        <5>1. QED
          BY <2>0, <3>1, <3>2, <4>1
      <4>3. QED
        BY <4>2
    <3>4. f[j - i + 1]["in"] = <<text[j]>> \o f[j - i + 2]["escape"]
      <4>1. f[j - i + 1]["in"] = <<text[j]>> \o f[j - i + 2][After("in",
              text[j])]
        BY <1>8, <1>9, <2>1
      <4>2. QED
        BY <1>9, <2>5, <4>1
    <3>5. f[j + 1 - i + 1]["escape"] =
            <<text[j + 1]>> \o f[j + 1 - i + 2]["in"]
      <4> DEFINE k == j + 1
      <4>0. k \in i .. end
        BY <3>2
      <4> HIDE DEF k
      <4>3. f[k - i + 1]["escape"] =
              <<text[k]>> \o f[k - i + 2][After("escape", text[k])]
        BY <1>8, <1>9, <4>0
      <4>1. f[j + 1 - i + 1]["escape"] =
              <<text[j + 1]>> \o f[j + 1 - i + 2][After("escape", text[j + 1])]
        BY <4>3 DEF k
      <4>2. QED
        BY <1>9, <4>1
    <3>6. j + 1 - i + 1 = j - i + 2 /\ j + 1 - i + 2 = j + 2 - i + 1
      BY <1>1, <2>1
    <3>7. SubSeq(text, j + 1, end) \o w =
            <<text[j + 1]>> \o (SubSeq(text, j + 1 + 1, end) \o w)
      BY <1>7, <3>2, TextFirst
    <3>8. j + 1 + 1 = j + 2
      BY <2>1
    <3>9. QED
      BY <2>2, <3>3, <3>4, <3>5, <3>6, <3>7, <3>8
  <2>6. QED
    BY <1>1, <2>1, <2>3, <2>4, <2>5
<1> HIDE DEF S
<1>12. S = Nat
  <2>1. S \in SUBSET Nat
    BY DEF S
  <2>2. QED
    BY <1>1, <1>10, <1>11, <2>1, Downwards
<1>13. f[i + 1 - i + 1]["in"] = SubSeq(text, i + 1, end) \o w
  <2>1. i + 1 \in i + 1 .. end
    BY <1>1
  <2>2. i + 1 \in S
    BY <1>1, <1>12
  <2>3. QED
    BY <2>1, <2>2 DEF S
<1>14. f[i - i + 1]["out"] = <<text[i]>> \o f[i - i + 2]["in"]
  <2>1. i \in i .. end /\ text[i] # Blank
    <3>1. Quote # Blank
      BY DEF Quote, Blank
    <3>2. text[i] # Blank
      BY <3>1
    <3>3. i \in i .. end
      BY <1>1
    <3>4. QED
      BY <3>2, <3>3
  <2>2. f[i - i + 1]["out"] = <<text[i]>> \o f[i - i + 2][After("out",
          text[i])]
    BY <1>8, <1>9, <2>1
  <2>3. QED
    BY <1>9, <2>2
<1>15. i + 1 - i + 1 = i - i + 2 /\ i - i + 1 = 1
  BY <1>1
<1>16. c \o w = <<text[i]>> \o (SubSeq(text, i + 1, end) \o w)
  BY <1>1, <1>7, TextFirst DEF c
<1>17. QED
  BY <1>4, <1>13, <1>14, <1>15, <1>16 DEF t, w

-----------------------------------------------------------------------------
(* A string is written as it was read *)

(* The characters of a string as they are written: an escape that was      *)
(* decoded is that escape again.                                           *)
LEMMA RewrittenIs ==
  /\ \A u \in DOMAIN Decoded : Rewritten(Decoded[u]) = <<Backslash, u>>
  /\ Rewritten("U+1F600") = Pair
  /\ \A u \in Units \cup {NUL} :
       u \notin {Quote, Backslash} => Rewritten(u) = <<u>>
<1>1. /\ DOMAIN Decoded =
           {Quote, Backslash, Literal, "u0000", "u01", "u41", "u20AC"}
      /\ Decoded[Quote] = Quote /\ Decoded[Backslash] = Backslash
      /\ Decoded[Literal] = "tab+rue" /\ Decoded["u01"] = "U+01"
      /\ Decoded["u41"] = "U+41" /\ Decoded["u20AC"] = "U+20AC"
      /\ Decoded["u0000"] = "U+00"
  BY DEF Decoded, Quote, Backslash, Literal
<1>2. Range(Decoded) =
        {Quote, Backslash, "tab+rue", "U+00", "U+01", "U+41", "U+20AC"}
  BY <1>1 DEF Range
<1>3. ASSUME NEW u \in DOMAIN Decoded
      PROVE  Rewritten(Decoded[u]) = <<Backslash, u>>
  <2> DEFINE e == CHOOSE e \in DOMAIN Decoded : Decoded[e] = Decoded[u]
  <2>1. e \in DOMAIN Decoded /\ Decoded[e] = Decoded[u]
    OBVIOUS
  <2> HIDE DEF e
  <2>2. e = u
    BY <1>1, <2>1 DEF Quote, Backslash, Literal
  <2>3. Decoded[u] # "U+1F600" /\ Decoded[u] \in Range(Decoded)
    BY <1>1, <1>2 DEF Quote, Backslash
  <2>4. Rewritten(Decoded[u]) = <<Backslash, e>>
    BY <2>3 DEF Rewritten, e
  <2>5. QED
    BY <2>2, <2>4
<1>4. Rewritten("U+1F600") = Pair
  BY DEF Rewritten
<1>5. ASSUME NEW u \in Units \cup {NUL}, u \notin {Quote, Backslash}
      PROVE  Rewritten(u) = <<u>>
  <2>1. u # "U+1F600" /\ u \notin Range(Decoded)
    BY <1>2, <1>5 DEF Units, NUL, Quote, Backslash, Literal, Blank
  <2>2. QED
    BY <2>1 DEF Rewritten
<1>6. QED
  BY <1>3, <1>4, <1>5

(* What a unit is rewritten to is text that the buffer can hold.           *)
LEMMA RewrittenInOut ==
  ASSUME NEW u \in Out
  PROVE  Rewritten(u) \in Seq(Out)
<1>1. Units \subseteq Out /\ DOMAIN Decoded \subseteq Units
        /\ Backslash \in Units
  BY DEF Out, Units, Decoded, Quote, Backslash, Literal
<1>2. CASE u = "U+1F600"
  <2>1. Pair \in Seq(Out)
    <3>1. Backslash \in Out /\ "uD83D" \in Out /\ "uDE00" \in Out
      BY DEF Out, Units
    <3>2. QED
      BY <3>1 DEF Pair
  <2>2. QED
    BY <1>2, <2>1, RewrittenIs
<1>3. CASE u # "U+1F600" /\ u \in Range(Decoded)
  <2>1. PICK e \in DOMAIN Decoded : u = Decoded[e]
    BY <1>3 DEF Range
  <2>2. <<Backslash, e>> \in Seq(Out)
    BY <1>1
  <2>3. QED
    BY <2>1, <2>2, RewrittenIs
<1>4. CASE u # "U+1F600" /\ u \notin Range(Decoded)
  BY <1>4 DEF Rewritten
<1>5. QED
  BY <1>2, <1>3, <1>4

(* The equation of Body.                                                   *)
BodyEq(f, s) ==
  \A i \in 1 .. Len(s) + 1 :
    f[i] = IF i = Len(s) + 1 THEN <<Quote>> ELSE Rewritten(s[i]) \o f[i + 1]

(* There is the function that Body recurs by, and Body is its first value. *)
LEMMA BodyFunction ==
  ASSUME NEW s \in Seq(Out)
  PROVE  \E f \in [1 .. Len(s) + 1 -> Seq(Out)] : BodyEq(f, s)
    /\ Body(s) = f[1]
<1> DEFINE L == Len(s)
           Step(g, i) ==
             IF i = L + 1 THEN <<Quote>> ELSE Rewritten(s[i]) \o g[i + 1]
           D == 1 .. L + 1
           V == Seq(Out)
           rank == [i \in D |-> L + 1 - i]
           phi == [g \in [D -> V] |-> [i \in D |-> Step(g, i)]]
<1>1. L \in Nat /\ \A i \in 1 .. L : s[i] \in Out
  BY LenProperties, ElementOfSeq
<1>2. /\ rank \in [D -> Nat] /\ \A i \in D : rank[i] <= L + 1
      /\ \A i, k \in D : k > i => rank[k] < rank[i]
  BY <1>1
<1>3. <<Quote>> \in V
  <2>1. Quote \in Out
    BY DEF Out, Units
  <2>2. QED
    BY <2>1
<1>4. ASSUME NEW g, NEW i \in D, i # L + 1 => g[i + 1] \in V
      PROVE  Step(g, i) \in V
  <2>1. CASE i # L + 1
    <3>1. Rewritten(s[i]) \in V
      BY <1>1, <2>1, RewrittenInOut
    <3>2. QED
      BY <1>4, <2>1, <3>1, ConcatProperties
  <2>2. QED
    BY <1>3, <2>1
<1>5. ASSUME NEW g \in [D -> V], NEW h \in [D -> V], NEW i \in D,
             \A k \in D : rank[k] < rank[i] => g[k] = h[k]
      PROVE  Step(g, i) = Step(h, i)
  <2>1. CASE i # L + 1
    <3>1. i + 1 \in D /\ i + 1 > i
      BY <1>1, <2>1
    <3>2. g[i + 1] = h[i + 1]
      BY <1>2, <1>5, <3>1
    <3>3. QED
      BY <3>2
  <2>2. QED
    BY <2>1
<1>6. \A i \in D : i # L + 1 => i + 1 \in D
  BY <1>1
<1> HIDE DEF rank, Step, V
<1>7. phi \in [[D -> V] -> [D -> V]]
  BY <1>4, <1>6
<1>8. \A g, h \in [D -> V] : \A i \in D :
        (\A k \in D : rank[k] < rank[i] => g[k] = h[k])
          => phi[g][i] = phi[h][i]
  BY <1>5
<1>9. PICK f \in [D -> V] : f = phi[f]
  <2> HIDE DEF phi, D, L
  <2>1. WellDefined(phi, D, V, rank, L + 1)
    <3>1. L + 1 \in Nat
      BY <1>1
    <3>2. QED
      BY <1>2, <1>3, <1>7, <1>8, <3>1 DEF WellDefined
  <2>2. QED
    BY <2>1, Recursion
<1> DEFINE Fix(h) == h = [i \in D |-> Step(h, i)]
           from == CHOOSE h : Fix(h)
<1>10. Fix(f)
  BY <1>9
<1>11. Fix(from)
  BY <1>10
<1>12. Body(s) = from[1]
  BY Zenon DEF Body, Step
<1> HIDE DEF from, D
<1>13. \A i \in D : from[i] = Step(from, i)
  BY <1>11
<1>14. BodyEq(from, s)
  BY <1>13, Zenon DEF BodyEq, Step, D
<1>15. from \in [D -> V]
  <2> DEFINE S == {k \in Nat : k \in D => from[k] \in V}
  <2>1. \A i \in Nat : i > L + 1 => i \in S
    BY <1>1 DEF D
  <2>2. ASSUME NEW i \in 0 .. L + 1, \A k \in Nat : k > i => k \in S
        PROVE  i \in S
    <3> SUFFICES ASSUME i \in D
                 PROVE  from[i] \in V
      BY <1>1
    <3>1. i # L + 1 => from[i + 1] \in V
      BY <1>1, <1>6, <2>2
    <3>2. QED
      BY <1>4, <1>13, <3>1
  <2> HIDE DEF S
  <2>3. S = Nat
    <3>1. S \in SUBSET Nat /\ L + 1 \in Nat
      BY <1>1 DEF S
    <3>2. QED
      BY <2>1, <2>2, <3>1, Downwards
  <2>4. \A i \in D : i \in Nat
    BY <1>1 DEF D
  <2>5. \A i \in D : from[i] \in V
    BY <2>3, <2>4 DEF S
  <2>6. QED
    BY <1>11, <2>5
<1>16. QED
  BY <1>12, <1>14, <1>15 DEF D, V

(* A character more in front.                                              *)
LEMMA BodyFirst ==
  ASSUME NEW s \in Seq(Out), NEW x \in Out
  PROVE  /\ Body(s) \in Seq(Out)
         /\ Body(<<x>> \o s) = Rewritten(x) \o Body(s)
<1> DEFINE L == Len(s)
           t == <<x>> \o s
<1>1. L \in Nat
  BY LenProperties
<1>2. t \in Seq(Out) /\ Len(t) = L + 1 /\ t[1] = x
        /\ \A i \in 1 .. L : t[i + 1] = s[i]
  <2>1. <<x>> \in Seq(Out) /\ Len(<<x>>) = 1 /\ <<x>>[1] = x
    OBVIOUS
  <2>2. /\ t \in Seq(Out) /\ Len(t) = 1 + L
        /\ \A i \in 1 .. 1 + L : t[i] = IF i <= 1 THEN <<x>>[i] ELSE s[i - 1]
    BY <2>1, ConcatProperties
  <2> HIDE DEF t
  <2>3. \A i \in 1 .. L : i + 1 \in 1 .. 1 + L /\ ~(i + 1 <= 1)
          /\ i + 1 - 1 = i
    BY <1>1
  <2>4. 1 \in 1 .. 1 + L /\ 1 + L = L + 1
    BY <1>1
  <2>5. QED
    BY <2>1, <2>2, <2>3, <2>4
<1> HIDE DEF t
<1>3. PICK f : BodyEq(f, t) /\ Body(t) = f[1]
  BY <1>2, BodyFunction
<1>4. PICK g \in [1 .. L + 1 -> Seq(Out)] : BodyEq(g, s) /\ Body(s) = g[1]
  BY BodyFunction
<1> DEFINE S == {j \in Nat : j \in 1 .. L + 1 => f[j + 1] = g[j]}
<1>5. \A j \in Nat : j > L + 1 => j \in S
  BY <1>1
<1>6. ASSUME NEW j \in 0 .. L + 1, \A k \in Nat : k > j => k \in S
      PROVE  j \in S
  <2> SUFFICES ASSUME j \in 1 .. L + 1
               PROVE  f[j + 1] = g[j]
    BY <1>1
  <2>1. j + 1 \in 1 .. Len(t) + 1 /\ (j + 1 = Len(t) + 1 <=> j = L + 1)
    BY <1>1, <1>2
  <2>2. f[j + 1] = IF j = L + 1 THEN <<Quote>>
                   ELSE Rewritten(t[j + 1]) \o f[j + 1 + 1]
    BY <1>3, <2>1, Zenon DEF BodyEq
  <2>3. g[j] = IF j = L + 1 THEN <<Quote>> ELSE Rewritten(s[j]) \o g[j + 1]
    BY <1>4, Zenon DEF BodyEq
  <2>4. CASE j # L + 1
    <3>1. t[j + 1] = s[j] /\ j + 1 \in Nat /\ j + 1 > j /\ j + 1 \in 1 .. L + 1
      BY <1>1, <1>2, <2>4
    <3>2. f[j + 1 + 1] = g[j + 1]
      BY <1>6, <3>1
    <3>3. QED
      BY <2>2, <2>3, <2>4, <3>1, <3>2
  <2>5. QED
    BY <2>2, <2>3, <2>4
<1> HIDE DEF S
<1>7. S = Nat
  <2>1. S \in SUBSET Nat /\ L + 1 \in Nat
    BY <1>1 DEF S
  <2>2. QED
    BY <1>5, <1>6, <2>1, Downwards
<1>8. f[2] = g[1] /\ 1 \in 1 .. L + 1
  <2>1. 1 \in S /\ 1 \in 1 .. L + 1 /\ 1 + 1 = 2
    BY <1>1, <1>7
  <2>2. QED
    BY <2>1 DEF S
<1>9. f[1] = Rewritten(t[1]) \o f[2]
  <2>1. 1 \in 1 .. Len(t) + 1 /\ 1 # Len(t) + 1 /\ 1 + 1 = 2
    BY <1>1, <1>2
  <2>2. f[1] = Rewritten(t[1]) \o f[1 + 1]
    BY <1>3, <2>1, Zenon DEF BodyEq
  <2>3. QED
    BY <2>1, <2>2
<1>10. QED
  BY <1>2, <1>3, <1>4, <1>8, <1>9 DEF t

(* Of an empty string only its end is written.                             *)
LEMMA BodyOfNothing == Body(<<>>) = <<Quote>>
<1>1. <<>> \in Seq(Out) /\ Len(<<>>) = 0 /\ 1 \in 1 .. 0 + 1 /\ 1 = 0 + 1
  BY EmptySeq
<1>2. PICK f : BodyEq(f, <<>>) /\ Body(<<>>) = f[1]
  BY <1>1, BodyFunction
<1>3. QED
  BY <1>1, <1>2 DEF BodyEq

(* From every place of the path on, what is decoded is what was written.   *)
LEMMA DecodedIsWritten ==
  ASSUME text \in Texts, NEW path, ScanEq(path),
         NEW end \in 1 .. Len(text), text[end] = Quote,
         NEW out, DecodeEq(out, end),
         NEW i \in 1 .. end, Ends(path[i], end), "bad" \notin Range(out[i])
  PROVE  Body(out[i]) = SubSeq(text, i, end)
<1> DEFINE Good(j) == Body(out[j]) = SubSeq(text, j, end)
           Sound(j) == /\ j \in 1 .. end /\ Ends(path[j], end)
                       /\ "bad" \notin Range(out[j])
           S == {j \in Nat : Sound(j) => Good(j)}
<1>1. Len(text) \in Nat /\ DOMAIN text = 1 .. Len(text) /\ end \in Nat
  BY LenProperties DEF Texts
<1>2. \A j \in 1 .. end : Ends(path[j], end) => out[j] \in Seq(Out)
  BY DecodedFits
<1>3. ASSUME NEW u \in Out, NEW s \in Seq(Out), NEW t, t = <<u>> \o s
      PROVE  /\ "bad" \notin Range(t) => u # "bad" /\ "bad" \notin Range(s)
             /\ Body(t) = Rewritten(u) \o Body(s)
  <2>1. Body(t) = Rewritten(u) \o Body(s)
    BY <1>3, BodyFirst
  <2> DEFINE c == <<u>>
  <2>2. c \in Seq(Out) /\ Range(c) = {u}
    <3>1. c \in Seq(Out) /\ Len(c) = 1 /\ c[1] = u
      OBVIOUS
    <3> HIDE DEF c
    <3>2. {c[k] : k \in 1 .. 1} = {u}
      BY <3>1
    <3>3. QED
      BY <3>1, <3>2, RangeEquality
  <2>3. t = c \o s
    BY <1>3
  <2> HIDE DEF c
  <2>4. Range(t) = {u} \cup Range(s)
    BY <2>2, <2>3, RangeConcatenation
  <2>5. QED
    BY <2>1, <2>4
<1>4. \A j \in 1 .. Len(text) : text[j] \in Units \cup {NUL} /\ text[j] \in Out
  BY ElementOfSeq DEF Texts, Out
<1>5. \A j \in Nat : j > end => j \in S
  BY <1>1
<1>6. ASSUME NEW j \in 0 .. end, \A k \in Nat : k > j => k \in S
      PROVE  j \in S
  <2> SUFFICES ASSUME Sound(j)
               PROVE  Good(j)
    BY <1>1
  <2>0. j \in Nat /\ j \in 1 .. end /\ j \in 1 .. Len(text)
    BY <1>1
  <2>1. \A k \in Nat : k > j /\ Sound(k) => Good(k)
    BY <1>6
  <2>8. ASSUME NEW u \in Out, NEW r \in Seq(Out), out[j] = <<u>> \o r
        PROVE  "bad" \notin Range(r) /\ Body(out[j]) = Rewritten(u) \o Body(r)
    <3>1. "bad" \notin Range(out[j])
      OBVIOUS
    <3> HIDE DEF Sound
    <3>2. QED
      BY <1>3, <2>8, <3>1
  <2>2. SubSeq(text, j, end) = <<text[j]>> \o SubSeq(text, j + 1, end)
    <3>1. <<>> \in Texts
      BY EmptySeq DEF Texts
    <3>2. QED
      BY <2>0, <3>1, TextFirst
  <2>3. /\ j >= end => out[j] = <<>>
        /\ ~(j >= end) /\ text[j] # Backslash =>
             out[j] = <<text[j]>> \o out[j + 1]
        /\ ~(j >= end) /\ text[j] = Backslash =>
             IF text[j + 1] \in DOMAIN Decoded
               THEN out[j] = <<Decoded[text[j + 1]]>> \o out[j + 2]
             ELSE IF j + 4 <= end /\ SubSeq(text, j, j + 3) = Pair
               THEN out[j] = <<"U+1F600">> \o out[j + 4]
             ELSE out[j] = <<"bad">>
    BY <2>0, Zenon DEF DecodeEq
  <2>4. CASE j = end
    <3>1. out[j] = <<>>
      BY <1>1, <2>3, <2>4
    <3>2. SubSeq(text, j + 1, end) = <<>>
      BY <1>1, <2>4, SubSeqEmpty
    <3>3. <<text[j]>> \o <<>> = <<text[j]>>
      BY <1>4, <2>0, ConcatEmptySeq
    <3>4. QED
      BY <2>2, <2>4, <3>1, <3>2, <3>3, BodyOfNothing
  <2>5. CASE j < end /\ text[j] # Backslash
    <3>1. /\ text[j] # Quote /\ j + 1 <= end /\ Ends(path[j + 1], end)
          /\ j + 1 \in 1 .. end /\ j + 1 \in Nat /\ j + 1 > j
      BY <1>1, <2>0, <2>5, NextOnPath
    <3>2. out[j] = <<text[j]>> \o out[j + 1] /\ out[j + 1] \in Seq(Out)
      BY <1>1, <1>2, <2>0, <2>3, <2>5, <3>1
    <3>3. /\ "bad" \notin Range(out[j + 1])
          /\ Body(out[j]) = Rewritten(text[j]) \o Body(out[j + 1])
      BY <1>4, <2>0, <2>8, <3>2
    <3>4. Good(j + 1)
      <4>1. Sound(j + 1)
        BY <3>1, <3>3
      <4> HIDE DEF Sound, Good
      <4>2. QED
        BY <2>1, <3>1, <4>1
    <3>5. Rewritten(text[j]) = <<text[j]>>
      BY <1>4, <2>0, <2>5, <3>1, RewrittenIs
    <3>6. QED
      BY <2>2, <3>3, <3>4, <3>5
  <2>6. CASE j < end /\ text[j] = Backslash
    <3>1. /\ j + 2 <= end /\ Ends(path[j + 2], end)
          /\ j + 2 \in 1 .. end /\ j + 2 \in Nat /\ j + 2 > j
          /\ j + 1 \in 1 .. Len(text)
      BY <1>1, <2>0, <2>6, NextOnPath
    <3>2. CASE text[j + 1] \in DOMAIN Decoded
      <4> DEFINE u == Decoded[text[j + 1]]
      <4>1. out[j] = <<u>> \o out[j + 2] /\ out[j + 2] \in Seq(Out)
              /\ u \in Out
        BY <1>1, <1>2, <2>0, <2>3, <2>6, <3>1, <3>2, DecodedIsShort
      <4>2. Rewritten(u) = <<Backslash, text[j + 1]>>
        BY <3>2, RewrittenIs
      <4> HIDE DEF u
      <4>3. /\ "bad" \notin Range(out[j + 2])
            /\ Body(out[j]) = Rewritten(u) \o Body(out[j + 2])
        BY <2>8, <4>1
      <4>4. Good(j + 2)
        <5>1. Sound(j + 2)
          BY <3>1, <4>3
        <5> HIDE DEF Sound, Good
        <5>2. QED
          BY <2>1, <3>1, <5>1
      <4>5. SubSeq(text, j, j + 1) = <<text[j], text[j + 1]>>
        <5> DEFINE s == SubSeq(text, j, j + 1)
        <5>1. \A k \in j .. j + 1 : text[k] \in Out
          BY <1>4, <2>0, <3>1
        <5>2. /\ s \in Seq(Out) /\ Len(s) = 2
              /\ \A k \in 1 .. 2 : s[k] = text[j + k - 1]
          <6>1. j + 1 - j + 1 = 2 /\ j <= j + 1 /\ j \in Int /\ j + 1 \in Int
            BY <2>0
          <6>2. QED
            BY <5>1, <6>1, SubSeqProperties
        <5> HIDE DEF s
        <5>3. s[1] = text[j] /\ s[2] = text[j + 1]
          BY <2>0, <5>2
        <5>4. s = <<text[j], text[j + 1]>>
          BY <5>2, <5>3
        <5>5. QED
          BY <5>4 DEF s
      <4>6. SubSeq(text, j, j + 1) \o SubSeq(text, j + 1 + 1, end)
              = SubSeq(text, j, end)
        <5>1. /\ j \in 1 .. Len(text) + 1 /\ j + 1 \in j - 1 .. Len(text)
              /\ end \in j + 1 .. Len(text)
          BY <1>1, <2>0, <3>1
        <5>2. QED
          BY <5>1, ConcatAdjacentSubSeq DEF Texts
      <4>7. j + 1 + 1 = j + 2
        BY <2>0
      <4>8. QED
        BY <2>6, <4>2, <4>3, <4>4, <4>5, <4>6, <4>7
    <3>3. CASE /\ text[j + 1] \notin DOMAIN Decoded
               /\ j + 4 <= end /\ SubSeq(text, j, j + 3) = Pair
      <4>1. text[j + 2] = Backslash
        <5> DEFINE s == SubSeq(text, j, j + 3)
        <5>1. \A k \in j .. j + 3 : text[k] \in Out
          BY <1>1, <1>4, <2>0, <3>3
        <5>2. \A k \in 1 .. j + 3 - j + 1 : s[k] = text[j + k - 1]
          BY <2>0, <5>1, SubSeqProperties
        <5>6. s = Pair
          BY <3>3
        <5> HIDE DEF s
        <5>3. s[3] = Backslash
          BY <5>6 DEF Pair
        <5>4. s[3] = text[j + 2]
          BY <2>0, <5>2
        <5>5. QED
          BY <5>3, <5>4
      <4>2. /\ Ends(path[j + 4], end) /\ j + 4 \in 1 .. end
            /\ j + 4 \in Nat /\ j + 4 > j
        <5>1. j + 2 < end /\ j + 2 + 2 = j + 4 /\ j + 4 \in 1 .. end
          BY <1>1, <2>0, <3>3
        <5>2. QED
          BY <2>0, <3>1, <4>1, <5>1, NextOnPath
      <4>3. out[j] = <<"U+1F600">> \o out[j + 4] /\ out[j + 4] \in Seq(Out)
        BY <1>1, <1>2, <2>0, <2>3, <2>6, <3>3, <4>2
      <4>4. /\ "bad" \notin Range(out[j + 4])
            /\ Body(out[j]) = Pair \o Body(out[j + 4])
        <5>1. "U+1F600" \in Out
          BY DEF Out
        <5>2. QED
          BY <2>8, <4>3, <5>1, RewrittenIs
      <4>5. Good(j + 4)
        <5>1. Sound(j + 4)
          BY <4>2, <4>4
        <5> HIDE DEF Sound, Good
        <5>2. QED
          BY <2>1, <4>2, <5>1
      <4>6. SubSeq(text, j, j + 3) \o SubSeq(text, j + 3 + 1, end)
              = SubSeq(text, j, end)
        <5>1. /\ j \in 1 .. Len(text) + 1 /\ j + 3 \in j - 1 .. Len(text)
              /\ end \in j + 3 .. Len(text)
          BY <1>1, <2>0, <3>3
        <5>2. QED
          BY <5>1, ConcatAdjacentSubSeq DEF Texts
      <4>7. j + 3 + 1 = j + 4
        BY <2>0
      <4>8. QED
        BY <3>3, <4>4, <4>5, <4>6, <4>7
    <3>4. CASE /\ text[j + 1] \notin DOMAIN Decoded
               /\ ~(j + 4 <= end /\ SubSeq(text, j, j + 3) = Pair)
      <4>1. out[j] = <<"bad">>
        BY <1>1, <2>0, <2>3, <2>6, <3>4
      <4>2. "bad" \in Out /\ <<>> \in Seq(Out) /\ <<"bad">> \o <<>> = <<"bad">>
        BY EmptySeq, ConcatEmptySeq DEF Out
      <4>3. out[j] = <<"bad">> \o <<>>
        BY <4>1, <4>2
      <4>5. "bad" \in Range(out[j])
        BY <1>3, <4>2, <4>3
      <4>6. QED
        BY <4>5
    <3>5. QED
      BY <3>2, <3>3, <3>4
  <2>7. QED
    BY <1>1, <2>0, <2>4, <2>5, <2>6
<1> HIDE DEF S
<1>7. S = Nat
  <2>1. S \in SUBSET Nat
    BY DEF S
  <2>2. QED
    BY <1>1, <1>5, <1>6, <2>1, Downwards
<1>8. i \in S /\ Sound(i)
  BY <1>1, <1>7
<1>9. QED
  BY <1>8 DEF S

(* What parse_string makes of a string, written out again, is the string.  *)
LEMMA StringIsText ==
  ASSUME TextInv, NEW k \in 1 .. Len(text), parse_string(k).ok
  PROVE  LET r == parse_string(k)
         IN /\ text[k] = Quote
            /\ r.end \in k + 1 .. Len(text) - 1
            /\ Quoted(r.block.content) = SubSeq(text, k, r.end)
            /\ Says(SubSeq(text, k, r.end), SubSeq(text, k, r.end))
<1> DEFINE i == k + 1
           end == Max(Scan(k))
           content == parse_string(k).block.content
<1>1. text \in Texts /\ Len(text) \in Nat /\ DOMAIN text = 1 .. Len(text)
  BY LenProperties DEF TextInv, Texts
<1>2. PICK path : ScanEq(path) /\ \A j : Scan(j) = path[j + 1]
  BY <1>1, ScanFunction DEF ScanEq
<1>3. /\ text[k] = Quote /\ end \in 1 .. Len(text) /\ text[end] = Quote
      /\ parse_string(k).end = end
      /\ content = Decode(k, end) /\ "bad" \notin Range(content)
  BY <1>1, Zenon DEF parse_string
<1>4. Scan(k) = path[i] /\ i \in Nat /\ i <= Len(text) + 2
  BY <1>1, <1>2
<1>5. Ends(path[i], end) /\ i \in 1 .. end
  <2>1. /\ path[i] \in SUBSET Nat /\ i \in path[i]
        /\ \A j \in path[i] : j <= Len(text) + 2
    BY <1>1, <1>2, <1>4, PathProperties
  <2>2. Len(text) + 2 \in Nat /\ path[i] # {}
    BY <1>1, <2>1
  <2>3. end \in path[i] /\ \A j \in path[i] : j <= end
    BY <1>4, <2>1, <2>2, NatMax
  <2>4. QED
    BY <1>1, <1>3, <1>4, <2>1, <2>3 DEF Ends
<1> HIDE DEF end, content
<1>6. /\ Len(text) \in Nat /\ end \in k + 1 .. Len(text) - 1
      /\ k \in 1 .. end - 1 /\ k \in 1 .. end /\ end \in Nat
  <2>1. text[end] = Quote /\ end \in 1 .. Len(text)
    BY <1>3
  <2>2. Len(text) \in Nat
    BY <1>1
  <2>3. k + 1 <= end
    BY <1>5
  <2>4. end # Len(text)
    <3>1. text[Len(text)] = NUL /\ NUL # Quote
      BY DEF TextInv, NUL, Quote
    <3>2. QED
      BY <2>1, <3>1
  <2>5. end \in Nat
    BY <2>1, <2>2
  <2>6. QED
    BY <2>1, <2>2, <2>3, <2>4, <2>5
<1>7. PICK out : DecodeEq(out, end) /\ \A j : Decode(j, end) = out[j + 1]
  BY <1>6, DecodeFunction
<1>8. content = out[i]
  BY <1>3, <1>7
<1>9. Body(content) = SubSeq(text, i, end)
  BY <1>1, <1>2, <1>3, <1>5, <1>7, <1>8, DecodedIsWritten
<1>10. Quoted(content) = SubSeq(text, k, end)
  <2>1. <<>> \in Texts
    BY EmptySeq DEF Texts
  <2>2. SubSeq(text, k, end) = <<text[k]>> \o SubSeq(text, i, end)
    BY <1>1, <1>3, <1>6, <2>1, TextFirst
  <2>3. QED
    BY <1>3, <1>9, <2>2 DEF Quoted
<1>11. Says(SubSeq(text, k, end), SubSeq(text, k, end))
  BY <1>1, <1>2, <1>3, <1>5, <1>6, SaysString
<1>12. QED
  BY <1>3, <1>6, <1>10, <1>11 DEF content

-----------------------------------------------------------------------------
(* How far the text has been read *)

(* The text up to the place k.                                             *)
Read(k) == SubSeq(text, 1, k)

(* Nothing but the last unit is a terminator.                              *)
OneTerminator == \A i \in 1 .. Len(text) - 1 : text[i] # NUL

(* Reading on from k to n.                                                 *)
LEMMA ReadOn ==
  ASSUME text \in Texts, NEW k \in 0 .. Len(text), NEW n \in k .. Len(text),
         NEW p, Says(Read(k), p), NEW q, Says(SubSeq(text, k + 1, n), q)
  PROVE  Says(Read(n), p \o q)
<1>1. Read(k) \o SubSeq(text, k + 1, n) = Read(n)
  <2>1. /\ 1 \in 1 .. Len(text) + 1 /\ k \in 1 - 1 .. Len(text)
        /\ n \in k .. Len(text)
    BY LenProperties DEF Texts
  <2>2. QED
    BY <2>1, ConcatAdjacentSubSeq DEF Texts, Read
<1>2. QED
  BY <1>1, SaysBoth

(* Reading one unit that begins no string.                                 *)
LEMMA ReadUnit ==
  ASSUME text \in Texts, NEW k \in 1 .. Len(text), NEW p,
         Says(Read(k - 1), p), text[k] # Quote
  PROVE  Says(Read(k), p \o IF text[k] = Blank THEN <<>> ELSE <<text[k]>>)
<1>1. text[k] \in Units \cup {NUL}
  BY ElementOfSeq DEF Texts
<1>2. SubSeq(text, k, k) = <<text[k]>>
  <2> DEFINE s == SubSeq(text, k, k)
  <2>1. s \in Texts /\ Len(s) = 1 /\ \A j \in 1 .. 1 : s[j] = text[k + j - 1]
    <3>1. \A j \in k .. k : text[j] \in Units \cup {NUL}
      BY <1>1, LenProperties DEF Texts
    <3>2. k \in Int /\ k <= k /\ k - k + 1 = 1
      BY LenProperties DEF Texts
    <3>3. QED
      BY <3>1, <3>2, SubSeqProperties DEF Texts
  <2> HIDE DEF s
  <2>2. s[1] = text[k]
    BY <2>1, LenProperties DEF Texts
  <2>3. s = <<text[k]>>
    BY <2>1, <2>2 DEF Texts
  <2>4. QED
    BY <2>3 DEF s
<1> DEFINE q == IF text[k] = Blank THEN <<>> ELSE <<text[k]>>
<1>3. Says(<<text[k]>>, q)
  BY <1>1, SaysUnit
<1>4. k - 1 \in 0 .. Len(text) /\ k \in k - 1 .. Len(text) /\ k - 1 + 1 = k
  BY LenProperties DEF Texts
<1> HIDE DEF q
<1>5. Says(Read(k), p \o q)
  BY <1>2, <1>3, <1>4, ReadOn
<1>6. QED
  BY <1>5 DEF q

(* Reading units none of which is a quote or a blank.                      *)
LEMMA ReadRun ==
  ASSUME text \in Texts, NEW k \in 0 .. Len(text), NEW n \in k .. Len(text),
         NEW p, Says(Read(k), p),
         \A j \in k + 1 .. n : text[j] \notin {Quote, Blank}
  PROVE  Says(Read(n), p \o SubSeq(text, k + 1, n))
<1> DEFINE Good(j) == Says(Read(j), p \o SubSeq(text, k + 1, j))
           S == {j \in Nat : j \in k .. n => Good(j)}
<1>0. Len(text) \in Nat /\ k \in Nat /\ n \in Nat
  <2>1. Len(text) \in Nat
    BY LenProperties DEF Texts
  <2>2. QED
    BY <2>1
<1>1. ASSUME NEW j \in Nat, \A m \in Nat : m < j => m \in S
      PROVE  j \in S
  <2> SUFFICES ASSUME j \in k .. n
               PROVE  Good(j)
    OBVIOUS
  <2>1. CASE j = k
    <3>1. SubSeq(text, k + 1, k) = <<>>
      BY <1>0, SubSeqEmpty
    <3>2. p \o <<>> = p
      BY ConcatEmptySeq DEF Says, Texts
    <3>3. QED
      BY <2>1, <3>1, <3>2
  <2>2. CASE j # k
    <3>1. /\ j - 1 \in Nat /\ j - 1 < j /\ j - 1 \in k .. n
          /\ j \in 1 .. Len(text) /\ j \in k + 1 .. n
      BY <1>0, <2>2
    <3>2. Good(j - 1)
      BY <1>1, <3>1
    <3>3. text[j] # Quote /\ text[j] # Blank
      BY <3>1
    <3> DEFINE q == p \o SubSeq(text, k + 1, j - 1)
    <3>4. Says(Read(j), q \o <<text[j]>>)
      <4>1. Says(Read(j - 1), q)
        BY <3>2
      <4> HIDE DEF q
      <4>2. QED
        BY <3>1, <3>3, <4>1, ReadUnit
    <3>5. SubSeq(text, k + 1, j) = SubSeq(text, k + 1, j - 1) \o <<text[j]>>
      <4>1. k + 1 \in 1 .. Len(text) /\ j \in k + 1 .. Len(text)
        BY <1>0, <3>1
      <4>2. QED
        BY <4>1, SubSeqRecursiveSecond DEF Texts
    <3>6. /\ SubSeq(text, k + 1, j - 1) \in Texts /\ <<text[j]>> \in Texts
          /\ p \in Texts
      <4>1. \A m \in k + 1 .. j - 1 : m \in 1 .. Len(text)
        BY <1>0, <3>1
      <4>2. \A m \in k + 1 .. j - 1 : text[m] \in Units \cup {NUL}
        BY <4>1, ElementOfSeq DEF Texts
      <4>3. k + 1 \in Int /\ j - 1 \in Int
        BY <1>0
      <4>4. SubSeq(text, k + 1, j - 1) \in Texts
        BY <4>2, <4>3, SubSeqProperties DEF Texts
      <4>5. text[j] \in Units \cup {NUL}
        BY <3>1, ElementOfSeq DEF Texts
      <4>6. <<text[j]>> \in Texts
        BY <4>5 DEF Texts
      <4>7. p \in Texts
        BY DEF Says
      <4>8. QED
        BY <4>4, <4>6, <4>7
    <3>7. q \o <<text[j]>> = p \o SubSeq(text, k + 1, j)
      <4> DEFINE a == SubSeq(text, k + 1, j - 1)
                 b == <<text[j]>>
      <4>1. /\ a \in Seq(Units \cup {NUL}) /\ b \in Seq(Units \cup {NUL})
            /\ p \in Seq(Units \cup {NUL})
        BY <3>6 DEF Texts
      <4> HIDE DEF a, b
      <4>2. (p \o a) \o b = p \o (a \o b)
        BY <4>1, ConcatAssociative
      <4>3. QED
        BY <3>5, <4>2 DEF a, b
    <3>8. QED
      BY <3>4, <3>7
  <2>3. QED
    BY <2>1, <2>2
<1> HIDE DEF S
<1>2. S = Nat
  <2>1. S \in SUBSET Nat
    BY DEF S
  <2>2. QED
    BY <1>1, <2>1, Upwards
<1>3. n \in S /\ n \in k .. n
  BY <1>0, <1>2
<1>4. QED
  BY <1>3 DEF S

(* buffer_skip_whitespace reads nothing but blanks.                        *)
LEMMA ReadBlanks ==
  ASSUME text \in Texts, OneTerminator, NEW i \in 1 .. Len(text),
         NEW p, Says(Read(i - 1), p)
  PROVE  Says(Read(buffer_skip_whitespace(text, i) - 1), p)
<1> DEFINE here == buffer_skip_whitespace(text, i)
           more == {j \in i .. Len(text) : text[j] \notin {Blank, NUL}}
           M == more \cup {Len(text)}
<1>0. Len(text) \in Nat /\ i \in Nat
  BY LenProperties DEF Texts
<1>1. here \in i .. Len(text)
  BY SkipStays DEF Texts
<1>2. \A j \in i .. here - 1 : text[j] = Blank
  <2>1. here = Min(M) /\ M \in SUBSET Nat /\ M # {}
    <3>1. ~(i > Len(text))
      BY <1>0
    <3>2. here = Min(M)
      BY <3>1, Zenon DEF buffer_skip_whitespace
    <3>3. more \in SUBSET Nat
      BY <1>0
    <3>4. QED
      BY <1>0, <3>2, <3>3
  <2>2. \A j \in M : here <= j
    BY <2>1, NatMin
  <2>3. SUFFICES ASSUME NEW j \in i .. here - 1
                 PROVE  text[j] = Blank
    OBVIOUS
  <2> HIDE DEF here
  <2>4. j \in i .. Len(text) /\ j < here /\ j \in 1 .. Len(text) - 1
    BY <1>0, <1>1
  <2>5. j \notin M
    BY <1>0, <1>1, <2>2, <2>4
  <2>6. QED
    BY <2>4, <2>5 DEF OneTerminator
<1> HIDE DEF here
<1> DEFINE S == {j \in Nat : j \in i .. here => Says(Read(j - 1), p)}
<1>3. ASSUME NEW j \in Nat, \A m \in Nat : m < j => m \in S
      PROVE  j \in S
  <2> SUFFICES ASSUME j \in i .. here
               PROVE  Says(Read(j - 1), p)
    OBVIOUS
  <2>1. CASE j # i
    <3>1. /\ j - 1 \in Nat /\ j - 1 < j /\ j - 1 \in i .. here
          /\ j - 1 \in 1 .. Len(text) /\ j - 1 \in i .. here - 1
      BY <1>0, <1>1, <2>1
    <3>2. Says(Read(j - 1 - 1), p)
      BY <1>3, <3>1
    <3>3. text[j - 1] = Blank /\ text[j - 1] # Quote
      BY <1>2, <3>1 DEF Quote, Blank
    <3> DEFINE k == j - 1
    <3>4. k \in 1 .. Len(text) /\ Says(Read(k - 1), p)
      BY <3>1, <3>2
    <3>5. text[k] = Blank /\ text[k] # Quote
      BY <3>3
    <3> HIDE DEF k
    <3>6. Says(Read(k), p \o <<>>)
      BY <3>4, <3>5, ReadUnit
    <3>7. p \o <<>> = p
      BY ConcatEmptySeq DEF Says, Texts
    <3>8. QED
      BY <3>6, <3>7 DEF k
  <2>2. QED
    BY <2>1
<1> HIDE DEF S
<1>4. S = Nat
  <2>1. S \in SUBSET Nat
    BY DEF S
  <2>2. QED
    BY <1>3, <2>1, Upwards
<1>5. here \in S /\ here \in i .. here
  BY <1>0, <1>1, <1>4
<1>6. QED
  BY <1>5 DEF S, here

(* Reading a string.                                                       *)
LEMMA ReadString ==
  ASSUME TextInv, NEW k \in 1 .. Len(text), parse_string(k).ok,
         NEW p, Says(Read(k - 1), p)
  PROVE  Says(Read(parse_string(k).end),
              p \o Quoted(parse_string(k).block.content))
<1> DEFINE end == parse_string(k).end
<1>1. /\ end \in k + 1 .. Len(text) - 1
      /\ Quoted(parse_string(k).block.content) = SubSeq(text, k, end)
      /\ Says(SubSeq(text, k, end), SubSeq(text, k, end))
  BY StringIsText
<1>2. text \in Texts
  BY DEF TextInv
<1>3. k - 1 \in 0 .. Len(text) /\ end \in k - 1 .. Len(text) /\ k - 1 + 1 = k
  BY <1>1, <1>2, LenProperties DEF Texts
<1> HIDE DEF end
<1>4. QED
  BY <1>1, <1>2, <1>3, ReadOn DEF end

-----------------------------------------------------------------------------
(* Where a string ends *)

(* The equation that StringEnd's recursive function satisfies.             *)
StringEq(f) ==
  \A j \in Nat :
    f[j] = IF j > Len(text) THEN 0
           ELSE IF text[j] = Quote THEN j + 1
           ELSE IF text[j] # Backslash THEN f[j + 1]
           ELSE IF text[j + 1] \in DOMAIN Decoded THEN f[j + 2]
           ELSE IF j + 3 <= Len(text) /\ SubSeq(text, j, j + 3) = Pair
             THEN f[j + 4]
           ELSE 0

(* There is such a function, and StringEnd is its value behind the quote.  *)
LEMMA StringEndFunction ==
  ASSUME text \in Texts
  PROVE  \E f : /\ StringEq(f)
                /\ \A i : StringEnd(text, i) =
                            IF text[i] = Quote THEN f[i + 1] ELSE 0
<1> DEFINE L == Len(text)
           Step(g, j) ==
             IF j > L THEN 0
             ELSE IF text[j] = Quote THEN j + 1
             ELSE IF text[j] # Backslash THEN g[j + 1]
             ELSE IF text[j + 1] \in DOMAIN Decoded THEN g[j + 2]
             ELSE IF j + 3 <= L /\ SubSeq(text, j, j + 3) = Pair
               THEN g[j + 4]
             ELSE 0
           rank == [j \in Nat |-> IF j > L THEN 0 ELSE L + 1 - j]
           V == Nat
           phi == [g \in [Nat -> V] |-> [j \in Nat |-> Step(g, j)]]
<1>1. L \in Nat
  BY LenProperties DEF Texts
<1>2. /\ rank \in [Nat -> Nat] /\ \A j \in Nat : rank[j] <= L + 1
      /\ \A j, k \in Nat : j <= L /\ k > j => rank[k] < rank[j]
  BY <1>1
<1>3. ASSUME NEW g \in [Nat -> V], NEW j \in Nat
      PROVE  Step(g, j) \in V
  <2>1. /\ g[j + 1] \in Nat /\ g[j + 2] \in Nat /\ g[j + 4] \in Nat
        /\ j + 1 \in Nat /\ 0 \in Nat
    OBVIOUS
  <2>2. QED
    BY <2>1, Zenon
<1>4. ASSUME NEW g \in [Nat -> V], NEW h \in [Nat -> V], NEW j \in Nat,
             \A k \in Nat : rank[k] < rank[j] => g[k] = h[k]
      PROVE  Step(g, j) = Step(h, j)
  <2>1. CASE j > L
    BY <2>1
  <2>2. CASE ~(j > L)
    <3> HIDE DEF rank, L
    <3>1. g[j + 1] = h[j + 1] /\ g[j + 2] = h[j + 2] /\ g[j + 4] = h[j + 4]
      BY <1>1, <1>2, <1>4, <2>2
    <3>2. QED
      BY <3>1, Zenon
  <2>3. QED
    BY <2>1, <2>2
<1> HIDE DEF rank, Step
<1>5. phi \in [[Nat -> V] -> [Nat -> V]]
  BY <1>3
<1>6. \A g, h \in [Nat -> V] : \A j \in Nat :
        (\A k \in Nat : rank[k] < rank[j] => g[k] = h[k])
          => phi[g][j] = phi[h][j]
  BY <1>4
<1>7. L + 1 \in Nat /\ V # {}
  BY <1>1
<1>8. \E f \in [Nat -> V] : f = phi[f]
  <2> HIDE DEF phi, V, L
  <2>1. WellDefined(phi, Nat, V, rank, L + 1)
    BY <1>2, <1>5, <1>6, <1>7 DEF WellDefined
  <2>2. QED
    BY <2>1, Recursion
<1>9. \E f : f = [j \in Nat |-> Step(f, j)]
  BY <1>8
<1> DEFINE f == CHOOSE g : g = [j \in Nat |-> Step(g, j)]
<1>10. f = [j \in Nat |-> Step(f, j)]
  BY <1>9
<1>11. \A i : StringEnd(text, i) = IF text[i] = Quote THEN f[i + 1] ELSE 0
  BY Zenon DEF StringEnd, Step, L
<1> HIDE DEF f
<1>12. \A j \in Nat : f[j] = Step(f, j)
  BY <1>10
<1>13. StringEq(f)
  BY <1>12, Zenon DEF StringEq, Step, L
<1>14. QED
  BY <1>11, <1>13

(* A pair of surrogates is two escapes.                                    *)
LEMMA PairIsTwo ==
  ASSUME text \in Texts, NEW j \in Nat \ {0}, j + 3 <= Len(text),
         SubSeq(text, j, j + 3) = Pair
  PROVE  text[j + 2] = Backslash
<1> DEFINE s == SubSeq(text, j, j + 3)
<1>1. \A k \in j .. j + 3 : text[k] \in Units \cup {NUL}
  <2>1. Len(text) \in Nat
    BY LenProperties DEF Texts
  <2>2. \A k \in j .. j + 3 : k \in 1 .. Len(text)
    BY <2>1
  <2>3. QED
    BY <2>2, ElementOfSeq DEF Texts
<1>2. \A k \in 1 .. j + 3 - j + 1 : s[k] = text[j + k - 1]
  BY <1>1, SubSeqProperties
<1>3. s = Pair
  OBVIOUS
<1> HIDE DEF s
<1>4. s[3] = Backslash
  BY <1>3 DEF Pair
<1>5. s[3] = text[j + 2]
  BY <1>2
<1>6. QED
  BY <1>4, <1>5

(* Where a path goes on.                                                   *)
LEMMA PathGoesOn ==
  ASSUME text \in Texts, NEW path, ScanEq(path), NEW e \in Nat,
         NEW j \in Nat, j <= Len(text), j # e, Ends(path[j], e)
  PROVE  LET n == IF text[j] = Backslash THEN j + 2 ELSE j + 1
         IN text[j] # Quote /\ n <= e /\ Ends(path[n], e)
<1> DEFINE n == IF text[j] = Backslash THEN j + 2 ELSE j + 1
<1>1. n \in Nat /\ n > j /\ Len(text) \in Nat
  BY LenProperties DEF Texts
<1>2. path[j] # {j}
  BY DEF Ends
<1>3. text[j] # Quote /\ path[j] = {j} \cup path[n]
  BY <1>1, <1>2 DEF ScanEq
<1>4. path[n] \in SUBSET Nat /\ n \in path[n]
  BY <1>1, PathProperties
<1>5. QED
  BY <1>3, <1>4 DEF Ends

(* A path that leaves the text is that of no string.                       *)
LEMMA NoStringEnds ==
  ASSUME text \in Texts, NEW path, ScanEq(path), NEW f, StringEq(f),
         NEW e \in Nat, e > Len(text)
  PROVE  \A j \in Nat \ {0} : Ends(path[j], e) => f[j] = 0
<1> DEFINE L == Len(text)
           S == {j \in Nat : j # 0 /\ Ends(path[j], e) => f[j] = 0}
<1>1. L \in Nat
  BY LenProperties DEF Texts
<1>2. \A j \in Nat : j > L => j \in S
  BY DEF StringEq
<1>3. ASSUME NEW j \in 0 .. L, \A k \in Nat : k > j => k \in S
      PROVE  j \in S
  <2> SUFFICES ASSUME j # 0, Ends(path[j], e)
               PROVE  f[j] = 0
    BY <1>1
  <2>1. j \in Nat /\ j \in Nat \ {0} /\ j <= L /\ j # e /\ ~(j > L)
    BY <1>1
  <2>2. /\ text[j] # Quote
        /\ text[j] # Backslash => Ends(path[j + 1], e)
        /\ text[j] = Backslash => Ends(path[j + 2], e)
    BY <2>1, PathGoesOn
  <2>3. \A k \in Nat : k > j /\ Ends(path[k], e) => f[k] = 0
    BY <1>3, <2>1
  <2>4. /\ text[j] # Backslash => f[j + 1] = 0
        /\ text[j] = Backslash => f[j + 2] = 0
    BY <2>1, <2>2, <2>3
  <2>5. ASSUME text[j] = Backslash, j + 3 <= L, SubSeq(text, j, j + 3) = Pair
        PROVE  f[j + 4] = 0
    <3>1. text[j + 2] = Backslash
      BY <2>1, <2>5, PairIsTwo
    <3>2. j + 2 \in Nat /\ j + 2 <= Len(text) /\ j + 2 # e /\ j + 2 + 2 = j + 4
      BY <1>1, <2>1, <2>5
    <3>3. Ends(path[j + 4], e)
      BY <2>2, <2>5, <3>1, <3>2, PathGoesOn
    <3>4. QED
      BY <2>1, <2>3, <3>3
  <2>6. f[j] = IF text[j] # Backslash THEN f[j + 1]
               ELSE IF text[j + 1] \in DOMAIN Decoded THEN f[j + 2]
               ELSE IF j + 3 <= Len(text) /\ SubSeq(text, j, j + 3) = Pair
                 THEN f[j + 4]
               ELSE 0
    BY <2>1, <2>2, Zenon DEF StringEq
  <2>7. QED
    BY <2>4, <2>5, <2>6, Zenon
<1> HIDE DEF S
<1>4. S = Nat
  <2>1. S \in SUBSET Nat
    BY DEF S
  <2>2. QED
    BY <1>1, <1>2, <1>3, <2>1, Downwards
<1>5. QED
  BY <1>4 DEF S

(* On the path of a string, StringEnd finds the end of it unless there is  *)
(* an escape that Decode does not know.                                    *)
LEMMA EndFound ==
  ASSUME text \in Texts, NEW path, ScanEq(path), NEW f, StringEq(f),
         NEW end \in 1 .. Len(text), text[end] = Quote,
         NEW out, DecodeEq(out, end),
         NEW i \in 1 .. end, Ends(path[i], end)
  PROVE  f[i] = IF "bad" \in Range(out[i]) THEN 0 ELSE end + 1
<1> DEFINE Good(j) == f[j] = IF "bad" \in Range(out[j]) THEN 0 ELSE end + 1
           S == {j \in Nat : j \in 1 .. end /\ Ends(path[j], end) => Good(j)}
<1>1. Len(text) \in Nat /\ end \in Nat
  BY LenProperties DEF Texts
<1>2. \A j \in 1 .. end : Ends(path[j], end) => out[j] \in Seq(Out)
  BY DecodedFits
<1>3. ASSUME NEW u \in Out, NEW s \in Seq(Out), NEW t, t = <<u>> \o s
      PROVE  "bad" \in Range(t) <=> u = "bad" \/ "bad" \in Range(s)
  <2> DEFINE c == <<u>>
  <2>1. c \in Seq(Out) /\ Range(c) = {u}
    <3>1. c \in Seq(Out) /\ Len(c) = 1 /\ c[1] = u
      OBVIOUS
    <3> HIDE DEF c
    <3>2. {c[k] : k \in 1 .. 1} = {u}
      BY <3>1
    <3>3. QED
      BY <3>1, <3>2, RangeEquality
  <2>2. t = c \o s
    BY <1>3
  <2> HIDE DEF c
  <2>3. Range(t) = {u} \cup Range(s)
    BY <2>1, <2>2, RangeConcatenation
  <2>4. QED
    BY <2>3
<1>4. \A j \in 1 .. Len(text) : text[j] \in Out /\ text[j] # "bad"
  <2>1. \A u \in Units \cup {NUL} : u \in Out /\ u # "bad"
    BY DEF Out, Units, NUL, Quote, Backslash, Blank, Literal
  <2>2. QED
    BY <2>1, ElementOfSeq DEF Texts
<1>5. \A j \in Nat : j > end => j \in S
  BY <1>1
<1>6. ASSUME NEW j \in 0 .. end, \A k \in Nat : k > j => k \in S
      PROVE  j \in S
  <2> SUFFICES ASSUME j \in 1 .. end, Ends(path[j], end)
               PROVE  Good(j)
    BY <1>1
  <2>0. /\ j \in Nat /\ j \in Nat \ {0}
        /\ j \in 1 .. Len(text) /\ ~(j > Len(text))
    BY <1>1
  <2>1. \A k \in Nat : k > j /\ k \in 1 .. end /\ Ends(path[k], end) => Good(k)
    BY <1>6
  <2>2. /\ j >= end => out[j] = <<>>
        /\ ~(j >= end) /\ text[j] # Backslash =>
             out[j] = <<text[j]>> \o out[j + 1]
        /\ ~(j >= end) /\ text[j] = Backslash =>
             IF text[j + 1] \in DOMAIN Decoded
               THEN out[j] = <<Decoded[text[j + 1]]>> \o out[j + 2]
             ELSE IF j + 4 <= end /\ SubSeq(text, j, j + 3) = Pair
               THEN out[j] = <<"U+1F600">> \o out[j + 4]
             ELSE out[j] = <<"bad">>
    BY <2>0, Zenon DEF DecodeEq
  <2>3. f[j] = IF text[j] = Quote THEN j + 1
               ELSE IF text[j] # Backslash THEN f[j + 1]
               ELSE IF text[j + 1] \in DOMAIN Decoded THEN f[j + 2]
               ELSE IF j + 3 <= Len(text) /\ SubSeq(text, j, j + 3) = Pair
                 THEN f[j + 4]
               ELSE 0
    BY <2>0, Zenon DEF StringEq
  <2>4. CASE j = end
    <3>1. out[j] = <<>>
      BY <1>1, <2>2, <2>4
    <3>2. Range(<<>>) = {}
      <4> DEFINE s == <<>>
      <4>1. s \in Seq(Out) /\ Len(s) = 0
        BY EmptySeq
      <4> HIDE DEF s
      <4>2. Range(s) = {s[k] : k \in 1 .. Len(s)}
        BY <4>1, RangeEquality
      <4>3. Range(s) = {}
        BY <4>1, <4>2
      <4>4. QED
        BY <4>3 DEF s
    <3>3. QED
      BY <2>3, <2>4, <3>1, <3>2
  <2>5. CASE j < end /\ text[j] # Backslash
    <3>1. /\ text[j] # Quote /\ j + 1 <= end /\ Ends(path[j + 1], end)
          /\ j + 1 \in 1 .. end /\ j + 1 \in Nat /\ j + 1 > j
      BY <1>1, <2>0, <2>5, NextOnPath
    <3>2. out[j] = <<text[j]>> \o out[j + 1] /\ out[j + 1] \in Seq(Out)
      BY <1>1, <1>2, <2>0, <2>2, <2>5, <3>1
    <3>3. "bad" \in Range(out[j]) <=> "bad" \in Range(out[j + 1])
      <4> DEFINE u == text[j]
      <4>1. u \in Out /\ u # "bad" /\ out[j] = <<u>> \o out[j + 1]
        BY <1>4, <2>0, <3>2
      <4> HIDE DEF u
      <4>2. QED
        BY <1>3, <3>2, <4>1
    <3>4. Good(j + 1)
      BY <2>1, <3>1
    <3>5. QED
      BY <2>3, <2>5, <3>1, <3>3, <3>4
  <2>6. CASE j < end /\ text[j] = Backslash
    <3>1. /\ text[j] # Quote /\ j + 2 <= end /\ Ends(path[j + 2], end)
          /\ j + 2 \in 1 .. end /\ j + 2 \in Nat /\ j + 2 > j
      BY <1>1, <2>0, <2>6, NextOnPath
    <3>2. CASE text[j + 1] \in DOMAIN Decoded
      <4> DEFINE u == Decoded[text[j + 1]]
      <4>1. /\ out[j] = <<u>> \o out[j + 2] /\ out[j + 2] \in Seq(Out)
            /\ u \in Out
        BY <1>1, <1>2, <2>0, <2>2, <2>6, <3>1, <3>2, DecodedIsShort
      <4>2. u # "bad"
        BY <3>2 DEF Decoded, Quote, Backslash, Literal
      <4> HIDE DEF u
      <4>3. "bad" \in Range(out[j]) <=> "bad" \in Range(out[j + 2])
        BY <1>3, <4>1, <4>2
      <4>4. Good(j + 2)
        BY <2>1, <3>1
      <4>5. QED
        BY <2>3, <2>6, <3>1, <3>2, <4>3, <4>4
    <3>3. CASE /\ text[j + 1] \notin DOMAIN Decoded
               /\ j + 3 <= Len(text) /\ SubSeq(text, j, j + 3) = Pair
      <4>1. text[j + 2] = Backslash
        BY <2>0, <3>3, PairIsTwo
      <4>2. /\ Ends(path[j + 4], end) /\ j + 4 \in 1 .. end
            /\ j + 4 \in Nat /\ j + 4 > j /\ j + 4 <= end
        <5>1. text[end] # Backslash
          BY DEF Quote, Backslash
        <5>2. j + 2 < end /\ j + 2 + 2 = j + 4
          BY <1>1, <2>0, <3>1, <4>1, <5>1
        <5>3. j + 4 <= end /\ Ends(path[j + 4], end)
          BY <2>0, <3>1, <4>1, <5>2, NextOnPath
        <5>4. QED
          BY <1>1, <2>0, <5>3
      <4>3. out[j] = <<"U+1F600">> \o out[j + 4] /\ out[j + 4] \in Seq(Out)
        BY <1>1, <1>2, <2>0, <2>2, <2>6, <3>3, <4>2
      <4>4. "bad" \in Range(out[j]) <=> "bad" \in Range(out[j + 4])
        <5>1. "U+1F600" \in Out /\ "U+1F600" # "bad"
          BY DEF Out
        <5>2. QED
          BY <1>3, <4>3, <5>1
      <4>5. Good(j + 4)
        BY <2>1, <4>2
      <4>6. QED
        BY <2>3, <2>6, <3>1, <3>3, <4>4, <4>5
    <3>4. CASE /\ text[j + 1] \notin DOMAIN Decoded
               /\ ~(j + 3 <= Len(text) /\ SubSeq(text, j, j + 3) = Pair)
      <4>1. ~(j + 4 <= end /\ SubSeq(text, j, j + 3) = Pair)
        BY <1>1, <2>0, <3>4
      <4>2. out[j] = <<"bad">>
        BY <1>1, <2>0, <2>2, <2>6, <3>4, <4>1
      <4>3. "bad" \in Out /\ <<>> \in Seq(Out) /\ <<"bad">> \o <<>> = <<"bad">>
        BY EmptySeq, ConcatEmptySeq DEF Out
      <4>4. "bad" \in Range(out[j])
        BY <1>3, <4>2, <4>3
      <4>5. f[j] = 0
        BY <2>3, <2>6, <3>1, <3>4, Zenon
      <4>6. QED
        BY <4>4, <4>5
    <3>5. QED
      BY <3>2, <3>3, <3>4
  <2>7. QED
    BY <1>1, <2>0, <2>4, <2>5, <2>6
<1> HIDE DEF S
<1>7. S = Nat
  <2>1. S \in SUBSET Nat
    BY DEF S
  <2>2. QED
    BY <1>1, <1>5, <1>6, <2>1, Downwards
<1>8. i \in Nat
  BY <1>1
<1>9. QED
  BY <1>7, <1>8 DEF S

(* Within the text a path ends at a quote only.                            *)
LEMMA PathStops ==
  ASSUME text \in Texts, NEW path, ScanEq(path), NEW e \in 1 .. Len(text)
  PROVE  \A j \in Nat : Ends(path[j], e) => text[e] = Quote
<1> DEFINE L == Len(text)
           S == {j \in Nat : Ends(path[j], e) => text[e] = Quote}
<1>1. L \in Nat /\ e \in Nat
  BY LenProperties DEF Texts
<1>2. ASSUME NEW j \in Nat, j > L
      PROVE  j \in S
  <2>1. path[j] = {j}
    BY <1>2 DEF ScanEq
  <2>2. QED
    BY <1>1, <1>2, <2>1 DEF Ends
<1>3. ASSUME NEW j \in 0 .. L, \A k \in Nat : k > j => k \in S
      PROVE  j \in S
  <2> SUFFICES ASSUME Ends(path[j], e)
               PROVE  text[e] = Quote
    BY <1>1
  <2>0. j \in Nat /\ j <= Len(text) /\ ~(j > Len(text))
    BY <1>1
  <2>1. CASE j # e
    <3> DEFINE n == IF text[j] = Backslash THEN j + 2 ELSE j + 1
    <3>1. Ends(path[n], e) /\ n \in Nat /\ n > j
      BY <1>1, <2>0, <2>1, PathGoesOn
    <3> HIDE DEF n
    <3>2. n \in S
      BY <1>3, <3>1
    <3>3. QED
      BY <3>1, <3>2
  <2>2. CASE j = e /\ text[j] # Quote
    <3> DEFINE n == IF text[j] = Backslash THEN j + 2 ELSE j + 1
    <3>1. path[j] = {j} \cup path[n]
      BY <2>0, <2>2, Zenon DEF ScanEq
    <3>2. n \in Nat /\ n > j
      BY <2>0
    <3> HIDE DEF n
    <3>3. n \in path[n]
      BY <3>2, PathProperties
    <3>4. n \in path[j]
      BY <3>1, <3>3
    <3>5. QED
      BY <2>0, <2>2, <3>2, <3>4 DEF Ends
  <2>3. QED
    BY <2>1, <2>2
<1> HIDE DEF S
<1>4. S = Nat
  <2>1. S \in SUBSET Nat
    BY DEF S
  <2>2. QED
    BY <1>1, <1>2, <1>3, <2>1, Downwards
<1>5. QED
  BY <1>4 DEF S

(* parse_string reads just the strings, and each to its end.               *)
LEMMA StringDecided ==
  ASSUME TextInv, NEW k \in 1 .. Len(text)
  PROVE  LET end == parse_string(k).end
         IN /\ parse_string(k).ok =>
                 /\ StringEnd(text, k) = end + 1
                 /\ end \in k + 1 .. Len(text) - 1
            /\ ~parse_string(k).ok => StringEnd(text, k) = 0
<1> DEFINE i == k + 1
           end == Max(Scan(k))
<1>1. text \in Texts /\ Len(text) \in Nat /\ DOMAIN text = 1 .. Len(text)
  BY LenProperties DEF TextInv, Texts
<1>2. PICK path : ScanEq(path) /\ \A j : Scan(j) = path[j + 1]
  BY <1>1, ScanFunction DEF ScanEq
<1>3. PICK f : /\ StringEq(f)
               /\ \A j : StringEnd(text, j) =
                           IF text[j] = Quote THEN f[j + 1] ELSE 0
  BY <1>1, StringEndFunction
<1>4. Scan(k) = path[i] /\ i \in Nat /\ i <= Len(text) + 2 /\ i \in Nat \ {0}
  BY <1>1, <1>2
<1>5. Ends(path[i], end) /\ i <= end /\ end \in Nat
  <2>1. /\ path[i] \in SUBSET Nat /\ i \in path[i]
        /\ \A j \in path[i] : i <= j
        /\ \A j \in path[i] : j <= Len(text) + 2
    BY <1>1, <1>2, <1>4, PathProperties
  <2>2. Len(text) + 2 \in Nat /\ path[i] # {}
    BY <1>1, <2>1
  <2>3. end \in path[i] /\ \A j \in path[i] : j <= end
    BY <1>4, <2>1, <2>2, NatMax
  <2>4. QED
    BY <2>1, <2>3 DEF Ends
<1> DEFINE quoted == /\ text[k] = Quote
                     /\ end \in DOMAIN text /\ text[end] = Quote
           content == IF quoted THEN Decode(k, end) ELSE <<"bad">>
<1>6. /\ parse_string(k).end = end
      /\ parse_string(k).ok = (quoted /\ "bad" \notin Range(content))
  BY Zenon DEF parse_string
<1> HIDE DEF end
<1>7. CASE text[k] # Quote
  BY <1>3, <1>6, <1>7
<1>8. CASE text[k] = Quote /\ end > Len(text)
  <2>1. f[i] = 0
    BY <1>1, <1>2, <1>3, <1>4, <1>5, <1>8, NoStringEnds
  <2>2. ~quoted
    BY <1>1, <1>5, <1>8
  <2> HIDE DEF quoted, content
  <2>3. QED
    BY <1>3, <1>6, <1>8, <2>1, <2>2
<1>9. CASE text[k] = Quote /\ end <= Len(text)
  <2>1. end \in 1 .. Len(text) /\ i \in 1 .. end
    BY <1>1, <1>4, <1>5, <1>9
  <2>2. text[end] = Quote
    BY <1>1, <1>2, <1>4, <1>5, <2>1, PathStops
  <2>3. PICK out : DecodeEq(out, end) /\ \A j : Decode(j, end) = out[j + 1]
    BY <1>5, DecodeFunction
  <2>4. f[i] = IF "bad" \in Range(out[i]) THEN 0 ELSE end + 1
    BY <1>1, <1>2, <1>3, <1>5, <2>1, <2>2, <2>3, EndFound
  <2>5. quoted /\ content = out[i]
    BY <1>1, <1>9, <2>1, <2>2, <2>3
  <2>6. end \in k + 1 .. Len(text) - 1
    <3>1. text[Len(text)] # Quote
      BY DEF TextInv, NUL, Quote
    <3>2. QED
      BY <1>1, <2>1, <2>2, <3>1
  <2> HIDE DEF quoted, content
  <2>7. QED
    BY <1>3, <1>6, <1>9, <2>4, <2>5, <2>6
<1>10. QED
  BY <1>1, <1>5, <1>7, <1>8, <1>9

-----------------------------------------------------------------------------
(* Where a value ends *)

(* The next unit of a text that is not a blank.                            *)
LEMMA NextUnitForward ==
  ASSUME TextInv, NEW i \in 1 .. Len(text)
  PROVE  NextUnit(text, i) \in i .. Len(text)
<1> DEFINE M == {j \in i .. Len(text) : text[j] # Blank}
<1>1. Len(text) \in Nat /\ i \in Nat
  BY LenProperties DEF TextInv, Texts
<1>2. text[Len(text)] # Blank
  BY Zenon DEF TextInv, NUL, Blank
<1>3. M \in SUBSET Nat /\ Len(text) \in M
  BY <1>1, <1>2
<1>4. Min(M) \in M
  BY <1>3, NatMin
<1>5. NextUnit(text, i) = Min(M)
  BY Zenon DEF NextUnit
<1>6. QED
  BY <1>4, <1>5

(* If it is not the terminator, another one follows.                       *)
LEMMA NextUnitBehind ==
  ASSUME TextInv, NEW i \in 1 .. Len(text), text[i] # NUL
  PROVE  NextUnit(text, i + 1) \in i + 1 .. Len(text)
<1>1. i + 1 \in 1 .. Len(text)
  BY MoreFollows
<1>2. QED
  BY <1>1, NextUnitForward

(* The parser skips to it.                                                 *)
LEMMA SkipIsNextUnit ==
  ASSUME NEW t \in Texts, t[Len(t)] = NUL,
         \A j \in 1 .. Len(t) - 1 : t[j] # NUL, NEW i \in 1 .. Len(t)
  PROVE  buffer_skip_whitespace(t, i) = NextUnit(t, i)
<1> DEFINE M == {j \in i .. Len(t) : t[j] # Blank}
           more == {j \in i .. Len(t) : t[j] \notin {Blank, NUL}}
<1>1. Len(t) \in Nat /\ i \in Nat /\ ~(i > Len(t))
  BY LenProperties DEF Texts
<1>2. t[Len(t)] # Blank
  BY Zenon DEF NUL, Blank
<1>3. \A j \in i .. Len(t) : j # Len(t) => t[j] # NUL
  BY <1>1
<1>4. M = more \cup {Len(t)}
  BY <1>1, <1>2, <1>3
<1>5. buffer_skip_whitespace(t, i) = Min(more \cup {Len(t)})
  BY <1>1, Zenon DEF buffer_skip_whitespace
<1>6. NextUnit(t, i) = Min(M)
  BY Zenon DEF NextUnit
<1>7. QED
  BY <1>4, <1>5, <1>6

(* The same of the text that is parsed.                                    *)
LEMMA SkipsToNextUnit ==
  ASSUME TextInv, OneTerminator, NEW i \in 1 .. Len(text)
  PROVE  buffer_skip_whitespace(text, i) = NextUnit(text, i)
BY SkipIsNextUnit DEF TextInv, OneTerminator

(* A string ends further on in the text.                                   *)
LEMMA StringEndForward ==
  ASSUME TextInv, NEW i \in 1 .. Len(text)
  PROVE  StringEnd(text, i) \in {0} \cup i + 1 .. Len(text)
<1>1. Len(text) \in Nat
  BY LenProperties DEF TextInv, Texts
<1>2. QED
  BY <1>1, StringDecided

(* So does a number.                                                       *)
LEMMA NumberEndForward ==
  ASSUME TextInv, NEW i \in 1 .. Len(text), text[i] \in {"-", "1"}
  PROVE  NumberEnd(text, i) \in {0} \cup i + 1 .. Len(text)
<1> DEFINE first == IF text[i] = "-" THEN i + 1 ELSE i
           M == {j \in first .. Len(text) : text[j] # "1"}
<1>1. Len(text) \in Nat /\ i \in Nat /\ text[Len(text)] # "1" /\ text[i] # NUL
  <2>1. text[Len(text)] # "1" /\ text[i] # NUL
    BY Zenon DEF TextInv, NUL
  <2>2. QED
    BY <2>1, LenProperties DEF TextInv, Texts
<1>2. first \in i .. Len(text) /\ first \in Nat
  <2>1. i + 1 \in 1 .. Len(text)
    BY <1>1, MoreFollows
  <2>2. first \in {i, i + 1}
    BY Zenon
  <2> HIDE DEF first
  <2>3. QED
    BY <1>1, <2>1, <2>2
<1>3. NumberEnd(text, i) = IF Min(M) > first THEN Min(M) ELSE 0
  BY Zenon DEF NumberEnd
<1> HIDE DEF first
<1>4. M \in SUBSET Nat /\ Len(text) \in M
  BY <1>1, <1>2
<1>5. Min(M) \in M
  BY <1>4, NatMin
<1>6. QED
  BY <1>1, <1>2, <1>3, <1>5

(* The value of an item does not begin before the item.                    *)
LEMMA ItemValueForward ==
  ASSUME TextInv, NEW i \in 1 .. Len(text), NEW open \in Opening
  PROVE  ItemValue(text, i, open) \in {0} \cup i .. Len(text)
<1>1. Len(text) \in Nat /\ i \in Nat
  BY LenProperties DEF TextInv, Texts
<1> DEFINE end == StringEnd(text, i)
           colon == NextUnit(text, end)
           value == ItemValue(text, i, open)
<1>2. \/ value = i
      \/ value = 0
      \/ /\ end # 0 /\ text[colon] # NUL
         /\ value = NextUnit(text, colon + 1)
  BY Zenon DEF ItemValue, NUL
<1>3. ASSUME end # 0, text[colon] # NUL
      PROVE  NextUnit(text, colon + 1) \in i .. Len(text)
  <2>1. end \in i + 1 .. Len(text)
    BY <1>3, StringEndForward
  <2> HIDE DEF end
  <2>2. end \in 1 .. Len(text)
    BY <1>1, <2>1
  <2>3. colon \in end .. Len(text)
    BY <2>2, NextUnitForward
  <2> HIDE DEF colon
  <2>4. colon \in 1 .. Len(text)
    BY <1>1, <2>2, <2>3
  <2>5. NextUnit(text, colon + 1) \in colon + 1 .. Len(text)
    BY <1>3, <2>4, NextUnitBehind
  <2>6. QED
    BY <1>1, <2>1, <2>3, <2>5
<1> HIDE DEF value, end, colon
<1>4. i \in i .. Len(text)
  BY <1>1
<1>5. value \in {0} \cup i .. Len(text)
  BY <1>2, <1>3, <1>4
<1>6. QED
  BY <1>5 DEF value

(* What JsonEnds has of a place: for every nesting, where a value ends and *)
(* where each of the lists.                                                *)
Kinds == {"value"} \cup Opening
Nesting == 0 .. CJSON_NESTING_LIMIT
EndsAt == [Nesting -> [Kinds -> 0 .. Len(text)]]

(* A value is no list of which an item has ended.                          *)
LEMMA KindsAre == /\ "value" \in Kinds
                  /\ \A open \in Opening : open \in Kinds /\ open # "value"
BY Zenon DEF Kinds, Opening

(* Where an item ends, and a list of which one begins, depends only on     *)
(* what is known of the text from there on; and it is in the text.         *)
LEMMA ItemEndLocal ==
  ASSUME TextInv, NEW g \in [1 .. Len(text) -> EndsAt],
         NEW h, NEW i \in 1 .. Len(text),
         NEW d \in Nesting, NEW open \in Opening,
         \A k \in 1 .. Len(text) : k >= i => g[k] = h[k]
  PROVE  /\ ItemEnd(text, g, i, d, open) \in 0 .. Len(text)
         /\ ItemsEnd(text, g, i, d, open) \in 0 .. Len(text)
         /\ ItemEnd(text, g, i, d, open) = ItemEnd(text, h, i, d, open)
         /\ ItemsEnd(text, g, i, d, open) = ItemsEnd(text, h, i, d, open)
<1> DEFINE value == ItemValue(text, i, open)
           rest(f) == ItemEnd(text, f, i, d, open)
           all(f) == ItemsEnd(text, f, i, d, open)
<1>1. Len(text) \in Nat /\ i \in Nat
  BY LenProperties DEF TextInv, Texts
<1>2. \A f : /\ rest(f) = IF value = 0 THEN 0 ELSE f[value][d]["value"]
             /\ all(f) = IF rest(f) <= i THEN 0 ELSE f[rest(f)][d][open]
  BY Zenon DEF ItemEnd, ItemsEnd
<1>3. value \in {0} \cup i .. Len(text)
  BY ItemValueForward
<1>4. \A f \in [1 .. Len(text) -> EndsAt], k \in 1 .. Len(text), e \in Kinds :
        f[k][d][e] \in 0 .. Len(text)
  BY DEF EndsAt
<1>5. "value" \in Kinds /\ open \in Kinds
  BY KindsAre
<1> HIDE DEF value
<1>6. rest(g) \in 0 .. Len(text) /\ rest(g) = rest(h)
  <2>1. CASE value = 0
    BY <1>1, <1>2, <2>1
  <2>2. CASE value # 0
    <3>1. value \in 1 .. Len(text) /\ value >= i
      BY <1>1, <1>3, <2>2
    <3>2. g[value] = h[value]
      BY <3>1
    <3>3. g[value][d]["value"] \in 0 .. Len(text)
      BY <1>4, <1>5, <3>1
    <3>4. QED
      BY <1>2, <2>2, <3>2, <3>3
  <2>3. QED
    BY <2>1, <2>2
<1> DEFINE r == rest(g)
<1>7. r \in 0 .. Len(text) /\ rest(g) = r /\ rest(h) = r
  BY <1>6
<1> HIDE DEF r, rest
<1>8. all(g) \in 0 .. Len(text) /\ all(g) = all(h)
  <2>1. CASE r <= i
    BY <1>1, <1>2, <1>7, <2>1
  <2>2. CASE ~(r <= i)
    <3>1. r \in 1 .. Len(text) /\ r >= i
      BY <1>1, <1>7, <2>2
    <3>2. g[r] = h[r] /\ g[r][d][open] \in 0 .. Len(text)
      BY <1>4, <1>5, <3>1
    <3>3. all(g) = g[r][d][open] /\ all(h) = h[r][d][open]
      BY <1>2, <1>7, <2>2
    <3>4. QED
      BY <3>2, <3>3
  <2>3. QED
    BY <2>1, <2>2
<1>9. QED
  BY <1>7, <1>8 DEF rest

(* The same of a list of which an item has ended.                          *)
LEMMA RestEndLocal ==
  ASSUME TextInv, NEW g \in [1 .. Len(text) -> EndsAt],
         NEW h, NEW i \in 1 .. Len(text),
         NEW d \in Nesting, NEW open \in Opening,
         \A k \in 1 .. Len(text) : k > i => g[k] = h[k]
  PROVE  /\ RestEnd(text, g, i, d, open) \in 0 .. Len(text)
         /\ RestEnd(text, g, i, d, open) = RestEnd(text, h, i, d, open)
<1> DEFINE here == NextUnit(text, i)
           next == NextUnit(text, here + 1)
           end(f) == RestEnd(text, f, i, d, open)
           all(f) == ItemsEnd(text, f, next, d, open)
<1>1. Len(text) \in Nat /\ i \in Nat
  BY LenProperties DEF TextInv, Texts
<1>2. \/ /\ text[here] # NUL /\ \A f : end(f) = here + 1
      \/ /\ text[here] # NUL /\ \A f : end(f) = all(f)
      \/ \A f : end(f) = 0
  <2>1. Closing[open] # NUL /\ Closing[open] # ","
    BY Zenon DEF Closing, Opening, NUL
  <2>2. "," # NUL
    BY Zenon DEF NUL
  <2>3. CASE text[here] = Closing[open]
    <3>1. \A f : end(f) = here + 1
      BY <2>1, <2>3, Zenon DEF RestEnd
    <3>2. QED
      BY <2>1, <2>3, <3>1, Zenon
  <2>4. CASE text[here] = "," /\ text[here] # Closing[open]
    <3>1. \A f : end(f) = all(f)
      BY <2>4, Zenon DEF RestEnd
    <3>2. QED
      BY <2>2, <2>4, <3>1, Zenon
  <2>5. CASE text[here] # "," /\ text[here] # Closing[open]
    BY <2>5, Zenon DEF RestEnd
  <2>6. QED
    BY <2>3, <2>4, <2>5, Zenon
<1>3. here \in i .. Len(text) /\ here \in 1 .. Len(text)
  <2>1. here \in i .. Len(text)
    BY NextUnitForward
  <2> HIDE DEF here
  <2>2. QED
    BY <1>1, <2>1
<1>4. text[here] # NUL => next \in here + 1 .. Len(text)
  BY <1>3, NextUnitBehind
<1> HIDE DEF here
<1>5. text[here] # NUL => /\ all(g) \in 0 .. Len(text)
                          /\ all(g) = all(h)
  <2> SUFFICES ASSUME text[here] # NUL
               PROVE  all(g) \in 0 .. Len(text) /\ all(g) = all(h)
    OBVIOUS
  <2>1. next \in here + 1 .. Len(text)
    BY <1>4
  <2> HIDE DEF next
  <2>2. next \in 1 .. Len(text) /\ next > i
    BY <1>1, <1>3, <2>1
  <2>3. \A k \in 1 .. Len(text) : k >= next => g[k] = h[k]
    BY <1>1, <2>2
  <2>4. QED
    BY <2>2, <2>3, ItemEndLocal
<1>6. text[here] # NUL => here + 1 \in 0 .. Len(text)
  BY <1>1, <1>3, <1>4
<1>7. 0 \in 0 .. Len(text)
  BY <1>1
<1> HIDE DEF all, end
<1>8. end(g) \in 0 .. Len(text) /\ end(g) = end(h)
  BY <1>2, <1>5, <1>6, <1>7, Zenon
<1>9. QED
  BY <1>8 DEF end

(* The same of a value.                                                    *)
LEMMA ValueEndLocal ==
  ASSUME TextInv, NEW g \in [1 .. Len(text) -> EndsAt],
         NEW h, NEW i \in 1 .. Len(text), NEW d \in Nesting,
         \A k \in 1 .. Len(text) : k > i => g[k] = h[k]
  PROVE  /\ ValueEnd(text, g, i, d) \in 0 .. Len(text)
         /\ ValueEnd(text, g, i, d) = ValueEnd(text, h, i, d)
<1> DEFINE inside == NextUnit(text, i + 1)
           end(f) == ValueEnd(text, f, i, d)
           all(f) == ItemsEnd(text, f, inside, d + 1, text[i])
<1>1. Len(text) \in Nat /\ i \in Nat
  BY LenProperties DEF TextInv, Texts
<1>0. 0 \in 0 .. Len(text)
  BY <1>1
<1>2. CASE text[i] = Literal
  <2>1. \A f : end(f) = i + 1
    BY <1>2, Zenon DEF ValueEnd, Literal, Quote, Opening
  <2>2. text[i] # NUL
    BY <1>2 DEF Literal, NUL
  <2>3. i + 1 \in 0 .. Len(text)
    BY <1>1, <2>2, MoreFollows
  <2>4. QED
    BY <2>1, <2>3
<1>3. CASE text[i] = Quote
  <2>1. \A f : end(f) = StringEnd(text, i)
    BY <1>3, Zenon DEF ValueEnd, Literal, Quote, Opening
  <2>2. StringEnd(text, i) \in 0 .. Len(text)
    BY <1>1, StringEndForward
  <2>3. QED
    BY <2>1, <2>2
<1>4. CASE text[i] \in {"-", "1"}
  <2>1. \A f : end(f) = NumberEnd(text, i)
    BY <1>4, Zenon DEF ValueEnd, Literal, Quote, Opening
  <2>2. NumberEnd(text, i) \in {0} \cup i + 1 .. Len(text)
    BY <1>4, NumberEndForward
  <2>3. \A n \in {0} \cup i + 1 .. Len(text) : n \in 0 .. Len(text)
    BY <1>1
  <2>4. QED
    BY <2>1, <2>2, <2>3, Zenon
<1>5. CASE text[i] \in Opening /\ d < CJSON_NESTING_LIMIT
  <2>1. \A f : end(f) = IF text[inside] = Closing[text[i]] THEN inside + 1
                        ELSE all(f)
    BY <1>5, Zenon DEF ValueEnd, Literal, Quote, Opening
  <2>2. text[i] # NUL /\ Closing[text[i]] # NUL
    BY <1>5, Zenon DEF Opening, NUL, Closing
  <2>3. inside \in i + 1 .. Len(text)
    BY <2>2, NextUnitBehind
  <2> HIDE DEF inside
  <2>4. inside \in 1 .. Len(text) /\ inside > i
    BY <1>1, <2>3
  <2>5. text[inside] # NUL => inside + 1 \in 0 .. Len(text)
    BY <1>1, <2>4, MoreFollows
  <2>6. all(g) \in 0 .. Len(text) /\ all(g) = all(h)
    <3>1. \A k \in 1 .. Len(text) : k >= inside => g[k] = h[k]
      BY <1>1, <2>4
    <3>2. d + 1 \in Nesting
      BY <1>5, CJsonAssumption DEF Nesting
    <3>3. QED
      BY <1>5, <2>4, <3>1, <3>2, ItemEndLocal
  <2> HIDE DEF all, end
  <2>7. end(g) \in 0 .. Len(text) /\ end(g) = end(h)
    BY <2>1, <2>2, <2>5, <2>6, Zenon
  <2>8. QED
    BY <2>7 DEF end
<1>6. CASE /\ text[i] \notin {Literal, Quote, "-", "1"}
           /\ ~(text[i] \in Opening /\ d < CJSON_NESTING_LIMIT)
  <2>1. \A f : end(f) = 0
    BY <1>6, Zenon DEF ValueEnd
  <2>2. QED
    BY <1>0, <2>1
<1>7. QED
  BY <1>2, <1>3, <1>4, <1>5, <1>6, Zenon

(* The equations of JsonEnds.                                              *)
JsonEq(f) ==
  \A i \in 1 .. Len(text), d \in Nesting :
    /\ f[i][d]["value"] = ValueEnd(text, f, i, d)
    /\ \A open \in Opening : f[i][d][open] = RestEnd(text, f, i, d, open)

(* There is such a function, and JsonEnds is one.                          *)
LEMMA JsonEndsFunction ==
  ASSUME TextInv
  PROVE  /\ JsonEnds(text) \in [1 .. Len(text) -> EndsAt]
         /\ JsonEq(JsonEnds(text))
<1> DEFINE L == Len(text)
           D == 1 .. L
           N == 0 .. L
           V == EndsAt
           Step(g, i, d, what) ==
             IF what = "value" THEN ValueEnd(text, g, i, d)
             ELSE RestEnd(text, g, i, d, what)
           At(g, i) == [d \in Nesting |->
                          [what \in Kinds |-> Step(g, i, d, what)]]
           rank == [i \in D |-> L - i]
           phi == [g \in [D -> V] |-> [i \in D |-> At(g, i)]]
<1>1. L \in Nat
  BY LenProperties DEF TextInv, Texts
<1>2. /\ rank \in [D -> Nat] /\ \A i \in D : rank[i] <= L
      /\ \A i, k \in D : k > i => rank[k] < rank[i]
  BY <1>1
<1>3. ASSUME NEW g \in [D -> V], NEW h, NEW i \in D,
             \A k \in D : k > i => g[k] = h[k],
             NEW d \in Nesting, NEW what \in Kinds
      PROVE  /\ Step(g, i, d, what) \in N
             /\ Step(g, i, d, what) = Step(h, i, d, what)
  <2>1. CASE what = "value"
    <3>1. /\ ValueEnd(text, g, i, d) \in 0 .. Len(text)
          /\ ValueEnd(text, g, i, d) = ValueEnd(text, h, i, d)
      BY <1>3, ValueEndLocal
    <3>2. QED
      BY <2>1, <3>1, Zenon
  <2>2. CASE what # "value"
    <3>1. what \in Opening
      BY <2>2 DEF Kinds
    <3>2. /\ RestEnd(text, g, i, d, what) \in 0 .. Len(text)
          /\ RestEnd(text, g, i, d, what) = RestEnd(text, h, i, d, what)
      BY <1>3, <3>1, RestEndLocal
    <3>3. QED
      BY <2>2, <3>2, Zenon
  <2>3. QED
    BY <2>1, <2>2
<1> HIDE DEF rank, Step
<1>4. \A g \in [D -> V], i \in D : At(g, i) \in V
  BY <1>3 DEF EndsAt
<1>5. phi \in [[D -> V] -> [D -> V]]
  BY <1>4
<1>6. \A g, h \in [D -> V] : \A i \in D :
        (\A k \in D : rank[k] < rank[i] => g[k] = h[k])
          => phi[g][i] = phi[h][i]
  <2>1. SUFFICES ASSUME NEW g \in [D -> V], NEW h \in [D -> V], NEW i \in D,
                        \A k \in D : rank[k] < rank[i] => g[k] = h[k]
                 PROVE  phi[g][i] = phi[h][i]
    OBVIOUS
  <2>2. \A k \in D : k > i => g[k] = h[k]
    BY <1>2, <2>1
  <2>3. \A d \in Nesting, what \in Kinds :
          Step(g, i, d, what) = Step(h, i, d, what)
    BY <1>3, <2>2
  <2>4. At(g, i) = At(h, i)
    BY <2>3
  <2> HIDE DEF At
  <2>5. QED
    BY <2>4
<1>7. V # {}
  <2>1. [d \in Nesting |-> [what \in Kinds |-> 0]] \in V
    BY <1>1 DEF EndsAt
  <2>2. QED
    BY <2>1
<1>8. \E f \in [D -> V] : f = phi[f]
  <2> HIDE DEF phi, V, D, L
  <2>1. WellDefined(phi, D, V, rank, L)
    BY <1>1, <1>2, <1>5, <1>6, <1>7 DEF WellDefined
  <2>2. QED
    BY <2>1, Recursion
<1> DEFINE Fix(f) == f = [i \in D |-> At(f, i)]
           end == CHOOSE f : Fix(f)
<1>9. \E f : Fix(f)
  BY <1>8
<1>10. Fix(end)
  BY <1>9
<1>11. JsonEnds(text) = end
  BY Zenon DEF JsonEnds, Step, Kinds, Nesting
<1> HIDE DEF end
<1>12. \A i \in D : end[i] = At(end, i)
  BY <1>10
<1>13. ASSUME NEW i \in D, NEW d \in Nesting, NEW what \in Kinds
       PROVE  end[i][d][what] = Step(end, i, d, what)
  <2>1. end[i] = At(end, i)
    BY <1>12
  <2>2. At(end, i)[d][what] = Step(end, i, d, what)
    OBVIOUS
  <2>3. QED
    BY <2>1, <2>2
<1>14. JsonEq(end)
  <2>1. SUFFICES ASSUME NEW i \in D, NEW d \in Nesting
                 PROVE  /\ end[i][d]["value"] = ValueEnd(text, end, i, d)
                        /\ \A open \in Opening :
                             end[i][d][open] = RestEnd(text, end, i, d, open)
    BY DEF JsonEq
  <2>2. QED
    BY <1>13, KindsAre, Zenon DEF Step
<1>15. end \in [D -> V]
  <2> DEFINE S == {k \in Nat : k \in D => end[k] \in V}
  <2>1. \A k \in Nat : k > L => k \in S
    BY <1>1
  <2>2. ASSUME NEW i \in 0 .. L, \A k \in Nat : k > i => k \in S
        PROVE  i \in S
    <3> SUFFICES ASSUME i \in D
                 PROVE  end[i] \in V
      BY <1>1
    <3>1. PICK v : v \in V
      BY <1>7
    <3> DEFINE g == [k \in D |-> IF k > i THEN end[k] ELSE v]
    <3>2. g \in [D -> V]
      <4>1. \A k \in D : k > i => end[k] \in V
        BY <1>1, <2>2
      <4>2. QED
        BY <3>1, <4>1
    <3>3. \A k \in D : k > i => g[k] = end[k]
      OBVIOUS
    <3>4. At(g, i) \in V
      BY <1>4, <3>2
    <3> HIDE DEF g
    <3>5. At(g, i) = At(end, i)
      <4>1. \A d \in Nesting, what \in Kinds :
              Step(g, i, d, what) = Step(end, i, d, what)
        BY <1>3, <3>2, <3>3
      <4>2. QED
        BY <4>1
    <3>6. QED
      BY <1>12, <3>4, <3>5
  <2> HIDE DEF S
  <2>3. S = Nat
    <3>1. S \in SUBSET Nat
      BY DEF S
    <3>2. QED
      BY <1>1, <2>1, <2>2, <3>1, Downwards
  <2>4. \A i \in D : i \in Nat
    BY <1>1
  <2>5. \A i \in D : end[i] \in V
    BY <2>3, <2>4 DEF S
  <2>6. end = [i \in D |-> end[i]]
    BY <1>10, <1>12
  <2>7. QED
    BY <2>5, <2>6
<1>16. QED
  BY <1>11, <1>14, <1>15

(* Whatever ends, ends further on.                                         *)
LEMMA EndsForward ==
  ASSUME TextInv
  PROVE  \A i \in 1 .. Len(text), d \in Nesting, what \in Kinds :
           JsonEnds(text)[i][d][what] \in {0} \cup i + 1 .. Len(text)
<1> DEFINE E == JsonEnds(text)
           L == Len(text)
           Good(i) == \A d \in Nesting, what \in Kinds :
                        E[i][d][what] \in {0} \cup i + 1 .. L
           S == {i \in Nat : i \in 1 .. L => Good(i)}
<1>1. L \in Nat
  BY LenProperties DEF TextInv, Texts
<1>2. E \in [1 .. L -> EndsAt] /\ JsonEq(E)
  BY JsonEndsFunction
<1> HIDE DEF E
<1>3. \A i \in Nat : i > L => i \in S
  BY <1>1
<1>4. ASSUME NEW i \in 0 .. L, \A k \in Nat : k > i => k \in S
      PROVE  i \in S
  <2> SUFFICES ASSUME i \in 1 .. L, NEW d \in Nesting, NEW what \in Kinds
               PROVE  E[i][d][what] \in {0} \cup i + 1 .. L
    BY <1>1
  <2>0. i \in Nat /\ i \in 1 .. Len(text)
    BY <1>1
  <2>1. ASSUME NEW k \in i + 1 .. L, NEW c \in Nesting, NEW open \in Opening
        PROVE  ItemsEnd(text, E, k, c, open) \in {0} \cup i + 1 .. L
    <3> DEFINE rest == ItemEnd(text, E, k, c, open)
               all == ItemsEnd(text, E, k, c, open)
    <3>1. all = IF rest <= k THEN 0 ELSE E[rest][c][open]
      BY Zenon DEF ItemsEnd
    <3>2. rest \in 0 .. L
      <4>1. k \in 1 .. Len(text)
        BY <1>1, <2>0
      <4>2. QED
        BY <1>2, <4>1, ItemEndLocal
    <3> HIDE DEF rest, all
    <3>3. CASE ~(rest <= k)
      <4>1. rest \in Nat /\ rest > i /\ rest \in 1 .. L
        BY <1>1, <2>0, <3>2, <3>3
      <4>2. Good(rest) /\ open \in Kinds
        BY <1>4, <4>1, KindsAre
      <4>3. E[rest][c][open] \in {0} \cup rest + 1 .. L
        BY <4>2
      <4>4. QED
        BY <1>1, <2>0, <3>1, <3>3, <4>1, <4>3 DEF all
    <3>4. CASE rest <= k
      BY <3>1, <3>4 DEF all
    <3>5. QED
      BY <3>3, <3>4
  <2>2. CASE what = "value"
    <3> DEFINE inside == NextUnit(text, i + 1)
               end == ValueEnd(text, E, i, d)
    <3>0. E[i][d][what] = end
      BY <1>2, <2>0, <2>2 DEF JsonEq
    <3>1. CASE text[i] = Literal
      <4>1. end = i + 1
        BY <3>1, Zenon DEF ValueEnd, Literal, Quote, Opening
      <4>2. text[i] # NUL
        BY <3>1 DEF Literal, NUL
      <4>3. i + 1 \in 1 .. Len(text)
        BY <2>0, <4>2, MoreFollows
      <4>4. QED
        BY <1>1, <3>0, <4>1, <4>3
    <3>2. CASE text[i] = Quote
      <4>1. end = StringEnd(text, i)
        BY <3>2, Zenon DEF ValueEnd, Literal, Quote, Opening
      <4>2. QED
        BY <2>0, <3>0, <4>1, StringEndForward
    <3>3. CASE text[i] \in {"-", "1"}
      <4>1. end = NumberEnd(text, i)
        BY <3>3, Zenon DEF ValueEnd, Literal, Quote, Opening
      <4>2. NumberEnd(text, i) \in {0} \cup i + 1 .. Len(text)
        BY <2>0, <3>3, NumberEndForward
      <4>3. QED
        BY <3>0, <4>1, <4>2, Zenon DEF L
    <3>4. CASE text[i] \in Opening /\ d < CJSON_NESTING_LIMIT
      <4>1. end = IF text[inside] = Closing[text[i]] THEN inside + 1
                  ELSE ItemsEnd(text, E, inside, d + 1, text[i])
        BY <3>4, Zenon DEF ValueEnd, Literal, Quote, Opening
      <4>2. text[i] # NUL /\ Closing[text[i]] # NUL
        BY <3>4, Zenon DEF Opening, NUL, Closing
      <4>3. inside \in i + 1 .. L
        BY <2>0, <4>2, NextUnitBehind
      <4> HIDE DEF inside, end
      <4>4. text[inside] # NUL => inside + 1 \in 1 .. L
        BY <1>1, <2>0, <4>3, MoreFollows
      <4>5. text[inside] # NUL => inside + 1 \in {0} \cup i + 1 .. L
        BY <1>1, <2>0, <4>3, <4>4
      <4>6. ItemsEnd(text, E, inside, d + 1, text[i]) \in {0} \cup i + 1 .. L
        <5>1. d + 1 \in Nesting
          BY <3>4, CJsonAssumption DEF Nesting
        <5>2. QED
          BY <2>1, <3>4, <4>3, <5>1
      <4>7. end \in {0} \cup i + 1 .. L
        BY <4>1, <4>2, <4>5, <4>6, Zenon
      <4>8. QED
        BY <3>0, <4>7
    <3>5. CASE /\ text[i] \notin {Literal, Quote, "-", "1"}
               /\ ~(text[i] \in Opening /\ d < CJSON_NESTING_LIMIT)
      <4>1. end = 0
        BY <3>5, Zenon DEF ValueEnd
      <4>2. QED
        BY <3>0, <4>1
    <3>6. QED
      BY <3>1, <3>2, <3>3, <3>4, <3>5, Zenon
  <2>3. CASE what # "value"
    <3> DEFINE here == NextUnit(text, i)
               next == NextUnit(text, here + 1)
               end == RestEnd(text, E, i, d, what)
    <3>0. what \in Opening
      BY <2>3 DEF Kinds
    <3>1. E[i][d][what] = end
      BY <1>2, <2>0, <3>0 DEF JsonEq
    <3>2. \/ text[here] # NUL /\ end = here + 1
          \/ text[here] # NUL /\ end = ItemsEnd(text, E, next, d, what)
          \/ end = 0
      <4>1. Closing[what] # NUL /\ Closing[what] # "," /\ "," # NUL
        BY <3>0, Zenon DEF Closing, Opening, NUL
      <4>2. CASE text[here] = Closing[what]
        <5>1. end = here + 1
          BY <4>1, <4>2, Zenon DEF RestEnd
        <5>2. QED
          BY <4>1, <4>2, <5>1, Zenon
      <4>3. CASE text[here] = "," /\ text[here] # Closing[what]
        <5>1. end = ItemsEnd(text, E, next, d, what)
          BY <4>3, Zenon DEF RestEnd
        <5>2. QED
          BY <4>1, <4>3, <5>1, Zenon
      <4>4. CASE text[here] # "," /\ text[here] # Closing[what]
        BY <4>4, Zenon DEF RestEnd
      <4>5. QED
        BY <4>2, <4>3, <4>4, Zenon
    <3>3. here \in i .. L
      BY <2>0, NextUnitForward
    <3> HIDE DEF here, end
    <3>4. here \in 1 .. Len(text) /\ here \in Nat
      BY <1>1, <2>0, <3>3
    <3>5. text[here] # NUL => here + 1 \in i + 1 .. L
      <4>1. text[here] # NUL => here + 1 \in 1 .. Len(text)
        BY <3>4, MoreFollows
      <4>2. QED
        BY <1>1, <2>0, <3>3, <4>1
    <3>6. text[here] # NUL =>
            ItemsEnd(text, E, next, d, what) \in {0} \cup i + 1 .. L
      <4> SUFFICES ASSUME text[here] # NUL
                   PROVE  ItemsEnd(text, E, next, d, what)
                            \in {0} \cup i + 1 .. L
        OBVIOUS
      <4>1. next \in here + 1 .. Len(text)
        BY <3>4, NextUnitBehind
      <4> HIDE DEF next
      <4>2. next \in i + 1 .. L
        BY <1>1, <2>0, <3>3, <4>1
      <4>3. QED
        BY <2>1, <3>0, <4>2
    <3>7. end \in {0} \cup i + 1 .. L
      BY <3>2, <3>5, <3>6
    <3>8. QED
      BY <3>1, <3>7
  <2>4. QED
    BY <2>2, <2>3
<1> HIDE DEF S
<1>5. S = Nat
  <2>1. S \in SUBSET Nat
    BY DEF S
  <2>2. QED
    BY <1>1, <1>3, <1>4, <2>1, Downwards
<1>6. \A i \in 1 .. L : i \in Nat
  BY <1>1
<1>7. QED
  BY <1>5, <1>6 DEF S, E

-----------------------------------------------------------------------------
(* What the parser accepts *)

(* The terminator is put where no other is.                                *)
LEMMA OneTerminatorStays ==
  ASSUME OneTerminator, JsonNext
  PROVE  OneTerminator'
<1>1. CASE text' = text
  BY <1>1 DEF OneTerminator
<1>2. CASE text' = <<NUL>>
  BY <1>2 DEF OneTerminator
<1>3. ASSUME NEW in \in Inputs, cJSON_Parse(in)
      PROVE  OneTerminator'
  <2>1. in.text \in Seq(Units) /\ text' = Append(in.text, NUL)
    BY <1>3, CJsonAssumption DEF cJSON_Parse
  <2>2. in.text \in Texts
    BY <2>1, SeqMonotonic DEF Texts
  <2>3. /\ Len(in.text) \in Nat /\ Len(text') = Len(in.text) + 1
        /\ \A i \in 1 .. Len(in.text) :
             text'[i] = in.text[i] /\ in.text[i] \in Units
    BY <2>1, <2>2, AppendProperties, LenProperties, ElementOfSeq DEF Texts
  <2>4. NUL \notin Units
    BY Zenon DEF NUL, Units, Quote, Backslash, Blank, Literal
  <2>5. QED
    BY <2>3, <2>4 DEF OneTerminator
<1>4. CASE parse_value \/ parse_returns
  BY <1>1, <1>4, Zenon
     DEF parse_value, parse_literal, parse_value_string, parse_number,
         parse_list, parse_nothing, parse_returns, ReturnsFalse, StringFails
<1>5. CASE parse_array_or_object
  BY <1>1, <1>5, Zenon
     DEF parse_array_or_object, next_item, parse_name, list_ends,
         list_goes_on, list_fails, StringFails
<1>6. CASE parse_fails \/ app_deletes
  BY <1>2, <1>6, Zenon DEF parse_fails, app_deletes, ParseOver
<1>7. QED
  BY <1>3, <1>4, <1>5, <1>6 DEF JsonNext

(* Where the item at the place i ends, in a list that is d deep; and where *)
(* the list at depth k ends, of which an item ends at e.                   *)
EndOfItem(i, d, open) == ItemEnd(text, JsonEnds(text), i, d, open)

Onward(e, k) == IF e = 0 THEN 0 ELSE JsonEnds(text)[e][k][stack[k].open]

Brace == "{"

(* Where the value being parsed, or the item that is next, ends; behind a  *)
(* value it is where the parser is.                                        *)
Ahead ==
  CASE pc = "parse_value" -> JsonEnds(text)[offset][depth]["value"]
    [] pc = "parse_name"  -> EndOfItem(offset, depth, Brace)
    [] pc = "next_item"   -> EndOfItem(NextUnit(text, offset + 1), depth,
                                       Top.open)
    [] OTHER              -> offset

(* The ends of the values being parsed, by their depth.                    *)
EndsOfAll(ends) ==
  /\ ends[0] = JsonEnd(text)
  /\ \A k \in 1 .. Len(stack) : ends[k - 1] = Onward(ends[k], k)

OnCourse ==
  /\ depth = Len(stack)
  /\ \E ends : EndsOfAll(ends) /\ ends[Len(stack)] = Ahead

Course == (Parsing => OnCourse) /\ Accepts

(* If one of the values does not end, the text does not start with one.    *)
LEMMA NoEnd ==
  ASSUME stack \in Seq(Frame), NEW ends, EndsOfAll(ends),
         NEW i \in Depths, ends[i] = 0
  PROVE  JsonEnd(text) = 0
<1> DEFINE S == {k \in Nat : k \in Depths /\ ends[k] = 0 => ends[0] = 0}
<1>1. Len(stack) \in Nat
  BY LenProperties
<1>2. ASSUME NEW k \in Nat, \A j \in Nat : j < k => j \in S
      PROVE  k \in S
  <2>1. CASE k # 0 /\ k \in Depths /\ ends[k] = 0
    <3>1. k \in 1 .. Len(stack) /\ k - 1 \in Depths /\ k - 1 \in Nat
          /\ k - 1 < k
      BY <1>1, <2>1 DEF Depths
    <3>2. ends[k - 1] = 0
      BY <2>1, <3>1 DEF EndsOfAll, Onward
    <3>3. QED
      BY <1>2, <3>1, <3>2
  <2>2. QED
    BY <2>1
<1> HIDE DEF S
<1>3. S = Nat
  <2>1. S \in SUBSET Nat
    BY DEF S
  <2>2. QED
    BY <1>2, <2>1, Upwards
<1>4. i \in Nat
  BY <1>1 DEF Depths
<1>5. QED
  BY <1>3, <1>4 DEF S, EndsOfAll

(* A step that fails where nothing that is ahead ends.                     *)
LEMMA Refuses ==
  ASSUME stack \in Seq(Frame), OnCourse, Ahead = 0, pc' = "fail", text' = text
  PROVE  Course'
<1>1. PICK ends : EndsOfAll(ends) /\ ends[Len(stack)] = 0
  BY DEF OnCourse
<1>2. Len(stack) \in Depths
  BY LenProperties DEF Depths
<1>3. JsonEnd(text) = 0
  BY <1>1, <1>2, NoEnd
<1>4. QED
  BY <1>3 DEF Course, Accepts, Parsing

(* One that fails for want of heap.                                        *)
LEMMA WantsHeap ==
  ASSUME pc' = "fail", failed' = TRUE
  PROVE  Course'
BY DEF Course, Accepts, Parsing

(* A step that does not change what the parser is in, nor what is ahead.   *)
LEMMA GoesOn ==
  ASSUME OnCourse, Parsing', UNCHANGED <<text, depth>>,
         Len(stack') = Len(stack),
         \A k \in 1 .. Len(stack) : stack'[k].open = stack[k].open,
         Ahead' = Ahead
  PROVE  Course'
<1>1. PICK ends : EndsOfAll(ends) /\ ends[Len(stack)] = Ahead
  BY DEF OnCourse
<1>2. \A k \in 1 .. Len(stack) : Onward(ends[k], k)' = Onward(ends[k], k)
  BY <1>1 DEF Onward
<1>3. EndsOfAll(ends)'
  BY <1>1, <1>2 DEF EndsOfAll, Depths
<1>4. OnCourse'
  BY <1>1, <1>3 DEF OnCourse
<1>5. pc' # "fail" /\ pc' # "parsed"
  BY DEF Parsing
<1>6. QED
  BY <1>4, <1>5 DEF Course, Accepts

(* Where the parser is and what it finds ahead.                            *)
LEMMA CourseFacts ==
  ASSUME JsonInv
  PROVE  /\ TextInv /\ stack \in Seq(Frame) /\ Len(stack) \in Nat
         /\ depth \in Nesting /\ Len(text) \in Nat
         /\ pc \in {"parse_value", "parse_name", "value"}
              => offset \in 1 .. Len(text)
         /\ pc = "next_item" => /\ offset \in 1 .. Len(text)
                                /\ offset + 1 \in 1 .. Len(text)
         /\ pc \in {"next_item", "parse_name"} => stack # <<>>
         /\ stack # <<>> => /\ Len(stack) \in 1 .. Len(stack)
                            /\ Top.open \in Opening
<1>1. /\ TextInv /\ stack \in Seq(Frame) /\ depth \in Nesting
      /\ pc \in {"next_item", "parse_name"} => stack # <<>>
  BY DEF JsonInv, HeapInv, Blocks, DepthInv, Nesting, Places
<1>2. Len(stack) \in Nat /\ Len(text) \in Nat
  BY <1>1, LenProperties DEF TextInv, Texts
<1>3. offset \in 1 .. Len(text) + 1
  BY DEF JsonInv, JsonTypeOK
<1>4. /\ pc \in {"parse_value", "parse_name", "value"}
           => offset \in 1 .. Len(text)
      /\ pc = "next_item" => /\ offset \in 1 .. Len(text)
                             /\ offset + 1 \in 1 .. Len(text)
  BY <1>2, <1>3 DEF JsonInv, ReadsInBuffer
<1>5. ASSUME stack # <<>>
      PROVE  Len(stack) \in 1 .. Len(stack) /\ Top.open \in Opening
  <2>1. Len(stack) \in 1 .. Len(stack)
    BY <1>1, <1>2, <1>5, EmptySeq
  <2>2. stack[Len(stack)] \in Frame
    BY <1>1, <2>1, ElementOfSeq
  <2>3. QED
    BY <2>1, <2>2 DEF Frame, Top
<1>6. QED
  BY <1>1, <1>2, <1>4, <1>5

(* At parse_value what is ahead is the value that begins there.            *)
LEMMA ValueAhead ==
  ASSUME JsonInv, pc = "parse_value"
  PROVE  Ahead = ValueEnd(text, JsonEnds(text), offset, depth)
<1>1. TextInv /\ offset \in 1 .. Len(text) /\ depth \in Nesting
  BY CourseFacts
<1>2. JsonEq(JsonEnds(text))
  BY <1>1, JsonEndsFunction
<1>3. JsonEnds(text)[offset][depth]["value"]
        = ValueEnd(text, JsonEnds(text), offset, depth)
  BY <1>1, <1>2 DEF JsonEq
<1>4. QED
  BY <1>3 DEF Ahead

(* A value of one unit, a string, a number or an empty list: the parser    *)
(* moves to where it ends.                                                 *)
LEMMA ValueParsed ==
  ASSUME OnCourse, pc' = "value",
         UNCHANGED <<text, depth, stack>>, offset' = Ahead
  PROVE  Course'
<1>1. Ahead' = Ahead
  BY DEF Ahead
<1>2. Parsing'
  BY DEF Parsing
<1>3. QED
  BY <1>1, <1>2, GoesOn

(* parse_value, but for a list with something in it.                       *)
LEMMA SimpleCourse ==
  ASSUME JsonInv, OneTerminator, OnCourse, parse_value, pc' # "next_item"
  PROVE  Course'
<1> DEFINE end == ValueEnd(text, JsonEnds(text), offset, depth)
<1>1. /\ pc = "parse_value" /\ TextInv /\ stack \in Seq(Frame)
      /\ offset \in 1 .. Len(text) /\ depth \in Nesting
  <2>1. pc = "parse_value"
    BY Zenon DEF parse_value, parse_literal, parse_value_string, parse_number,
                 parse_list, parse_nothing
  <2>2. QED
    BY <2>1, CourseFacts
<1>2. Ahead = end
  BY <1>1, ValueAhead
<1>3. ASSUME end = 0, ReturnsFalse
      PROVE  Course'
  BY <1>1, <1>2, <1>3, Refuses DEF ReturnsFalse
<1>4. CASE parse_literal
  <2>1. text[offset] = Literal
    BY <1>4 DEF parse_literal
  <2>2. end = offset + 1
    BY <2>1, Zenon DEF ValueEnd, Literal, Quote, Opening
  <2>3. QED
    BY <1>2, <1>4, <2>2, ValueParsed DEF parse_literal
<1>5. CASE parse_value_string
  <2>1. text[offset] = Quote
    BY <1>5 DEF parse_value_string
  <2>2. end = StringEnd(text, offset)
    BY <2>1, Zenon DEF ValueEnd, Literal, Quote, Opening
  <2>3. CASE StringFails
    <3>1. CASE failed' = TRUE
      BY <2>3, <3>1, WantsHeap DEF StringFails
    <3>2. CASE ~parse_string(offset).ok
      <4>1. Ahead = 0
        BY <1>1, <1>2, <2>2, <3>2, StringDecided
      <4>2. QED
        BY <1>1, <2>3, <4>1, Refuses DEF StringFails
    <3>3. QED
      BY <2>3, <3>1, <3>2 DEF StringFails
  <2>4. CASE ~StringFails
    <3>1. /\ parse_string(offset).ok
          /\ offset' = parse_string(offset).end + 1
          /\ pc' = "value" /\ UNCHANGED <<text, depth, stack>>
      BY <1>5, <2>4 DEF parse_value_string, StringParsed
    <3>2. offset' = Ahead
      BY <1>1, <1>2, <2>2, <3>1, StringDecided
    <3>3. QED
      BY <3>1, <3>2, ValueParsed
  <2>5. QED
    BY <2>3, <2>4
<1>6. CASE parse_number
  <2> DEFINE first == IF text[offset] = "-" THEN offset + 1 ELSE offset
             last  == Min({j \in first .. Len(text) : text[j] # "1"})
  <2>1. text[offset] \in {"-", "1"}
    BY <1>6 DEF parse_number
  <2>2. end = NumberEnd(text, offset)
    BY <2>1, Zenon DEF ValueEnd, Literal, Quote, Opening
  <2>3. NumberEnd(text, offset) = IF last > first THEN last ELSE 0
    BY Zenon DEF NumberEnd
  <2>4. \/ /\ last > first /\ offset' = last
           /\ pc' = "value" /\ UNCHANGED <<text, depth, stack>>
        \/ last = first /\ ReturnsFalse
    BY <1>6, Zenon DEF parse_number
  <2>5. first \in Int
    <3>1. first \in {offset, offset + 1}
      BY Zenon
    <3> HIDE DEF first
    <3>2. offset \in Int
      BY <1>1
    <3>3. QED
      BY <3>1, <3>2
  <2> HIDE DEF first, last, end
  <2>6. CASE last > first /\ ~(last = first /\ ReturnsFalse)
    <3>1. offset' = Ahead
      BY <1>2, <2>2, <2>3, <2>4, <2>6
    <3>2. QED
      BY <2>4, <2>6, <3>1, ValueParsed
  <2>7. CASE last = first /\ ReturnsFalse
    <3>1. end = 0
      BY <2>2, <2>3, <2>5, <2>7
    <3>2. QED
      BY <1>3, <2>7, <3>1
  <2>8. QED
    BY <2>4, <2>6, <2>7
<1>7. CASE parse_list
  <2> DEFINE open == text[offset]
             inside == buffer_skip_whitespace(text, offset + 1)
  <2>1. open \in Opening /\ open \notin {Literal, Quote, "-", "1"}
    BY <1>7, Zenon DEF parse_list, Literal, Quote, Opening
  <2>2. open # NUL
    BY <2>1, Zenon DEF Opening, NUL
  <2>3. inside = NextUnit(text, offset + 1)
    <3>1. offset + 1 \in 1 .. Len(text)
      BY <1>1, <2>2, MoreFollows
    <3>2. QED
      BY <1>1, <3>1, SkipsToNextUnit
  <2>4. \/ TooDeep /\ ReturnsFalse
        \/ /\ ~TooDeep /\ text[inside] = Closing[open]
           /\ offset' = inside + 1
           /\ pc' = "value" /\ UNCHANGED <<text, depth, stack>>
    BY <1>7 DEF parse_list
  <2>5. CASE TooDeep /\ ReturnsFalse
    <3>1. ~(depth < CJSON_NESTING_LIMIT)
      BY <1>1, <2>5, CJsonAssumption DEF TooDeep, Nesting
    <3>2. end = 0
      BY <2>1, <3>1, Zenon DEF ValueEnd
    <3>3. QED
      BY <1>3, <2>5, <3>2
  <2>6. CASE ~(TooDeep /\ ReturnsFalse)
    <3>1. depth < CJSON_NESTING_LIMIT
      BY <1>1, <2>4, <2>6, CJsonAssumption DEF TooDeep, Nesting
    <3>2. text[NextUnit(text, offset + 1)] = Closing[text[offset]]
      BY <2>3, <2>4, <2>6
    <3>3. end = NextUnit(text, offset + 1) + 1
      BY <2>1, <3>1, <3>2, Zenon DEF ValueEnd, Literal, Quote, Opening
    <3> HIDE DEF inside, end
    <3>4. offset' = Ahead
      BY <1>2, <2>3, <2>4, <2>6, <3>3
    <3>5. QED
      BY <2>4, <2>6, <3>4, ValueParsed
  <2>7. QED
    BY <2>5, <2>6
<1>8. CASE parse_nothing
  <2>1. end = 0
    <3>1. text[offset] \notin {Literal, Quote, "-", "1", "[", "{"}
      BY <1>8 DEF parse_nothing
    <3>2. QED
      BY <3>1, Zenon DEF ValueEnd, Opening
  <2>2. QED
    BY <1>3, <1>8, <2>1 DEF parse_nothing
<1>9. QED
  BY <1>4, <1>5, <1>6, <1>7, <1>8 DEF parse_value

(* Where a list ends of which an item begins at i.                         *)
LEMMA ItemsEndIs ==
  ASSUME JsonInv, NEW i \in 1 .. Len(text), NEW d \in Nesting,
         NEW open \in Opening
  PROVE  LET e == EndOfItem(i, d, open)
         IN /\ e \in 0 .. Len(text)
            /\ ItemsEnd(text, JsonEnds(text), i, d, open)
                 = IF e = 0 THEN 0 ELSE JsonEnds(text)[e][d][open]
<1> DEFINE E == JsonEnds(text)
           value == ItemValue(text, i, open)
           e == EndOfItem(i, d, open)
<1>1. TextInv /\ Len(text) \in Nat /\ i \in Nat
  BY CourseFacts
<1>2. e = IF value = 0 THEN 0 ELSE E[value][d]["value"]
  BY Zenon DEF EndOfItem, ItemEnd
<1>3. ItemsEnd(text, E, i, d, open) = IF e <= i THEN 0 ELSE E[e][d][open]
  BY Zenon DEF ItemsEnd, EndOfItem
<1>4. value \in {0} \cup i .. Len(text)
  BY <1>1, ItemValueForward
<1>5. value # 0 => E[value][d]["value"] \in {0} \cup value + 1 .. Len(text)
  <2>1. value # 0 => value \in 1 .. Len(text)
    BY <1>1, <1>4
  <2>2. QED
    BY <1>1, <2>1, EndsForward, KindsAre
<1> HIDE DEF E, value, e
<1>6. e \in 0 .. Len(text) /\ (e <= i <=> e = 0)
  <2>1. CASE value = 0
    BY <1>1, <1>2, <2>1
  <2>2. CASE value # 0
    <3>1. value \in Nat /\ value >= i
      BY <1>1, <1>4, <2>2
    <3>2. e \in {0} \cup value + 1 .. Len(text)
      BY <1>2, <1>5, <2>2
    <3>3. QED
      BY <1>1, <3>1, <3>2
  <2>3. QED
    BY <2>1, <2>2
<1>7. QED
  BY <1>3, <1>6 DEF e, E

(* parse_list, of a list with something in it.                             *)
LEMMA ListBegunCourse ==
  ASSUME JsonInv, OneTerminator, OnCourse, parse_list, pc' = "next_item"
  PROVE  Course'
<1> DEFINE open == text[offset]
           inside == NextUnit(text, offset + 1)
           e == EndOfItem(inside, depth + 1, open)
<1>1. /\ pc = "parse_value" /\ open \in Opening /\ ~TooDeep
      /\ text[buffer_skip_whitespace(text, offset + 1)] # Closing[open]
      /\ depth' = depth + 1
      /\ stack' = Append(stack, [open |-> open, item |-> item,
                                 head |-> 0, current_item |-> 0])
      /\ offset' = buffer_skip_whitespace(text, offset + 1) - 1
      /\ text' = text
  BY DEF parse_list, ReturnsFalse
<1>2. /\ TextInv /\ stack \in Seq(Frame) /\ offset \in 1 .. Len(text)
      /\ Len(stack) \in Nat /\ Len(text) \in Nat /\ depth \in Nesting
  BY <1>1, CourseFacts
<1>3. open \notin {Literal, Quote, "-", "1"} /\ open # NUL
  BY <1>1, Zenon DEF Literal, Quote, Opening, NUL
<1>4. offset + 1 \in 1 .. Len(text)
  BY <1>2, <1>3, MoreFollows
<1>5. inside = buffer_skip_whitespace(text, offset + 1)
  BY <1>2, <1>4, SkipsToNextUnit
<1>6. inside \in offset + 1 .. Len(text) /\ inside \in 1 .. Len(text)
  <2>1. inside \in offset + 1 .. Len(text)
    BY <1>2, <1>4, NextUnitForward
  <2> HIDE DEF inside
  <2>2. QED
    BY <1>2, <2>1
<1>7. NextUnit(text, inside) = inside
  <2> DEFINE M == {j \in inside .. Len(text) : text[j] # Blank}
  <2>1. text[inside] # Blank
    <3> DEFINE K == {j \in offset + 1 .. Len(text) : text[j] # Blank}
    <3>1. inside = Min(K)
      BY Zenon DEF NextUnit
    <3>2. K \in SUBSET Nat /\ Len(text) \in K
      <4>1. text[Len(text)] # Blank
        BY <1>2, Zenon DEF TextInv, NUL, Blank
      <4>2. QED
        BY <1>2, <1>4, <4>1
    <3>3. Min(K) \in K
      BY <3>2, NatMin
    <3> HIDE DEF inside
    <3>4. QED
      BY <3>1, <3>3
  <2>2. NextUnit(text, inside) = Min(M)
    BY Zenon DEF NextUnit
  <2> HIDE DEF inside
  <2>3. M \in SUBSET Nat /\ inside \in M /\ \A j \in M : inside <= j
    BY <1>2, <1>6, <2>1
  <2>4. Min(M) \in M /\ \A j \in M : Min(M) <= j
    BY <2>3, NatMin
  <2>5. /\ inside \in Nat /\ Min(M) \in Nat
        /\ Min(M) <= inside /\ inside <= Min(M)
    BY <2>3, <2>4
  <2>6. Min(M) = inside
    BY <2>5
  <2>7. QED
    BY <2>2, <2>6
<1>8. depth + 1 \in Nesting /\ depth < CJSON_NESTING_LIMIT
  BY <1>1, <1>2, CJsonAssumption DEF TooDeep, Nesting
<1>9. ValueEnd(text, JsonEnds(text), offset, depth)
        = ItemsEnd(text, JsonEnds(text), inside, depth + 1, open)
  <2>1. text[inside] # Closing[open]
    BY <1>1, <1>5
  <2>2. open \in Opening /\ depth < CJSON_NESTING_LIMIT
    BY <1>1, <1>8
  <2>3. QED
    BY <1>3, <2>1, <2>2, Zenon DEF ValueEnd
<1>10. /\ e \in 0 .. Len(text)
       /\ Ahead = IF e = 0 THEN 0 ELSE JsonEnds(text)[e][depth + 1][open]
  BY <1>1, <1>6, <1>8, <1>9, ValueAhead, ItemsEndIs
<1> DEFINE frame == [open |-> open, item |-> item, head |-> 0,
                     current_item |-> 0]
<1>11. /\ Len(stack') = Len(stack) + 1
       /\ stack'[Len(stack) + 1].open = open
       /\ \A k \in 1 .. Len(stack) : stack'[k] = stack[k]
  <2>1. frame.open = open /\ stack' = Append(stack, frame)
    BY <1>1
  <2> DEFINE any == Frame \cup {frame}
  <2>2. stack \in Seq(any) /\ frame \in any
    BY <1>2, SeqMonotonic
  <2> HIDE DEF frame, any
  <2>3. /\ Len(stack') = Len(stack) + 1
        /\ \A k \in 1 .. Len(stack) : stack'[k] = stack[k]
        /\ stack'[Len(stack) + 1] = frame
    BY <2>1, <2>2, AppendProperties
  <2>4. QED
    BY <2>1, <2>3
<1> HIDE DEF open, e, frame
<1>12. Ahead' = e
  <2>1. offset' + 1 = inside
    <3> HIDE DEF inside
    <3>1. QED
      BY <1>1, <1>5, <1>6
  <2>2. Top'.open = open
    BY <1>11 DEF Top
  <2>3. Ahead' = EndOfItem(NextUnit(text, offset' + 1), depth + 1, Top'.open)
    BY <1>1 DEF Ahead, EndOfItem
  <2>4. QED
    BY <1>7, <2>1, <2>2, <2>3 DEF e
<1>13. PICK ends : EndsOfAll(ends) /\ ends[Len(stack)] = Ahead
  BY DEF OnCourse
<1>14. PICK more : more = [k \in Depths' |->
                            IF k = Len(stack) + 1 THEN e ELSE ends[k]]
  OBVIOUS
<1>15. depth = Len(stack)
  BY DEF OnCourse
<1>16. EndsOfAll(more)'
  <2>1. /\ Depths = 0 .. Len(stack) /\ Depths' = 0 .. Len(stack) + 1
    BY <1>11 DEF Depths
  <2>3. more[0] = JsonEnd(text')
    BY <1>1, <1>2, <1>13, <1>14, <2>1 DEF EndsOfAll
  <2>4. ASSUME NEW k \in 1 .. Len(stack')
        PROVE  more[k - 1] = Onward(more[k], k)'
    <3>1. CASE k = Len(stack) + 1
      <4>1. more[k - 1] = Ahead /\ more[k] = e
        BY <1>2, <1>11, <1>13, <1>14, <2>1, <3>1
      <4>2. Onward(more[k], k)' =
              IF e = 0 THEN 0 ELSE JsonEnds(text)[e][depth + 1][open]
        BY <1>1, <1>11, <1>15, <3>1, <4>1 DEF Onward
      <4>3. QED
        BY <1>10, <4>1, <4>2
    <3>2. CASE k # Len(stack) + 1
      <4>1. k \in 1 .. Len(stack)
        BY <1>2, <1>11, <3>2
      <4>2. more[k - 1] = ends[k - 1] /\ more[k] = ends[k]
        BY <1>2, <1>14, <2>1, <4>1
      <4>3. Onward(more[k], k)' = Onward(ends[k], k)
        BY <1>1, <1>11, <4>1, <4>2 DEF Onward
      <4>4. QED
        BY <1>13, <4>1, <4>2, <4>3 DEF EndsOfAll
    <3>3. QED
      BY <3>1, <3>2
  <2>5. QED
    BY <2>3, <2>4 DEF EndsOfAll
<1>17. more[Len(stack')] = Ahead'
  BY <1>2, <1>11, <1>12, <1>14 DEF Depths
<1>18. OnCourse'
  <2>1. depth' = Len(stack')
    BY <1>1, <1>11, <1>15
  <2>2. QED
    BY <1>16, <1>17, <2>1 DEF OnCourse
<1>19. QED
  BY <1>18 DEF Course, Accepts

(* next_item: what is next is where it was ahead.                          *)
LEMMA NextItemCourse ==
  ASSUME JsonInv, OneTerminator, OnCourse, next_item
  PROVE  Course'
<1>1. CASE pc' = "fail"
  BY <1>1, WantsHeap, Zenon DEF next_item
<1>2. CASE pc' # "fail"
  <2> DEFINE next == NextUnit(text, offset + 1)
             open == Top.open
  <2>1. /\ pc = "next_item" /\ Attach(FreeBlock(node))
        /\ offset' = buffer_skip_whitespace(text, offset + 1)
        /\ pc' = IF open = Brace THEN "parse_name" ELSE "parse_value"
        /\ UNCHANGED <<text, depth>>
    BY <1>2, Zenon DEF next_item, Brace
  <2>2. /\ TextInv /\ stack \in Seq(Frame) /\ offset + 1 \in 1 .. Len(text)
        /\ Len(stack) \in 1 .. Len(stack) /\ open \in Opening
    BY <2>1, CourseFacts
  <2>3. offset' = next /\ next \in offset + 1 .. Len(text)
    BY <2>1, <2>2, SkipsToNextUnit, NextUnitForward
  <2> DEFINE n == FreeBlock(node)
             top == [Top EXCEPT !.head = IF Top.head = 0 THEN n ELSE Top.head,
                                !.current_item = n]
  <2>4. /\ Len(stack') = Len(stack)
        /\ \A k \in 1 .. Len(stack) : stack'[k].open = stack[k].open
    <3>1. stack' = [stack EXCEPT ![Len(stack)] = top]
      BY <2>1 DEF Attach
    <3>2. stack[Len(stack)] \in Frame /\ top.open = stack[Len(stack)].open
      <4>1. stack[Len(stack)] \in Frame
        BY <2>2, ElementOfSeq
      <4>2. QED
        BY <4>1 DEF Top, Frame
    <3> HIDE DEF top
    <3>3. /\ DOMAIN stack = 1 .. Len(stack) /\ DOMAIN stack' = DOMAIN stack
          /\ \A k \in 1 .. Len(stack) :
               stack'[k] = IF k = Len(stack) THEN top ELSE stack[k]
      BY <2>2, <3>1, LenProperties
    <3>4. Len(stack') = Len(stack)
      BY <2>2, <3>1
    <3>5. QED
      BY <3>2, <3>3, <3>4
  <2>5. Ahead = EndOfItem(next, depth, open)
    BY <2>1 DEF Ahead
  <2> HIDE DEF next
  <2>6. Ahead' = Ahead
    <3>1. CASE open = Brace
      <4>1. pc' = "parse_name"
        BY <2>1, <3>1, Zenon
      <4>2. Ahead' = EndOfItem(next, depth, Brace)
        BY <2>1, <2>3, <4>1 DEF Ahead, EndOfItem
      <4>3. QED
        BY <2>5, <3>1, <4>2, Zenon
    <3>2. CASE open # Brace
      <4>1. pc' = "parse_value"
        BY <2>1, <3>2, Zenon
      <4>2. Ahead' = JsonEnds(text)[next][depth]["value"]
        BY <2>1, <2>3, <4>1 DEF Ahead
      <4>3. open = "["
        BY <2>2, <3>2, Zenon DEF Opening, Brace
      <4>4. ItemValue(text, next, open) = next
        BY <4>3, Zenon DEF ItemValue
      <4>5. next # 0
        BY <2>2, <2>3, CourseFacts
      <4>6. QED
        BY <2>5, <4>2, <4>4, <4>5, Zenon DEF EndOfItem, ItemEnd
    <3>3. QED
      BY <3>1, <3>2
  <2>7. Parsing'
    <3>1. pc' = "parse_name" \/ pc' = "parse_value"
      BY <2>1, Zenon
    <3>2. QED
      BY <3>1 DEF Parsing
  <2>8. QED
    BY <2>1, <2>4, <2>6, <2>7, GoesOn
<1>3. QED
  BY <1>1, <1>2

(* parse_name: behind the name and its colon there is the value.           *)
LEMMA NameCourse ==
  ASSUME JsonInv, OneTerminator, OnCourse, parse_name
  PROVE  Course'
<1> DEFINE E == JsonEnds(text)
           end == StringEnd(text, offset)
           colon == NextUnit(text, end)
           value == ItemValue(text, offset, Brace)
<1>1. /\ pc = "parse_name" /\ TextInv /\ stack \in Seq(Frame)
      /\ offset \in 1 .. Len(text) /\ Len(text) \in Nat
  <2>1. pc = "parse_name"
    BY DEF parse_name
  <2>2. QED
    BY <2>1, CourseFacts
<1>2. Ahead = IF value = 0 THEN 0 ELSE E[value][depth]["value"]
  <2>1. Ahead = EndOfItem(offset, depth, Brace)
    BY <1>1 DEF Ahead
  <2>2. QED
    BY <2>1, Zenon DEF EndOfItem, ItemEnd
<1>3. value = IF end = 0 THEN 0
              ELSE IF text[colon] # ":" THEN 0 ELSE NextUnit(text, colon + 1)
  BY Zenon DEF ItemValue, Brace
<1>4. CASE StringFails
  <2>1. CASE failed' = TRUE
    BY <1>4, <2>1, WantsHeap DEF StringFails
  <2>2. CASE ~parse_string(offset).ok
    <3>1. end = 0
      BY <1>1, <2>2, StringDecided
    <3>2. Ahead = 0
      BY <1>2, <1>3, <3>1, Zenon
    <3>3. QED
      BY <1>1, <1>4, <3>2, Refuses DEF StringFails
  <2>3. QED
    BY <1>4, <2>1, <2>2 DEF StringFails
<1>5. CASE ~StringFails
  <2> DEFINE there ==
               buffer_skip_whitespace(text, parse_string(offset).end + 1)
  <2>1. parse_string(offset).ok
    BY <1>5 DEF parse_name, StringParsed
  <2>2. end = parse_string(offset).end + 1 /\ end \in 1 .. Len(text)
    BY <1>1, <2>1, StringDecided
  <2>3. there = colon /\ colon \in 1 .. Len(text) /\ end # 0
    <3>1. there = buffer_skip_whitespace(text, end)
      BY <2>2
    <3> HIDE DEF end, there
    <3>2. there = colon /\ colon \in end .. Len(text)
      BY <1>1, <2>2, <3>1, SkipsToNextUnit, NextUnitForward
    <3>3. QED
      BY <1>1, <2>2, <3>2
  <2>4. /\ UNCHANGED <<text, depth, stack>>
        /\ \/ /\ text[there] = ":"
              /\ offset' = buffer_skip_whitespace(text, there + 1)
              /\ pc' = "parse_value"
           \/ /\ text[there] # ":" /\ pc' = "fail"
    BY <1>5, Zenon DEF parse_name
  <2> HIDE DEF there, colon, end, value, E
  <2>5. CASE text[colon] = ":"
    <3>1. text[colon] # NUL
      BY <2>5, Zenon DEF NUL
    <3>2. /\ pc' = "parse_value"
          /\ offset' = buffer_skip_whitespace(text, there + 1)
      BY <2>3, <2>4, <2>5, Zenon
    <3>3. colon + 1 \in 1 .. Len(text)
      BY <1>1, <2>3, <3>1, MoreFollows
    <3>4. buffer_skip_whitespace(text, colon + 1) = NextUnit(text, colon + 1)
      BY <1>1, <3>3, SkipsToNextUnit
    <3>5. value = NextUnit(text, colon + 1)
      BY <1>3, <2>3, <2>5, Zenon
    <3>6. NextUnit(text, colon + 1) \in colon + 1 .. Len(text)
      BY <1>1, <3>3, NextUnitForward
    <3>7. offset' = value /\ value # 0
      BY <1>1, <2>3, <3>2, <3>4, <3>5, <3>6
    <3>8. UNCHANGED <<text, depth, stack>>
      BY <2>4, Zenon
    <3>9. Ahead' = E[value][depth]["value"]
      BY <3>2, <3>7, <3>8 DEF Ahead, E
    <3>10. Ahead' = Ahead
      BY <1>2, <3>7, <3>9
    <3>11. Parsing'
      BY <3>2 DEF Parsing
    <3>12. QED
      BY <3>8, <3>10, <3>11, GoesOn
  <2>6. CASE text[colon] # ":"
    <3>1. pc' = "fail" /\ text' = text
      BY <2>3, <2>4, <2>6, Zenon
    <3>2. value = 0
      BY <1>3, <2>6, Zenon
    <3>3. Ahead = 0
      BY <1>2, <3>2
    <3>4. QED
      BY <1>1, <3>1, <3>3, Refuses
  <2>7. QED
    BY <2>5, <2>6, Zenon
<1>6. QED
  BY <1>4, <1>5

(* What follows an item: the end of the list, or a comma, or an error.     *)
LEMMA ListGoesOn ==
  ASSUME JsonInv, OneTerminator, pc = "value", stack # <<>>,
         NEW ends, EndsOfAll(ends), ends[Len(stack)] = offset
  PROVE  LET here == buffer_skip_whitespace(text, offset)
         IN /\ here \in 1 .. Len(text)
            /\ Len(stack) \in Nesting
            /\ ends[Len(stack) - 1] =
                 RestEnd(text, JsonEnds(text), offset, Len(stack), Top.open)
            /\ here = NextUnit(text, offset)
<1> DEFINE k == Len(stack)
<1>1. /\ TextInv /\ offset \in 1 .. Len(text) /\ k \in 1 .. k
      /\ Top.open \in Opening /\ Len(text) \in Nat
  BY CourseFacts
<1>2. k \in Nesting
  BY <1>1, CJsonAssumption DEF JsonInv, HeapInv, DepthInv, Nesting
<1>3. buffer_skip_whitespace(text, offset) = NextUnit(text, offset)
  BY <1>1, SkipsToNextUnit
<1>4. NextUnit(text, offset) \in offset .. Len(text)
  BY <1>1, NextUnitForward
<1>5. JsonEq(JsonEnds(text))
  BY <1>1, JsonEndsFunction
<1>6. JsonEnds(text)[offset][k][Top.open]
        = RestEnd(text, JsonEnds(text), offset, k, Top.open)
  BY <1>1, <1>2, <1>5 DEF JsonEq
<1>7. ends[k - 1] = JsonEnds(text)[offset][k][Top.open]
  <2>1. ends[k - 1] = Onward(ends[k], k)
    BY <1>1 DEF EndsOfAll
  <2>2. offset # 0
    BY <1>1
  <2>3. QED
    BY <2>1, <2>2 DEF Onward, Top
<1> HIDE DEF k
<1>8. NextUnit(text, offset) \in 1 .. Len(text)
  BY <1>1, <1>4
<1>9. QED
  BY <1>2, <1>3, <1>6, <1>7, <1>8 DEF k

(* list_ends: the list has ended where it was to end.                      *)
LEMMA ListEndsCourse ==
  ASSUME JsonInv, OneTerminator, OnCourse, list_ends
  PROVE  Course'
<1> DEFINE here == buffer_skip_whitespace(text, offset)
           k == Len(stack)
<1>1. /\ pc = "value" /\ stack # <<>> /\ text[here] = Closing[Top.open]
      /\ offset' = here + 1 /\ depth' = depth - 1 /\ stack' = Pop
      /\ pc' = "value" /\ text' = text
  BY DEF list_ends
<1>2. /\ stack \in Seq(Frame) /\ k \in 1 .. k /\ Top.open \in Opening
      /\ Len(text) \in Nat /\ k \in Nat /\ TextInv
  BY <1>1, CourseFacts
<1>3. PICK ends : EndsOfAll(ends) /\ ends[k] = offset
  BY <1>1 DEF OnCourse, Ahead
<1>4. /\ here \in 1 .. Len(text)
      /\ ends[k - 1] = RestEnd(text, JsonEnds(text), offset, k, Top.open)
      /\ here = NextUnit(text, offset)
  BY <1>1, <1>3, ListGoesOn
<1>5. ends[k - 1] = here + 1
  <2>1. Closing[Top.open] # ","
    BY <1>2, Zenon DEF Closing, Opening
  <2>2. text[NextUnit(text, offset)] = Closing[Top.open]
    BY <1>1, <1>4
  <2>3. RestEnd(text, JsonEnds(text), offset, k, Top.open)
          = NextUnit(text, offset) + 1
    BY <2>1, <2>2, Zenon DEF RestEnd
  <2>4. QED
    BY <1>4, <2>3
<1> HIDE DEF here
<1>6. /\ Len(stack') = k - 1
      /\ \A i \in 1 .. k - 1 : stack'[i] = stack[i]
  <2>1. \A i \in 1 .. k - 1 : stack[i] \in Frame
    BY <1>2, ElementOfSeq
  <2>2. k - 1 \in Nat
    BY <1>2
  <2> HIDE DEF k
  <2>3. /\ Len(SubSeq(stack, 1, k - 1)) = k - 1
        /\ \A i \in 1 .. k - 1 : SubSeq(stack, 1, k - 1)[i] = stack[i]
    <3>1. 1 \in Int /\ k - 1 \in Int
      BY <2>2
    <3>2. /\ Len(SubSeq(stack, 1, k - 1))
                = IF 1 <= k - 1 THEN k - 1 - 1 + 1 ELSE 0
          /\ \A i \in 1 .. k - 1 - 1 + 1 :
               SubSeq(stack, 1, k - 1)[i] = stack[1 + i - 1]
      BY <2>1, <3>1, SubSeqProperties
    <3>3. k - 1 - 1 + 1 = k - 1 /\ \A i \in 1 .. k - 1 : 1 + i - 1 = i
      BY <2>2
    <3>4. QED
      BY <2>2, <3>2, <3>3
  <2>4. stack' = SubSeq(stack, 1, k - 1)
    BY <1>1 DEF Pop, k
  <2>5. QED
    BY <2>3, <2>4
<1>7. PICK less : less = [i \in 0 .. k - 1 |-> ends[i]]
  OBVIOUS
<1>8. EndsOfAll(less)'
  <2>1. Depths' = 0 .. k - 1 /\ Depths = 0 .. k
    BY <1>6 DEF Depths
  <2>2. less[0] = JsonEnd(text')
    BY <1>1, <1>2, <1>3, <1>7, <2>1 DEF EndsOfAll
  <2>3. ASSUME NEW i \in 1 .. Len(stack')
        PROVE  less[i - 1] = Onward(less[i], i)'
    <3>1. i \in 1 .. Len(stack) /\ i \in 1 .. k - 1
      BY <1>2, <1>6
    <3>2. less[i - 1] = ends[i - 1] /\ less[i] = ends[i]
      BY <1>2, <1>7, <3>1
    <3>3. Onward(less[i], i)' = Onward(ends[i], i)
      BY <1>1, <1>6, <3>1, <3>2 DEF Onward
    <3>4. QED
      BY <1>3, <3>1, <3>2, <3>3 DEF EndsOfAll
  <2>4. QED
    BY <2>2, <2>3 DEF EndsOfAll
<1>9. less[Len(stack')] = Ahead'
  BY <1>1, <1>2, <1>5, <1>6, <1>7 DEF Ahead
<1>10. OnCourse'
  <2>1. depth' = Len(stack')
    BY <1>1, <1>6 DEF OnCourse
  <2>2. QED
    BY <1>8, <1>9, <2>1 DEF OnCourse
<1>11. QED
  BY <1>1, <1>10 DEF Course, Accepts

(* list_goes_on: behind the comma the next item.                           *)
LEMMA CommaCourse ==
  ASSUME JsonInv, OneTerminator, OnCourse, list_goes_on
  PROVE  Course'
<1> DEFINE here == buffer_skip_whitespace(text, offset)
           next == NextUnit(text, here + 1)
           k == Len(stack)
           e == EndOfItem(next, k, Top.open)
<1>1. /\ pc = "value" /\ stack # <<>> /\ text[here] # Closing[Top.open]
      /\ offset' = here /\ UNCHANGED <<text, depth, stack>>
      /\ pc' = IF text[here] = "," THEN "next_item" ELSE "fail"
  BY Zenon DEF list_goes_on
<1>2. /\ stack \in Seq(Frame) /\ k \in 1 .. k /\ Top.open \in Opening
      /\ Len(text) \in Nat /\ k \in Nat /\ TextInv
  BY <1>1, CourseFacts
<1>3. PICK ends : EndsOfAll(ends) /\ ends[k] = offset
  BY <1>1 DEF OnCourse, Ahead
<1>4. /\ here \in 1 .. Len(text) /\ k \in Nesting
      /\ ends[k - 1] = RestEnd(text, JsonEnds(text), offset, k, Top.open)
      /\ here = NextUnit(text, offset)
  BY <1>1, <1>3, ListGoesOn
<1>5. CASE text[here] # ","
  <2>1. text[NextUnit(text, offset)] \notin {",", Closing[Top.open]}
    BY <1>1, <1>4, <1>5, Zenon
  <2>2. RestEnd(text, JsonEnds(text), offset, k, Top.open) = 0
    BY <2>1, Zenon DEF RestEnd
  <2>3. ends[k - 1] = 0
    BY <1>4, <2>2
  <2>4. k - 1 \in Depths
    BY <1>2 DEF Depths
  <2>5. JsonEnd(text) = 0
    BY <1>2, <1>3, <2>3, <2>4, NoEnd
  <2>6. pc' = "fail" /\ text' = text
    BY <1>1, <1>5, Zenon
  <2>7. QED
    BY <2>5, <2>6 DEF Course, Accepts, Parsing
<1>6. CASE text[here] = ","
  <2>1. text[here] # NUL
    BY <1>6, Zenon DEF NUL
  <2>2. next \in here + 1 .. Len(text)
    BY <1>2, <1>4, <2>1, NextUnitBehind
  <2> HIDE DEF here
  <2>3. next \in 1 .. Len(text)
    BY <1>2, <1>4, <2>2
  <2>4. RestEnd(text, JsonEnds(text), offset, k, Top.open)
          = ItemsEnd(text, JsonEnds(text), next, k, Top.open)
    <3>1. /\ text[NextUnit(text, offset)] = ","
          /\ text[NextUnit(text, offset)] # Closing[Top.open]
      BY <1>1, <1>4, <1>6, Zenon
    <3>2. RestEnd(text, JsonEnds(text), offset, k, Top.open)
            = ItemsEnd(text, JsonEnds(text),
                       NextUnit(text, NextUnit(text, offset) + 1), k, Top.open)
      BY <3>1, Zenon DEF RestEnd
    <3>3. QED
      BY <1>4, <3>2
  <2>5. /\ e \in 0 .. Len(text)
        /\ ends[k - 1] = IF e = 0 THEN 0 ELSE JsonEnds(text)[e][k][Top.open]
    BY <1>2, <1>4, <2>3, <2>4, ItemsEndIs
  <2>6. pc' = "next_item"
    BY <1>1, <1>6, Zenon
  <2>7. depth = k
    BY DEF OnCourse
  <2>8. Ahead' = e
    <3>1. Top' = Top
      BY <1>1 DEF Top
    <3>2. Ahead' = EndOfItem(NextUnit(text, here + 1), depth, Top.open)
      BY <1>1, <2>6, <3>1 DEF Ahead, EndOfItem
    <3>3. QED
      BY <2>7, <3>2
  <2>9. PICK c : c = e
    OBVIOUS
  <2>10. PICK more : more = [i \in 0 .. k |-> IF i = k THEN c ELSE ends[i]]
    OBVIOUS
  <2> HIDE DEF e, next
  <2>11. EndsOfAll(more)'
    <3>1. Depths' = 0 .. k /\ Depths = 0 .. k
      BY <1>1 DEF Depths
    <3>2. more[0] = JsonEnd(text')
      <4>1. 0 \in 0 .. k /\ 0 # k
        BY <1>2
      <4>2. more[0] = ends[0]
        BY <2>10, <4>1
      <4>3. QED
        BY <1>1, <1>3, <4>2 DEF EndsOfAll
    <3>3. ASSUME NEW i \in 1 .. Len(stack')
          PROVE  more[i - 1] = Onward(more[i], i)'
      <4>1. i \in 1 .. k
        BY <1>1
      <4>2. CASE i = k
        <5>1. more[i - 1] = ends[k - 1] /\ more[i] = c
          BY <1>2, <2>10, <4>2
        <5>2. Onward(more[i], i)' =
                IF c = 0 THEN 0 ELSE JsonEnds(text)[c][k][Top.open]
          BY <1>1, <4>2, <5>1 DEF Onward, Top
        <5>3. QED
          BY <2>5, <2>9, <5>1, <5>2
      <4>3. CASE i # k
        <5>1. more[i - 1] = ends[i - 1] /\ more[i] = ends[i]
          BY <1>2, <2>10, <4>1, <4>3
        <5>2. Onward(more[i], i)' = Onward(ends[i], i)
          BY <1>1, <4>1, <5>1 DEF Onward
        <5>3. QED
          BY <1>3, <4>1, <5>1, <5>2 DEF EndsOfAll
      <4>4. QED
        BY <4>2, <4>3
    <3>4. QED
      BY <3>2, <3>3 DEF EndsOfAll
  <2>12. more[Len(stack')] = Ahead'
    <3>1. more[k] = c
      BY <1>2, <2>10
    <3>2. QED
      BY <1>1, <2>8, <2>9, <3>1
  <2>13. OnCourse'
    <3>1. depth' = Len(stack')
      BY <1>1, <2>7
    <3>2. QED
      BY <2>11, <2>12, <3>1 DEF OnCourse
  <2>14. QED
    BY <2>6, <2>13 DEF Course, Accepts
<1>7. QED
  BY <1>5, <1>6, Zenon

(* cJSON_Parse: what is ahead is the value that the text starts with.      *)
LEMMA ParseCourse ==
  ASSUME JsonInv, TextInv', OneTerminator', NEW in \in Inputs, cJSON_Parse(in)
  PROVE  Course'
<1>1. /\ pc = "idle" /\ depth' = 0 /\ stack' = stack
      /\ offset' = buffer_skip_whitespace(text', 1)
      /\ \/ pc' = "parse_value"
         \/ pc' = "fail" /\ failed' = TRUE
  BY Zenon DEF cJSON_Parse
<1>2. stack' = <<>>
  BY <1>1 DEF JsonInv, HeapInv, Places
<1>3. CASE pc' = "fail" /\ failed' = TRUE
  BY <1>3, WantsHeap
<1>4. CASE pc' = "parse_value"
  <2>1. 1 \in 1 .. Len(text')
    BY LenProperties DEF TextInv, Texts
  <2>2. offset' = NextUnit(text', 1)
    <3> DEFINE t == text'
    <3>1. /\ t \in Texts /\ t[Len(t)] = NUL
          /\ \A j \in 1 .. Len(t) - 1 : t[j] # NUL
      BY DEF TextInv, OneTerminator
    <3>2. 1 \in 1 .. Len(t) /\ offset' = buffer_skip_whitespace(t, 1)
      BY <1>1, <2>1
    <3> HIDE DEF t
    <3>3. offset' = NextUnit(t, 1)
      BY <3>1, <3>2, SkipIsNextUnit
    <3>4. QED
      BY <3>3 DEF t
  <2>3. Ahead' = JsonEnd(text')
    BY <1>1, <1>4, <2>2 DEF Ahead, JsonEnd
  <2>4. Len(stack') = 0
    BY <1>2
  <2>5. PICK ends : ends = [i \in {0} |-> JsonEnd(text')]
    OBVIOUS
  <2>6. ends[0] = JsonEnd(text')
    BY <2>5
  <2>7. EndsOfAll(ends)'
    BY <2>4, <2>6 DEF EndsOfAll
  <2>8. OnCourse'
    BY <1>1, <2>3, <2>4, <2>6, <2>7 DEF OnCourse
  <2>9. QED
    BY <1>4, <2>8 DEF Course, Accepts
<1>5. QED
  BY <1>1, <1>3, <1>4

(* Every step of the parser.                                               *)
LEMMA CourseStep ==
  ASSUME JsonInv, OneTerminator, TextInv', Course, JsonNext
  PROVE  Course'
<1>1. OneTerminator' /\ Accepts /\ (Parsing => OnCourse)
  BY OneTerminatorStays DEF Course
<1>2. CASE \E in \in Inputs : cJSON_Parse(in)
  BY <1>1, <1>2, ParseCourse
<1>3. CASE parse_value
  <2>1. pc = "parse_value"
    BY <1>3, Zenon DEF parse_value, parse_literal, parse_value_string,
                       parse_number, parse_list, parse_nothing
  <2>2. OnCourse
    BY <1>1, <2>1 DEF Parsing
  <2>3. CASE pc' # "next_item"
    BY <1>1, <1>3, <2>2, <2>3, SimpleCourse
  <2>4. CASE pc' = "next_item"
    <3>1. parse_list
      BY <1>3, <2>4, Zenon DEF parse_value, parse_literal, parse_value_string,
           parse_number, parse_nothing, ReturnsFalse, StringFails
    <3>2. QED
      BY <1>1, <2>2, <2>4, <3>1, ListBegunCourse
  <2>5. QED
    BY <2>3, <2>4
<1>4. CASE parse_array_or_object
  <2>1. CASE next_item
    BY <1>1, <2>1, NextItemCourse DEF next_item, Parsing
  <2>2. CASE parse_name
    BY <1>1, <2>2, NameCourse DEF parse_name, Parsing
  <2>3. CASE list_ends
    BY <1>1, <2>3, ListEndsCourse DEF list_ends, Parsing
  <2>4. CASE list_goes_on
    BY <1>1, <2>4, CommaCourse DEF list_goes_on, Parsing
  <2>5. CASE list_fails
    BY <1>1, <2>5 DEF list_fails, Course, Accepts, Parsing
  <2>6. QED
    BY <1>4, <2>1, <2>2, <2>3, <2>4, <2>5 DEF parse_array_or_object
<1>5. CASE parse_returns
  <2>1. /\ pc = "value" /\ stack = <<>> /\ pc' = "parsed"
        /\ UNCHANGED <<text, offset>>
    BY <1>5 DEF parse_returns
  <2>2. PICK ends : EndsOfAll(ends) /\ ends[Len(stack)] = offset
    BY <1>1, <2>1 DEF OnCourse, Ahead, Parsing
  <2>3. Len(stack) = 0
    BY <2>1
  <2>4. offset = JsonEnd(text)
    BY <2>2, <2>3 DEF EndsOfAll
  <2>5. QED
    BY <2>1, <2>4 DEF Course, Accepts, Parsing
<1>6. CASE parse_fails \/ app_deletes
  <2>1. pc' = "idle"
    BY <1>6 DEF parse_fails, app_deletes, ParseOver
  <2>2. QED
    BY <2>1 DEF Course, Accepts, Parsing
<1>7. QED
  BY <1>2, <1>3, <1>4, <1>5, <1>6 DEF JsonNext

(* cJSON_Parse refuses nothing but what does not start with a JSON value,  *)
(* unless there is no heap for the tree, and takes nothing else but        *)
(* strings with any four characters for the digits of a \u ("u0000" of     *)
(* the units); and it has read just the value.                             *)
THEOREM ParserAcceptsJson == JsonSpec => []Accepts
<1>1. JsonInit => OneTerminator /\ Course
  <2> SUFFICES ASSUME JsonInit
               PROVE  OneTerminator /\ Course
    OBVIOUS
  <2>1. pc = "idle" /\ text = <<NUL>>
    BY DEF JsonInit
  <2>2. OneTerminator
    BY <2>1 DEF OneTerminator
  <2>3. QED
    BY <2>1, <2>2 DEF Course, Accepts, Parsing
<1>2. JsonInv /\ JsonInv' /\ (OneTerminator /\ Course)
        /\ [JsonNext]_jsonVars => (OneTerminator /\ Course)'
  <2> SUFFICES ASSUME JsonInv, JsonInv', OneTerminator, Course,
                      [JsonNext]_jsonVars
               PROVE  (OneTerminator /\ Course)'
    OBVIOUS
  <2>1. CASE JsonNext
    BY <2>1, CourseStep, OneTerminatorStays DEF JsonInv
  <2>2. CASE UNCHANGED jsonVars
    <3>1. UNCHANGED <<pc, text, offset, depth, stack, failed>>
      BY <2>2 DEF jsonVars
    <3>2. \A ends : EndsOfAll(ends)' <=> EndsOfAll(ends)
      BY <3>1 DEF EndsOfAll, Onward
    <3>3. Ahead' = Ahead
      BY <3>1 DEF Ahead, EndOfItem, Top
    <3>4. OnCourse => OnCourse'
      BY <3>1, <3>2, <3>3 DEF OnCourse
    <3>5. QED
      BY <3>1, <3>4 DEF Course, Accepts, Parsing, OneTerminator
  <2>3. QED
    BY <2>1, <2>2
<1>3. OneTerminator /\ Course => Accepts
  BY DEF Course
<1>4. QED
  BY <1>1, <1>2, <1>3, JsonInvariant, PTL DEF JsonSpec
=============================================================================
