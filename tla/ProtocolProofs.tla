---------------------------- MODULE ProtocolProofs ----------------------------
(***************************************************************************)
(* Proofs about Protocol, for every number of values of a group, every     *)
(* length of a VarInt and of a packet, and every packet: what is written   *)
(* as a VarInt is read back, and the parsers accept exactly what the       *)
(* grammar of MCProtocol describes.                                        *)
(*                                                                         *)
(* Induction over the groups of a VarInt is induction over sets of         *)
(* numbers: a set that holds 0 and with each number the next one holds     *)
(* them all.                                                               *)
(***************************************************************************)
EXTENDS MCProtocol, FiniteSetTheorems, SequenceTheorems, WellFoundedInduction,
        TLAPS

-----------------------------------------------------------------------------
(***************************************************************************)
(* Numbers.                                                                *)
(***************************************************************************)

LEMMA SetInduction ==
    ASSUME NEW T, 0 \in T, \A n \in Nat : n \in T => n + 1 \in T
    PROVE  Nat \subseteq T
  <1> DEFINE bad == Nat \ T
             R == OpToRel(<, Nat)
  <1>1. SUFFICES ASSUME bad # {} PROVE FALSE
    OBVIOUS
  <1>2. IsWellFoundedOn(R, Nat)
    BY NatLessThanWellFounded
  <1>3. \A m, n \in Nat : m < n => <<m, n>> \in R
    BY DEF OpToRel
  <1> HIDE DEF R
  <1>4. PICK n \in bad : \A m \in bad : ~(<<m, n>> \in R)
    BY <1>1, <1>2, WFMin, Zenon
  <1>5. n \in Nat /\ n # 0 /\ n \notin T
    BY <1>4
  <1>6. n - 1 \in Nat /\ n - 1 < n /\ (n - 1) + 1 = n
    BY <1>5
  <1>7. n - 1 \in T
    BY <1>3, <1>4, <1>5, <1>6
  <1> QED BY <1>5, <1>6, <1>7

\* A function that follows a rule from its first value up to a number.
Upto(S, a, step, n, h) ==
    /\ h \in [0..n -> S] /\ h[0] = a
    /\ \A i \in 0..(n - 1) : h[i + 1] = step[<<i, h[i]>>]

LEMMA UptoGoesOn ==
    ASSUME NEW S, NEW a \in S, NEW step \in [Nat \X S -> S], NEW n \in Nat,
           NEW h, Upto(S, a, step, n, h)
    PROVE  \E k : Upto(S, a, step, n + 1, k)
  <1> DEFINE k == [i \in 0..(n + 1) |-> IF i = n + 1 THEN step[<<n, h[n]>>]
                                        ELSE h[i]]
  <1>1. /\ h \in [0..n -> S] /\ h[0] = a
        /\ \A i \in 0..(n - 1) : h[i + 1] = step[<<i, h[i]>>]
    BY DEF Upto
  <1>2. h[n] \in S /\ step[<<n, h[n]>>] \in S
    BY <1>1
  <1>3. k \in [0..(n + 1) -> S]
    BY <1>1, <1>2
  <1>4. k[n + 1] = step[<<n, h[n]>>] /\ \A i \in 0..n : k[i] = h[i]
    OBVIOUS
  <1> HIDE DEF k
  <1>5. k[0] = a
    BY <1>1, <1>4
  <1>6. ASSUME NEW i \in 0..n PROVE k[i + 1] = step[<<i, k[i]>>]
    <2>1. CASE i = n
      BY <1>4, <2>1
    <2>2. CASE i # n
      <3>1. i \in 0..(n - 1) /\ i + 1 \in 0..n
        BY <2>2
      <3> QED BY <1>1, <1>4, <3>1
    <2> QED BY <2>1, <2>2
  <1>7. Upto(S, a, step, n + 1, k)
    BY <1>3, <1>5, <1>6 DEF Upto
  <1> QED BY <1>7

LEMMA UptoIsUnique ==
    ASSUME NEW S, NEW a, NEW step, NEW m \in Nat, NEW n \in Nat, m <= n,
           NEW h, Upto(S, a, step, m, h), NEW k, Upto(S, a, step, n, k)
    PROVE  h[m] = k[m]
  <1> DEFINE T == {i \in Nat : i <= m => h[i] = k[i]}
  <1>1. 0 \in T
    BY DEF Upto
  <1>2. ASSUME NEW i \in Nat, i \in T, i + 1 <= m PROVE h[i + 1] = k[i + 1]
    <2>1. i \in 0..(m - 1) /\ i \in 0..(n - 1) /\ h[i] = k[i]
      BY <1>2
    <2> QED BY <2>1 DEF Upto
  <1>3. \A i \in Nat : i \in T => i + 1 \in T
    BY <1>2
  <1>4. Nat \subseteq T
    <2> HIDE DEF T
    <2> QED BY <1>1, <1>3, SetInduction
  <1> QED BY <1>4

\* A function on the numbers may be defined by its first value and a step.
Steps(S, a, step) == a \in S /\ step \in [Nat \X S -> S]
Follows(S, a, step, g) ==
    /\ g \in [Nat -> S] /\ g[0] = a
    /\ \A n \in Nat : g[n + 1] = step[<<n, g[n]>>]

LEMMA Recursion ==
    ASSUME NEW S, NEW a, NEW step, Steps(S, a, step)
    PROVE  \E g : Follows(S, a, step, g)
  <1> USE DEF Steps
  <1> DEFINE T == {n \in Nat : \E h : Upto(S, a, step, n, h)}
  <1>1. 0 \in T
    <2> DEFINE h == [i \in 0..0 |-> a]
    <2>1. h \in [0..0 -> S] /\ h[0] = a /\ \A i \in 0..(0 - 1) : FALSE
      OBVIOUS
    <2> HIDE DEF h
    <2>2. Upto(S, a, step, 0, h)
      BY <2>1 DEF Upto
    <2> QED BY <2>2
  <1>2. \A n \in Nat : n \in T => n + 1 \in T
    BY UptoGoesOn
  <1>3. Nat \subseteq T
    <2> HIDE DEF T
    <2> QED BY <1>1, <1>2, SetInduction
  <1> DEFINE f == [n \in Nat |-> CHOOSE h : Upto(S, a, step, n, h)]
             g == [n \in Nat |-> f[n][n]]
  <1>4. ASSUME NEW n \in Nat PROVE Upto(S, a, step, n, f[n])
    <2>1. \E h : Upto(S, a, step, n, h)
      BY <1>3
    <2>2. f[n] = CHOOSE h : Upto(S, a, step, n, h)
      OBVIOUS
    <2> QED BY <2>1, <2>2
  <1> HIDE DEF f
  <1>5. \A n \in Nat : g[n] = f[n][n]
    OBVIOUS
  <1>6. \A n \in Nat : f[n][n] \in S
    BY <1>4 DEF Upto
  <1>7. g \in [Nat -> S]
    BY <1>6
  <1> HIDE DEF g
  <1>8. g[0] = a
    BY <1>4, <1>5 DEF Upto
  <1>9. ASSUME NEW n \in Nat PROVE g[n + 1] = step[<<n, g[n]>>]
    <2>1. Upto(S, a, step, n, f[n]) /\ Upto(S, a, step, n + 1, f[n + 1])
      BY <1>4
    <2>2. f[n][n] = f[n + 1][n]
      BY <2>1, UptoIsUnique
    <2>3. f[n + 1][n + 1] = step[<<n, f[n + 1][n]>>]
      BY <2>1 DEF Upto
    <2> QED BY <1>5, <2>2, <2>3
  <1>10. Follows(S, a, step, g)
    BY <1>7, <1>8, <1>9 DEF Follows
  <1> QED BY <1>10

\* A number is divided with a rest in one way, by \div and %.
LEMMA DivisionIs ==
    ASSUME NEW a \in Nat, NEW b \in Nat, b > 0, NEW q \in Nat,
           NEW r \in 0..(b - 1), a = b * q + r
    PROVE  a \div b = q /\ a % b = r
  OBVIOUS

LEMMA Division ==
    ASSUME NEW a \in Nat, NEW b \in Nat, b > 0
    PROVE  \E q \in Nat, r \in 0..(b - 1) :
              a = b * q + r /\ a \div b = q /\ a % b = r
  <1> DEFINE T == {n \in Nat : \E q \in Nat, r \in 0..(b - 1) : n = b * q + r}
  <1>1. 0 \in T
    <2>1. 0 = b * 0 + 0 /\ 0 \in 0..(b - 1)
      OBVIOUS
    <2> QED BY <2>1
  <1>2. ASSUME NEW n \in Nat, n \in T PROVE n + 1 \in T
    <2>1. PICK q \in Nat, r \in 0..(b - 1) : n = b * q + r
      BY <1>2
    <2>2. CASE r + 1 \in 0..(b - 1)
      <3>1. n + 1 = b * q + (r + 1)
        BY <2>1
      <3> QED BY <2>2, <3>1
    <2>3. CASE r + 1 = b
      <3>1. b * (q + 1) = b * q + b /\ b * q \in Nat
        OBVIOUS
      <3>2. n + 1 = b * (q + 1) + 0
        BY <2>1, <2>3, <3>1
      <3>3. q + 1 \in Nat /\ 0 \in 0..(b - 1)
        OBVIOUS
      <3>4. \E p \in Nat, s \in 0..(b - 1) : n + 1 = b * p + s
        BY <3>2, <3>3, Zenon
      <3> QED BY <3>4
    <2> QED BY <2>2, <2>3
  <1>3. Nat \subseteq T
    <2> HIDE DEF T
    <2> QED BY <1>1, <1>2, SetInduction
  <1>4. PICK q \in Nat, r \in 0..(b - 1) : a = b * q + r
    BY <1>3
  <1>5. a \div b = q /\ a % b = r
    BY <1>4, DivisionIs
  <1> QED BY <1>4, <1>5, Zenon

\* A quotient is the one number that leaves a small rest.
LEMMA Quotient ==
    ASSUME NEW a \in Nat, NEW b \in Nat, b > 0, NEW q \in Nat,
           b * q <= a, a < b * (q + 1)
    PROVE  a \div b = q /\ a % b = a - b * q
  <1>1. b * q \in Nat /\ b * (q + 1) = b * q + b
    OBVIOUS
  <1>2. a - b * q \in 0..(b - 1) /\ a = b * q + (a - b * q)
    BY <1>1
  <1> QED BY <1>2, DivisionIs

LEMMA PlaceRule ==
    /\ Place \in [Nat -> Nat] /\ Place[0] = 1
    /\ \A n \in Nat : Place[n + 1] = G * Place[n]
  <1> DEFINE step == [x \in Nat \X Nat |-> G * x[2]]
             Rule(g) == g = [n \in Nat |-> IF n = 0 THEN 1 ELSE G * g[n - 1]]
  <1>1. Steps(Nat, 1, step)
    BY GAssumption DEF Steps
  <1>2. \A n, v \in Nat : step[<<n, v>>] = G * v
    OBVIOUS
  <1> HIDE DEF step
  <1>10. PICK g : Follows(Nat, 1, step, g)
    BY <1>1, Recursion
  <1>3. /\ g \in [Nat -> Nat] /\ g[0] = 1
        /\ \A n \in Nat : g[n + 1] = step[<<n, g[n]>>]
    BY <1>10 DEF Follows
  <1>4. \A n \in Nat : g[n] = IF n = 0 THEN 1 ELSE G * g[n - 1]
    <2> SUFFICES ASSUME NEW n \in Nat, n # 0 PROVE g[n] = G * g[n - 1]
      BY <1>3
    <2>1. n - 1 \in Nat /\ (n - 1) + 1 = n
      OBVIOUS
    <2>2. g[(n - 1) + 1] = step[<<n - 1, g[n - 1]>>] /\ g[n - 1] \in Nat
      BY <1>3, <2>1
    <2> QED BY <1>2, <2>1, <2>2
  <1>5. Rule(g)
    BY <1>3, <1>4
  <1>6. Rule(Place)
    BY <1>5 DEF Place
  <1>7. \A n \in Nat : Place[n] = IF n = 0 THEN 1 ELSE G * Place[n - 1]
    BY <1>6
  <1>8. DOMAIN Place = Nat /\ Place = [n \in Nat |-> Place[n]]
    BY <1>6
  <1>9. Place[0] = 1 /\ \A n \in Nat : Place[n + 1] = G * Place[n]
    BY <1>7
  <1>12. \A n \in Nat : Place[n] \in Nat
    <2> DEFINE T == {n \in Nat : Place[n] \in Nat}
    <2>1. 0 \in T /\ \A n \in Nat : n \in T => n + 1 \in T
      BY <1>9, GAssumption
    <2>2. Nat \subseteq T
      <3> HIDE DEF T
      <3> QED BY <2>1, SetInduction
    <2> QED BY <2>2
  <1>11. Place \in [Nat -> Nat]
    BY <1>8, <1>12
  <1> QED BY <1>9, <1>11

\* Places grow.
LEMMA PlaceGrows ==
    /\ \A n \in Nat : Place[n] \in Nat /\ Place[n] > 0
    /\ \A m, n \in Nat : m <= n => Place[m] <= Place[n]
  <1>1. \A n \in Nat : Place[n] \in Nat
    BY PlaceRule
  <1>2. \A n \in Nat : Place[n] > 0
    <2> DEFINE T == {n \in Nat : Place[n] > 0}
    <2>1. 0 \in T
      BY PlaceRule
    <2>2. ASSUME NEW n \in Nat, n \in T PROVE n + 1 \in T
      <3>1. Place[n + 1] = G * Place[n] /\ Place[n] \in Nat /\ Place[n] > 0
        BY <1>1, <2>2, PlaceRule
      <3> QED BY <3>1, GAssumption
    <2>3. Nat \subseteq T
      <3> HIDE DEF T
      <3> QED BY <2>1, <2>2, SetInduction
    <2> QED BY <2>3
  <1>3. ASSUME NEW m \in Nat PROVE \A n \in Nat : m <= n => Place[m] <= Place[n]
    <2> DEFINE T == {n \in Nat : m <= n => Place[m] <= Place[n]}
    <2>1. 0 \in T
      BY <1>1
    <2>2. ASSUME NEW n \in Nat, n \in T PROVE n + 1 \in T
      <3>1. Place[n + 1] = G * Place[n] /\ Place[n] \in Nat /\ Place[m] \in Nat
            /\ Place[n + 1] \in Nat
        BY <1>1, PlaceRule
      <3>2. Place[n] <= Place[n + 1]
        BY <3>1, GAssumption
      <3> QED BY <2>2, <3>1, <3>2
    <2>3. Nat \subseteq T
      <3> HIDE DEF T
      <3> QED BY <2>1, <2>2, SetInduction
    <2> QED BY <2>3
  <1> QED BY <1>1, <1>2, <1>3

-----------------------------------------------------------------------------
(***************************************************************************)
(* The groups of a VarInt and the number they add up to.                   *)
(***************************************************************************)

LEMMA BitsAre ==
    ASSUME NEW b \in Byte
    PROVE  /\ Bits(b) \in 0..(G - 1) /\ b \in Nat
           /\ ~More(b) => Bits(b) = b
           /\ More(b) => Bits(b) = b - G
  <1>1. b \in Nat /\ b < 2 * G /\ G \in Nat /\ G > 0
    BY GAssumption DEF Byte
  <1>2. CASE b < G
    <2>1. b = G * 0 + b /\ b \in 0..(G - 1)
      BY <1>1, <1>2
    <2>2. b % G = b
      BY <1>1, <2>1, DivisionIs
    <2> QED BY <1>1, <1>2, <2>2 DEF Bits, More
  <1>3. CASE b >= G
    <2>1. b = G * 1 + (b - G) /\ b - G \in 0..(G - 1)
      BY <1>1, <1>3
    <2>2. b % G = b - G
      BY <1>1, <2>1, DivisionIs
    <2> QED BY <1>1, <1>3, <2>1, <2>2 DEF Bits, More
  <1> QED BY <1>1, <1>2, <1>3

\* What the groups up to each place add up to.
SumRule(bytes, h) ==
    h = [i \in 0..Len(bytes) |->
            IF i = 0 THEN 0 ELSE h[i - 1] + Bits(bytes[i]) * Place[i - 1]]

Sums(bytes) == CHOOSE h : SumRule(bytes, h)

LEMMA UnsignedIsSum ==
    ASSUME NEW bytes PROVE Unsigned(bytes) = Sums(bytes)[Len(bytes)]
  BY DEF Unsigned, Sums, SumRule

LEMMA SumsAre ==
    ASSUME NEW s \in Seq(Byte)
    PROVE  /\ Sums(s)[0] = 0
           /\ \A i \in 1..Len(s) :
                 Sums(s)[i] = Sums(s)[i - 1] + Bits(s[i]) * Place[i - 1]
  <1> DEFINE L == Len(s)
             step == [x \in Nat \X Nat |->
                         IF x[1] < L THEN x[2] + Bits(s[x[1] + 1]) * Place[x[1]]
                         ELSE x[2]]
  <1>1. L \in Nat /\ \A i \in 1..L : Bits(s[i]) \in Nat
    <2>1. L \in Nat /\ \A i \in 1..L : s[i] \in Byte
      BY LenProperties, ElementOfSeq
    <2> QED BY <2>1, BitsAre, GAssumption
  <1> HIDE DEF L
  <1>2. \A i \in Nat : Place[i] \in Nat
    BY PlaceRule
  <1>3. \A n, v \in Nat : n < L => Bits(s[n + 1]) * Place[n] \in Nat
    <2> SUFFICES ASSUME NEW n \in Nat, n < L
                 PROVE  Bits(s[n + 1]) * Place[n] \in Nat
      OBVIOUS
    <2>1. Bits(s[n + 1]) \in Nat /\ Place[n] \in Nat
      BY <1>1, <1>2
    <2> QED BY <2>1
  <1>4. step \in [Nat \X Nat -> Nat]
    <2>1. ASSUME NEW x \in Nat \X Nat
          PROVE  (IF x[1] < L THEN x[2] + Bits(s[x[1] + 1]) * Place[x[1]]
                  ELSE x[2]) \in Nat
      <3>1. x[1] \in Nat /\ x[2] \in Nat
        BY <2>1
      <3>2. CASE x[1] < L
        <4>1. Bits(s[x[1] + 1]) * Place[x[1]] \in Nat
          BY <1>3, <3>1, <3>2
        <4> HIDE DEF L
        <4>2. x[2] + Bits(s[x[1] + 1]) * Place[x[1]] \in Nat
          BY <3>1, <4>1
        <4> QED BY <3>2, <4>2
      <3>3. CASE ~(x[1] < L)
        BY <3>1, <3>3
      <3> QED BY <3>2, <3>3
    <2> QED BY <2>1
  <1>5. \A n, v \in Nat :
           n < L => step[<<n, v>>] = v + Bits(s[n + 1]) * Place[n]
    OBVIOUS
  <1> HIDE DEF step
  <1>6. Steps(Nat, 0, step)
    BY <1>4 DEF Steps
  <1>7. PICK g : Follows(Nat, 0, step, g)
    BY <1>6, Recursion
  <1>8. /\ g \in [Nat -> Nat] /\ g[0] = 0
        /\ \A n \in Nat : g[n + 1] = step[<<n, g[n]>>]
    BY <1>7 DEF Follows
  <1> DEFINE h == [i \in 0..L |-> g[i]]
  <1>9. ASSUME NEW i \in 0..L, i # 0
        PROVE  h[i] = h[i - 1] + Bits(s[i]) * Place[i - 1]
    <2>1. i - 1 \in Nat /\ (i - 1) + 1 = i /\ i - 1 < L /\ i \in 0..L
          /\ i - 1 \in 0..L
      BY <1>1, <1>9
    <2>2. g[(i - 1) + 1] = step[<<i - 1, g[i - 1]>>] /\ g[i - 1] \in Nat
      BY <1>8, <2>1
    <2>3. step[<<i - 1, g[i - 1]>>]
             = g[i - 1] + Bits(s[(i - 1) + 1]) * Place[i - 1]
      BY <1>5, <2>1, <2>2
    <2>4. h[i] = g[i] /\ h[i - 1] = g[i - 1]
      BY <2>1
    <2> QED BY <2>1, <2>2, <2>3, <2>4
  <1>10. h[0] = 0
    BY <1>1, <1>8
  <1>11. h = [i \in 0..L |-> h[i]]
    OBVIOUS
  <1> HIDE DEF h
  <1>12. SumRule(s, h)
    BY <1>9, <1>10, <1>11 DEF SumRule, L
  <1>13. SumRule(s, Sums(s))
    BY <1>12 DEF Sums
  <1>14. \A i \in 0..L : Sums(s)[i] =
            IF i = 0 THEN 0 ELSE Sums(s)[i - 1] + Bits(s[i]) * Place[i - 1]
    BY <1>13 DEF SumRule, L
  <1> QED BY <1>1, <1>14 DEF L

\* A number of that many groups is less than the next place.
LEMMA SumsBound ==
    ASSUME NEW s \in Seq(Byte), NEW n \in 0..Len(s)
    PROVE  Sums(s)[n] \in Nat /\ Sums(s)[n] < Place[n]
  <1>1. Len(s) \in Nat /\ \A i \in 1..Len(s) : s[i] \in Byte
    BY LenProperties, ElementOfSeq
  <1> DEFINE T == {i \in Nat : i <= Len(s)
                      => Sums(s)[i] \in Nat /\ Sums(s)[i] < Place[i]}
  <1>2. 0 \in T
    <2>1. Sums(s)[0] = 0 /\ Place[0] = 1
      BY SumsAre, PlaceRule
    <2> QED BY <2>1
  <1>3. ASSUME NEW i \in Nat, i \in T, i + 1 <= Len(s)
        PROVE  Sums(s)[i + 1] \in Nat /\ Sums(s)[i + 1] < Place[i + 1]
    <2> DEFINE a == Sums(s)[i]
               d == Bits(s[i + 1])
               P == Place[i]
    <2>1. i + 1 \in 1..Len(s) /\ (i + 1) - 1 = i
      BY <1>1, <1>3
    <2>2. Sums(s)[i + 1] = a + d * P
      BY <2>1, SumsAre
    <2>3. Place[i + 1] = G * P /\ P \in Nat /\ P > 0
      BY PlaceRule, PlaceGrows
    <2>4. a \in Nat /\ a < P
      BY <1>3
    <2>5. d \in Nat /\ d <= G - 1 /\ G \in Nat
      BY <1>1, <2>1, BitsAre, GAssumption
    <2> HIDE DEF a, d, P
    <2>6. d * P <= (G - 1) * P /\ d * P \in Nat
      BY <2>3, <2>5
    <2>7. (G - 1) * P = G * P - P
      BY <2>3, <2>5
    <2>8. a + d * P < G * P /\ a + d * P \in Nat
      BY <2>3, <2>4, <2>5, <2>6, <2>7
    <2> QED BY <2>2, <2>3, <2>8
  <1>4. \A i \in Nat : i \in T => i + 1 \in T
    BY <1>3
  <1>5. Nat \subseteq T
    <2> HIDE DEF T
    <2> QED BY <1>2, <1>4, SetInduction
  <1> QED BY <1>1, <1>5

\* Sequences with the same first groups have the same first sums.
LEMMA SumsAgree ==
    ASSUME NEW s \in Seq(Byte), NEW t \in Seq(Byte), NEW n \in Nat,
           n <= Len(s), n <= Len(t), \A i \in 1..n : s[i] = t[i]
    PROVE  Sums(s)[n] = Sums(t)[n]
  <1>1. Len(s) \in Nat /\ Len(t) \in Nat
    BY LenProperties
  <1> DEFINE T == {i \in Nat : i <= n => Sums(s)[i] = Sums(t)[i]}
  <1>2. 0 \in T
    BY SumsAre
  <1>3. ASSUME NEW i \in Nat, i \in T, i + 1 <= n
        PROVE  Sums(s)[i + 1] = Sums(t)[i + 1]
    <2>1. /\ i + 1 \in 1..Len(s) /\ i + 1 \in 1..Len(t) /\ (i + 1) - 1 = i
          /\ s[i + 1] = t[i + 1] /\ Sums(s)[i] = Sums(t)[i]
      BY <1>1, <1>3
    <2>2. /\ Sums(s)[i + 1] = Sums(s)[i] + Bits(s[i + 1]) * Place[i]
          /\ Sums(t)[i + 1] = Sums(t)[i] + Bits(t[i + 1]) * Place[i]
      BY <2>1, SumsAre
    <2> QED BY <2>1, <2>2
  <1>4. \A i \in Nat : i \in T => i + 1 \in T
    BY <1>3
  <1>5. Nat \subseteq T
    <2> HIDE DEF T
    <2> QED BY <1>2, <1>4, SetInduction
  <1> QED BY <1>5

\* What is cut from a sequence of bytes, and bytes one after the other.
LEMMA Cut ==
    ASSUME NEW s \in Seq(Byte), NEW a \in 0..Len(s), NEW b \in a..Len(s)
    PROVE  /\ SubSeq(s, a + 1, b) \in Seq(Byte)
           /\ Len(SubSeq(s, a + 1, b)) = b - a
           /\ \A i \in 1..(b - a) : SubSeq(s, a + 1, b)[i] = s[a + i]
  <1>1. Len(s) \in Nat /\ \A i \in 1..Len(s) : s[i] \in Byte
    BY LenProperties, ElementOfSeq
  <1>2. a + 1 \in Int /\ b \in Int /\ \A i \in (a + 1)..b : s[i] \in Byte
    BY <1>1
  <1>3. /\ SubSeq(s, a + 1, b) \in Seq(Byte)
        /\ Len(SubSeq(s, a + 1, b)) = IF a + 1 <= b THEN b - (a + 1) + 1 ELSE 0
        /\ \A i \in 1..(b - (a + 1) + 1) :
              SubSeq(s, a + 1, b)[i] = s[(a + 1) + i - 1]
    BY <1>2, SubSeqProperties
  <1>4. b - (a + 1) + 1 = b - a /\ (~(a + 1 <= b) => b - a = 0)
    BY <1>1
  <1>5. \A i \in 1..(b - a) : (a + 1) + i - 1 = a + i
    BY <1>1
  <1> QED BY <1>3, <1>4, <1>5

LEMMA UnsignedPrefix ==
    ASSUME NEW s \in Seq(Byte), NEW n \in 0..Len(s)
    PROVE  Unsigned(SubSeq(s, 1, n)) = Sums(s)[n]
  <1> DEFINE t == SubSeq(s, 0 + 1, n)
  <1>1. Len(s) \in Nat /\ 0 \in 0..Len(s) /\ n \in 0..Len(s)
    BY LenProperties
  <1>2. /\ t \in Seq(Byte) /\ Len(t) = n - 0
        /\ \A i \in 1..(n - 0) : t[i] = s[0 + i]
    BY <1>1, Cut
  <1>3. t = SubSeq(s, 1, n)
    OBVIOUS
  <1> HIDE DEF t
  <1>4. Len(t) = n /\ \A i \in 1..n : t[i] = s[i]
    BY <1>1, <1>2
  <1>5. Sums(t)[n] = Sums(s)[n]
    BY <1>1, <1>2, <1>4, SumsAgree
  <1> QED BY <1>3, <1>4, <1>5, UnsignedIsSum

\* The last group decides between which multiples of its place a number is.
LEMMA LastSum ==
    ASSUME NEW s \in Seq(Byte), NEW n \in 1..Len(s)
    PROVE  /\ Sums(s)[n] \in Nat /\ Bits(s[n]) \in Nat /\ Place[n - 1] \in Nat
           /\ Sums(s)[n] >= Bits(s[n]) * Place[n - 1]
           /\ Sums(s)[n] < (Bits(s[n]) + 1) * Place[n - 1]
  <1>1. Len(s) \in Nat /\ n \in Nat /\ n - 1 \in Nat /\ n - 1 \in 0..Len(s)
        /\ n \in 0..Len(s)
    BY LenProperties
  <1>2. Sums(s)[n] = Sums(s)[n - 1] + Bits(s[n]) * Place[n - 1]
    BY SumsAre
  <1>3. /\ Sums(s)[n - 1] \in Nat /\ Sums(s)[n - 1] < Place[n - 1]
        /\ Sums(s)[n] \in Nat
    BY <1>1, SumsBound
  <1>4. s[n] \in Byte
    BY ElementOfSeq
  <1>5. Bits(s[n]) \in Nat /\ Place[n - 1] \in Nat
    <2>1. Bits(s[n]) \in Nat
      BY <1>4, BitsAre, GAssumption
    <2>2. Place[n - 1] \in Nat
      BY <1>1, PlaceRule
    <2> QED BY <2>1, <2>2
  <1> DEFINE a == Sums(s)[n - 1]
             d == Bits(s[n])
             p == Place[n - 1]
  <1>6. a \in Nat /\ a < p /\ d \in Nat /\ p \in Nat
    BY <1>3, <1>5
  <1>7. Sums(s)[n] = a + d * p
    BY <1>2
  <1>8. Sums(s)[n] \in Nat
    BY <1>3
  <1>9. SUFFICES Sums(s)[n] >= d * p /\ Sums(s)[n] < (d + 1) * p
    BY <1>3, <1>5
  <1> HIDE DEF a, d, p
  <1>10. (d + 1) * p = d * p + p /\ d * p \in Nat
    BY <1>6
  <1> QED BY <1>6, <1>7, <1>8, <1>10

-----------------------------------------------------------------------------
(***************************************************************************)
(* Signed numbers.                                                         *)
(***************************************************************************)

LEMMA WidthIs ==
    /\ Groups \in Nat /\ Groups >= 1 /\ Groups - 1 \in Nat
    /\ Width \in Nat /\ Width > 0 /\ Width <= Place[Groups]
    /\ Place[Groups - 1] <= Width
    /\ Width = Place[Groups - 1] * Top /\ Top \in Nat /\ Top > 0
  <1>1. Groups \in Nat /\ Groups >= 1 /\ Groups - 1 \in Nat /\ (Groups - 1) + 1 = Groups
    BY GroupsAssumption
  <1>2. Place[Groups] = G * Place[Groups - 1] /\ Place[Groups - 1] \in Nat
        /\ Place[Groups - 1] > 0
    BY <1>1, PlaceRule, PlaceGrows
  <1>3. G \in Nat /\ Top \in Nat /\ Top > 0 /\ Top <= G
    BY GAssumption, GroupsAssumption
  <1>4. Width = Place[Groups - 1] * Top
    BY DEF Width
  <1> DEFINE p == Place[Groups - 1]
  <1>5. p \in Nat /\ p > 0
    BY <1>2
  <1>6. p * Top \in Nat /\ p * Top > 0 /\ p * Top <= G * p /\ p <= p * Top
    <2> HIDE DEF p
    <2>1. p * (G - Top) \in Nat /\ p * G = p * Top + p * (G - Top)
      BY <1>3, <1>5
    <2>2. p * (Top - 1) \in Nat /\ p * Top = p + p * (Top - 1)
      BY <1>3, <1>5
    <2>3. p * G = G * p
      BY <1>3, <1>5
    <2> QED BY <1>3, <1>5, <2>1, <2>2, <2>3
  <1> QED BY <1>1, <1>2, <1>3, <1>4, <1>6

LEMMA SignedIs ==
    /\ \A v \in Values : /\ v \in Int /\ ToUnsigned(v) \in 0..(Width - 1)
                         /\ Signed(ToUnsigned(v)) = v
    /\ \A n \in 0..(Width - 1) : Signed(n) \in Int /\ ToUnsigned(Signed(n)) = n
  <1>1. Width \in Nat /\ Width > 0
    BY WidthIs
  <1> QED BY <1>1 DEF Values, Signed, ToUnsigned

-----------------------------------------------------------------------------
(***************************************************************************)
(* Where a VarInt ends.                                                    *)
(***************************************************************************)

Ends(bytes, n) ==
    /\ n \in 1..Len(bytes) /\ ~More(bytes[n])
    /\ \A i \in 1..(n - 1) : More(bytes[i])

LEMMA LastGroupIs ==
    ASSUME NEW s \in Seq(Byte), NEW limit \in Nat, NEW n \in 1..limit, Ends(s, n)
    PROVE  LastGroup(s, limit) = n
  <1> DEFINE ends == {i \in 1..Len(s) : i <= limit /\ ~More(s[i])}
  <1>1. Len(s) \in Nat
    BY LenProperties
  <1>2. n \in ends /\ \A j \in ends : n <= j
    BY <1>1 DEF Ends
  <1>3. \A i \in ends : (\A j \in ends : i <= j) => i = n
    BY <1>1, <1>2
  <1>4. LastGroup(s, limit) = IF ends = {} THEN 0
                              ELSE CHOOSE i \in ends : \A j \in ends : i <= j
    BY DEF LastGroup
  <1> HIDE DEF ends
  <1> QED BY <1>2, <1>3, <1>4

LEMMA LastGroupEnds ==
    ASSUME NEW s \in Seq(Byte), NEW limit \in Nat
    PROVE  \/ LastGroup(s, limit) = 0
              /\ \A i \in 1..Len(s) : i <= limit => More(s[i])
           \/ LastGroup(s, limit) \in 1..limit /\ Ends(s, LastGroup(s, limit))
  <1> DEFINE ends == {i \in 1..Len(s) : i <= limit /\ ~More(s[i])}
             R == OpToRel(<, Nat)
  <1>1. Len(s) \in Nat
    BY LenProperties
  <1>2. LastGroup(s, limit) = IF ends = {} THEN 0
                              ELSE CHOOSE i \in ends : \A j \in ends : i <= j
    BY DEF LastGroup
  <1>3. CASE ends = {}
    BY <1>2, <1>3
  <1>4. CASE ends # {}
    <2>1. IsWellFoundedOn(R, Nat)
      BY NatLessThanWellFounded
    <2>2. \A m, n \in Nat : m < n => <<m, n>> \in R
      BY DEF OpToRel
    <2>3. ends \subseteq Nat
      BY <1>1
    <2> HIDE DEF R, ends
    <2>4. PICK n \in ends : \A m \in ends : ~(<<m, n>> \in R)
      BY <1>4, <2>1, <2>3, WFMin, Zenon
    <2>5. \A m \in ends : n <= m
      <3> SUFFICES ASSUME NEW m \in ends PROVE n <= m
        OBVIOUS
      <3>1. m \in Nat /\ n \in Nat
        BY <2>3
      <3>2. ~(<<m, n>> \in R)
        BY <2>4
      <3>3. ~(m < n)
        BY <2>2, <3>1, <3>2
      <3> QED BY <3>1, <3>3
    <2>6. LastGroup(s, limit) \in ends
          /\ \A j \in ends : LastGroup(s, limit) <= j
      BY <1>2, <1>4, <2>4, <2>5
    <2> DEFINE k == LastGroup(s, limit)
    <2>7. k \in ends /\ \A j \in ends : k <= j
      BY <2>6
    <2> HIDE DEF k
    <2>8. k \in 1..Len(s) /\ k <= limit /\ ~More(s[k])
      BY <2>7 DEF ends
    <2>9. \A i \in 1..(k - 1) : More(s[i])
      BY <1>1, <2>7, <2>8 DEF ends
    <2> QED BY <1>1, <2>8, <2>9 DEF Ends, k
  <1> QED BY <1>3, <1>4

\* The encodings of a value end where their last group is, and it is less
\* than Top where it is the last one there can be.
LEMMA EncodesIs ==
    ASSUME NEW s \in Seq(Byte), NEW v \in Values, Encodes(s, v)
    PROVE  /\ Len(s) \in 1..Groups /\ Ends(s, Len(s))
           /\ Sums(s)[Len(s)] = ToUnsigned(v)
           /\ Len(s) = Groups => s[Len(s)] < Top
  <1>1. Len(s) \in 1..Groups /\ Ends(s, Len(s)) /\ s[Len(s)] \in Byte
    <2>1. Len(s) \in Nat /\ Len(s) \in 1..Groups
      BY LenProperties DEF Encodes
    <2>2. s[Len(s)] \in Byte
      BY <2>1, ElementOfSeq
    <2> QED BY <2>1, <2>2 DEF Encodes, Ends
  <1>2. Sums(s)[Len(s)] = ToUnsigned(v)
    BY UnsignedIsSum DEF Encodes
  <1>3. ASSUME Len(s) = Groups PROVE s[Groups] < Top
    <2> DEFINE d == s[Groups]
               p == Place[Groups - 1]
    <2>1. ~More(s[Groups]) /\ d \in Byte
      BY <1>1, <1>3 DEF Ends
    <2>2. Bits(s[Groups]) = d /\ d \in Nat
      BY <2>1, BitsAre
    <2>3. Groups \in 1..Len(s)
      BY <1>1, <1>3
    <2>4. Sums(s)[Groups] >= d * p
      BY <2>2, <2>3, LastSum
    <2>5. ToUnsigned(v) < Width /\ ToUnsigned(v) \in Int
      BY SignedIs, WidthIs
    <2>6. d * p < p * Top /\ p \in Nat /\ Top \in Nat
      <3>1. p \in Nat /\ Top \in Nat /\ Width = p * Top
        BY PlaceRule, WidthIs
      <3>2. d * p \in Nat
        BY <2>2, <3>1
      <3>3. Sums(s)[Groups] = ToUnsigned(v)
        BY <1>2, <1>3
      <3> HIDE DEF d, p
      <3> QED BY <2>4, <2>5, <3>1, <3>2, <3>3
    <2> HIDE DEF d, p
    <2>7. d < Top
      <3>1. SUFFICES ASSUME d >= Top PROVE FALSE
        BY <2>2, <2>6
      <3>2. p * (d - Top) \in Nat /\ p * d = p * Top + p * (d - Top) /\ d * p = p * d
        BY <2>2, <2>6, <3>1
      <3> QED BY <2>2, <2>6, <3>2
    <2> QED BY <2>7 DEF d
  <1> QED BY <1>1, <1>2, <1>3

\* A read that is over before its limit and whose number is not too wide.
LEMMA ReadVarInt ==
    ASSUME NEW s \in Seq(Byte), NEW at \in 0..Len(s), NEW n \in 1..(Len(s) - at),
           NEW v \in Values, Encodes(SubSeq(s, at + 1, at + n), v)
    PROVE  read_varint(s, at) = Got(v, at + n)
  <1> DEFINE t == SubSeq(s, at + 1, at + n)
             rest == SubSeq(s, at + 1, Len(s))
             L == Len(s)
  <1>1. L \in Nat /\ at \in 0..L /\ at + n \in at..L /\ L \in at..L
        /\ at \in Nat /\ n \in Nat /\ n >= 1 /\ (at + n) - at = n
    BY LenProperties
  <1>2. t \in Seq(Byte) /\ Len(t) = n /\ \A i \in 1..n : t[i] = s[at + i]
    BY <1>1, Cut
  <1>3. rest \in Seq(Byte) /\ Len(rest) = L - at
        /\ \A i \in 1..(L - at) : rest[i] = s[at + i]
    BY <1>1, Cut
  <1>4. Encodes(t, v)
    OBVIOUS
  <1>5. Rest(s, at) = rest
    BY DEF Rest
  <1> HIDE DEF t, rest
  <1>6. /\ n \in 1..Groups /\ Ends(t, n) /\ Sums(t)[n] = ToUnsigned(v)
        /\ n = Groups => t[n] < Top
    BY <1>2, <1>4, EncodesIs
  <1>7. n <= Len(rest) /\ \A i \in 1..n : rest[i] = t[i]
    <2>1. n <= L - at /\ \A i \in 1..n : i \in 1..(L - at)
      BY <1>1
    <2> HIDE DEF L
    <2> QED BY <1>2, <1>3, <2>1
  <1>8. Ends(rest, n)
    <2>1. n \in 1..Len(t) /\ ~More(t[n]) /\ \A i \in 1..(n - 1) : More(t[i])
      BY <1>6 DEF Ends
    <2>2. n \in 1..Len(rest) /\ \A i \in 1..(n - 1) : i \in 1..n
      BY <1>1, <1>3
    <2>3. n \in 1..n
      BY <1>1
    <2> QED BY <1>7, <2>1, <2>2, <2>3 DEF Ends
  <1>9. LastGroup(rest, Groups) = n
    BY <1>3, <1>6, <1>8, WidthIs, LastGroupIs
  <1>10. Unsigned(SubSeq(rest, 1, n)) = ToUnsigned(v)
    <2>1. n \in 0..Len(rest) /\ n <= Len(t)
      BY <1>1, <1>2, <1>3
    <2>2. Unsigned(SubSeq(rest, 1, n)) = Sums(rest)[n]
      BY <1>3, <2>1, UnsignedPrefix
    <2>3. Sums(rest)[n] = Sums(t)[n]
      BY <1>1, <1>2, <1>3, <1>7, <2>1, SumsAgree
    <2> QED BY <1>6, <2>2, <2>3
  <1>11. ~(n = 0 \/ (n = Groups /\ rest[n] >= Top))
    <2>1. n \in 1..n
      BY <1>1
    <2>2. rest[n] = t[n] /\ t[n] \in Int /\ Top \in Int
      BY <1>2, <1>7, <2>1, ElementOfSeq, BitsAre, WidthIs
    <2> QED BY <1>1, <1>6, <2>2
  <1>12. Signed(ToUnsigned(v)) = v
    BY SignedIs
  <1> QED BY <1>5, <1>9, <1>10, <1>11, <1>12 DEF read_varint

\* What a read returns is encoded where it was read, and is a number of the
\* width.
LEMMA ReadEncodes ==
    ASSUME NEW s \in Seq(Byte), NEW at \in 0..Len(s), read_varint(s, at).ok
    PROVE  LET r == read_varint(s, at)
           IN /\ r.at \in (at + 1)..Len(s) /\ r.value \in Int
              /\ ToUnsigned(r.value) \in 0..(Width - 1)
              /\ Encodes(SubSeq(s, at + 1, r.at), r.value)
              /\ \E k \in 0..(Width - 1) : r.value = Signed(k)
  <1> DEFINE rest == SubSeq(s, at + 1, Len(s))
             L == Len(s)
             n == LastGroup(rest, Groups)
             t == SubSeq(s, at + 1, at + n)
             k == Sums(rest)[n]
             r == read_varint(s, at)
  <1>1. L \in Nat /\ at \in 0..L /\ L \in at..L /\ at \in Nat
    BY LenProperties
  <1>2. rest \in Seq(Byte) /\ Len(rest) = L - at
        /\ \A i \in 1..(L - at) : rest[i] = s[at + i]
    BY <1>1, Cut
  <1>3. Rest(s, at) = rest
    BY DEF Rest
  <1>4. n = LastGroup(rest, Groups)
    OBVIOUS
  <1>5. t = SubSeq(s, at + 1, at + n) /\ k = Sums(rest)[n]
    OBVIOUS
  <1> HIDE DEF rest, n, t, k
  <1>6. ~(n = 0 \/ (n = Groups /\ rest[n] >= Top))
        /\ r = Got(Signed(Unsigned(SubSeq(rest, 1, n))), at + n)
    BY <1>3, <1>4 DEF read_varint, Failed, Got
  <1>7. n \in 1..Groups /\ Ends(rest, n)
    BY <1>2, <1>4, <1>6, WidthIs, LastGroupEnds
  <1>8. /\ n \in 1..(L - at) /\ n \in 1..Len(rest) /\ n \in 0..Len(rest)
        /\ at + n \in at..L /\ (at + n) - at = n /\ n \in Nat
    BY <1>1, <1>2, <1>7 DEF Ends
  <1>9. t \in Seq(Byte) /\ Len(t) = n /\ \A i \in 1..n : t[i] = s[at + i]
    BY <1>1, <1>5, <1>8, Cut
  <1>10. n <= Len(t) /\ n <= Len(rest) /\ \A i \in 1..n : rest[i] = t[i]
    <2>1. n <= L - at /\ \A i \in 1..n : i \in 1..(L - at)
      BY <1>1, <1>8
    <2> HIDE DEF L
    <2> QED BY <1>2, <1>8, <1>9, <2>1
  <1>11. Unsigned(SubSeq(rest, 1, n)) = k
    BY <1>2, <1>5, <1>8, UnsignedPrefix
  <1>12. Unsigned(t) = k
    <2>1. Unsigned(t) = Sums(t)[n]
      BY <1>9, UnsignedIsSum
    <2>2. Sums(t)[n] = Sums(rest)[n]
      BY <1>2, <1>8, <1>9, <1>10, SumsAgree
    <2> QED BY <1>5, <2>1, <2>2
  <1>13. k \in 0..(Width - 1)
    <2>1. k \in Nat /\ k < Place[n]
      BY <1>2, <1>5, <1>8, SumsBound
    <2>2. CASE n < Groups
      <3>1. n <= Groups - 1 /\ Groups - 1 \in Nat
        BY <1>7, <2>2, WidthIs
      <3>2. Place[n] <= Place[Groups - 1] /\ Place[n] \in Nat
            /\ Place[Groups - 1] \in Nat
        BY <1>8, <3>1, PlaceGrows
      <3>3. Place[Groups - 1] <= Width /\ Width \in Nat
        BY WidthIs
      <3>4. k < Width
        BY <2>1, <3>2, <3>3
      <3> QED BY <2>1, <3>3, <3>4
    <2>3. CASE n = Groups
      <3> DEFINE d == rest[n]
                 p == Place[n - 1]
      <3>1. d \in Byte /\ ~More(d)
        BY <1>2, <1>7, <1>8, ElementOfSeq DEF Ends
      <3>2. Bits(rest[n]) = d /\ d \in Nat /\ d < Top
        BY <1>6, <2>3, <3>1, BitsAre, WidthIs
      <3>3. k < (d + 1) * p /\ p \in Nat
        BY <1>2, <1>5, <1>8, <3>2, LastSum
      <3>4. Width = p * Top /\ Top \in Nat /\ Width \in Nat
        BY <2>3, WidthIs
      <3> HIDE DEF d, p
      <3>5. p * (Top - (d + 1)) \in Nat
            /\ p * Top = (d + 1) * p + p * (Top - (d + 1))
        BY <3>2, <3>3, <3>4
      <3>6. (d + 1) * p \in Nat
        BY <3>2, <3>3
      <3> QED BY <2>1, <3>3, <3>4, <3>5, <3>6
    <2> QED BY <1>7, <2>2, <2>3, WidthIs
  <1>14. r.value = Signed(k) /\ r.at = at + n
    BY <1>6, <1>11 DEF Got
  <1>15. Signed(k) \in Int /\ ToUnsigned(Signed(k)) = k
    BY <1>13, SignedIs
  <1>16. Encodes(t, Signed(k))
    <2>1. \A i \in 1..n : More(t[i]) <=> i < n
      BY <1>7, <1>8, <1>10 DEF Ends
    <2> QED BY <1>7, <1>9, <1>12, <1>15, <2>1 DEF Encodes
  <1> QED BY <1>1, <1>5, <1>8, <1>13, <1>14, <1>15, <1>16

-----------------------------------------------------------------------------
(***************************************************************************)
(* Writing a VarInt.                                                       *)
(***************************************************************************)

\* The least number of groups that hold a value exists.
LEMMA SizeIs ==
    ASSUME NEW v \in Values
    PROVE  LET k == varint_size(v)
           IN /\ k \in 1..Groups
              /\ k = Groups \/ ToUnsigned(v) < Place[k]
              /\ k = 1 \/ ToUnsigned(v) >= Place[k - 1]
  <1> DEFINE u == ToUnsigned(v)
             holds == {k \in 1..Groups : k = Groups \/ u < Place[k]}
             R == OpToRel(<, Nat)
             Size(k) == /\ k \in 1..Groups
                        /\ k = Groups \/ u < Place[k]
                        /\ k = 1 \/ u >= Place[k - 1]
  <1>1. Groups \in Nat /\ Groups >= 1 /\ Groups \in holds
    BY WidthIs
  <1>2. IsWellFoundedOn(R, Nat)
    BY NatLessThanWellFounded
  <1>3. \A m, n \in Nat : m < n => <<m, n>> \in R
    BY DEF OpToRel
  <1>4. holds \subseteq Nat
    BY <1>1
  <1>5. u \in Int
    BY SignedIs, WidthIs
  <1>6. \A k \in holds : k \in 1..Groups /\ (k = Groups \/ u < Place[k])
    OBVIOUS
  <1>7. \A k \in 1..Groups : u < Place[k] => k \in holds
    OBVIOUS
  <1> HIDE DEF R, holds, u
  <1>8. PICK n \in holds : \A m \in holds : ~(<<m, n>> \in R)
    BY <1>1, <1>2, <1>4, WFMin, Zenon
  <1>9. ASSUME n # 1 PROVE u >= Place[n - 1]
    <2>1. n \in Nat /\ n - 1 \in Nat /\ n - 1 < n /\ n - 1 \in 1..Groups
      BY <1>1, <1>6, <1>8, <1>9
    <2>2. ~(n - 1 \in holds)
      BY <1>3, <1>8, <2>1
    <2>3. Place[n - 1] \in Nat
      BY <2>1, PlaceGrows
    <2> QED BY <1>5, <1>7, <2>1, <2>2, <2>3
  <1>10. Size(n)
    BY <1>6, <1>8, <1>9
  <1>11. varint_size(v) = CHOOSE k \in 1..Groups :
             /\ k = Groups \/ u < Place[k]
             /\ k = 1 \/ u >= Place[k - 1]
    BY DEF varint_size, u
  <1>12. Size(varint_size(v))
    BY <1>10, <1>11, Zenon
  <1> QED BY <1>12 DEF u

\* What is left of a number above a place, and its lowest group.
Above(u, i) == u \div Place[i]
Group(u, i) == Above(u, i) % G

\* What is left of a number above a place is cut into its lowest group and
\* what is left above the next place.
LEMMA NextPlace ==
    ASSUME NEW u \in Nat, NEW i \in Nat
    PROVE  /\ Above(u, i) \in Nat /\ Above(u, i + 1) \in Nat
           /\ Group(u, i) \in 0..(G - 1)
           /\ Above(u, i) = G * Above(u, i + 1) + Group(u, i)
  <1> DEFINE p == Place[i]
             q == u \div p
             w == q \div G
             d == q % G
             r == u % p
  <1>1. p \in Nat /\ p > 0 /\ Place[i + 1] = G * p /\ G \in Nat /\ G > 0
    <2>1. p \in Nat /\ p > 0
      BY PlaceGrows
    <2>2. Place[i + 1] = G * p
      BY PlaceRule
    <2> QED BY <2>1, <2>2, GAssumption
  <1> HIDE DEF p
  <1>2. q \in Nat /\ r \in 0..(p - 1) /\ u = p * q + r
    BY <1>1, Division
  <1> HIDE DEF q, r
  <1>3. w \in Nat /\ d \in 0..(G - 1) /\ q = G * w + d
    BY <1>1, <1>2, Division
  <1> HIDE DEF w, d
  <1>4. /\ G * p \in Nat /\ G * p > 0 /\ p * d + r \in 0..(G * p - 1)
        /\ u = (G * p) * w + (p * d + r)
    <2>1. p * q = p * (G * w) + p * d /\ p * (G * w) = (G * p) * w
      BY <1>1, <1>3
    <2>2. p * d \in Nat /\ G * p = p * d + p + p * (G - 1 - d)
          /\ p * (G - 1 - d) \in Nat
      BY <1>1, <1>3
    <2>3. (G * p) * w \in Nat /\ G * p \in Nat
      BY <1>1, <1>3
    <2> QED BY <1>1, <1>2, <2>1, <2>2, <2>3
  <1>5. u \div (G * p) = w
    BY <1>3, <1>4, DivisionIs
  <1>6. Above(u, i + 1) = w
    BY <1>1, <1>5 DEF Above
  <1>7. Above(u, i) = q
    BY DEF Above, p, q
  <1>8. Group(u, i) = d
    BY <1>7 DEF Group, d
  <1> QED BY <1>2, <1>3, <1>6, <1>7, <1>8

\* The groups of a number add up to it: up to each place to its rest.
LEMMA WriteSums ==
    ASSUME NEW u \in Nat, NEW s \in Seq(Byte),
           \A i \in 1..Len(s) : Bits(s[i]) = Group(u, i - 1),
           NEW n \in 0..Len(s)
    PROVE  Sums(s)[n] + Place[n] * Above(u, n) = u
  <1>1. Len(s) \in Nat
    BY LenProperties
  <1> DEFINE T == {i \in Nat : i <= Len(s)
                      => Sums(s)[i] + Place[i] * Above(u, i) = u}
  <1>2. 0 \in T
    <2>1. Sums(s)[0] = 0 /\ Place[0] = 1
      BY SumsAre, PlaceRule
    <2>2. Above(u, 0) = u
      BY <2>1 DEF Above
    <2> QED BY <2>1, <2>2
  <1>3. ASSUME NEW i \in Nat, i \in T, i + 1 <= Len(s)
        PROVE  Sums(s)[i + 1] + Place[i + 1] * Above(u, i + 1) = u
    <2> DEFINE a == Sums(s)[i]
               p == Place[i]
               q == Above(u, i)
               w == Above(u, i + 1)
               d == Group(u, i)
    <2>1. i + 1 \in 1..Len(s) /\ (i + 1) - 1 = i /\ i \in 0..Len(s)
      BY <1>1, <1>3
    <2>2. Bits(s[i + 1]) = d
      BY <2>1
    <2>3. Sums(s)[i + 1] = a + d * p
      BY <2>1, <2>2, SumsAre
    <2>4. q \in Nat /\ w \in Nat /\ d \in 0..(G - 1) /\ q = G * w + d
      BY NextPlace
    <2>5. p \in Nat /\ Place[i + 1] = G * p /\ G \in Nat
      BY PlaceRule, GAssumption
    <2>6. a + p * q = u
      BY <1>1, <1>3, <2>1
    <2>7. a \in Nat
      BY <2>1, SumsBound
    <2>8. w = Above(u, i + 1)
      OBVIOUS
    <2> HIDE DEF a, p, q, w, d
    <2>9. a + d * p + (G * p) * w = u
      <3>1. p * q = p * (G * w) + p * d /\ p * (G * w) = (G * p) * w
            /\ p * d = d * p
        BY <2>4, <2>5
      <3>2. (G * p) * w \in Nat /\ d * p \in Nat /\ p * q \in Nat
        BY <2>4, <2>5
      <3> QED BY <2>6, <2>7, <3>1, <3>2
    <2> QED BY <2>3, <2>5, <2>8, <2>9
  <1>4. \A i \in Nat : i \in T => i + 1 \in T
    BY <1>3
  <1>5. Nat \subseteq T
    <2> HIDE DEF T
    <2> QED BY <1>2, <1>4, SetInduction
  <1> QED BY <1>1, <1>5

\* What is written encodes the value, in the least number of groups.
LEMMA WriteEncodes ==
    ASSUME NEW v \in Values
    PROVE  /\ write_varint(v) \in Seq(Byte)
           /\ Len(write_varint(v)) = varint_size(v)
           /\ Encodes(write_varint(v), v)
  <1> DEFINE u == ToUnsigned(v)
             n == varint_size(v)
             s == write_varint(v)
             d == [i \in 1..n |-> Group(u, i - 1)]
  <1>1. u \in 0..(Width - 1) /\ u \in Nat /\ Width \in Nat
    BY SignedIs, WidthIs
  <1>2. n \in 1..Groups /\ (n = Groups \/ u < Place[n]) /\ n \in Nat
    BY SizeIs, WidthIs
  <1>3. s = [i \in 1..n |-> Group(u, i - 1) + (IF i < n THEN G ELSE 0)]
    BY DEF write_varint, Group, Above
  <1> HIDE DEF u, n, s
  <1>4. \A i \in 1..n : d[i] \in 0..(G - 1)
    <2> SUFFICES ASSUME NEW i \in 1..n PROVE Group(u, i - 1) \in 0..(G - 1)
      OBVIOUS
    <2>1. i - 1 \in Nat
      BY <1>2
    <2> QED BY <1>1, <2>1, NextPlace
  <1>5. \A i \in 1..n : s[i] = d[i] + (IF i < n THEN G ELSE 0)
    BY <1>3
  <1>6. \A i \in 1..n : d[i] = Group(u, i - 1)
    OBVIOUS
  <1> HIDE DEF d
  <1>7. \A i \in 1..n : /\ s[i] \in Byte /\ (More(s[i]) <=> i < n)
                        /\ Bits(s[i]) = d[i]
    <2> SUFFICES ASSUME NEW i \in 1..n
                 PROVE  /\ s[i] \in Byte /\ (More(s[i]) <=> i < n)
                        /\ Bits(s[i]) = d[i]
      OBVIOUS
    <2>1. d[i] \in 0..(G - 1) /\ G \in Nat /\ G > 0
      BY <1>4, GAssumption
    <2>2. s[i] = d[i] + (IF i < n THEN G ELSE 0)
      BY <1>5
    <2>3. s[i] \in Byte /\ (More(s[i]) <=> i < n)
      BY <2>1, <2>2 DEF Byte, More
    <2> QED BY <2>1, <2>2, <2>3, BitsAre
  <1>8. s \in Seq(Byte) /\ Len(s) = n
    <2>1. s \in [1..n -> Byte]
      BY <1>3, <1>7
    <2> QED BY <1>2, <2>1
  <1>9. Sums(s)[n] = u
    <2>1. Sums(s)[n] + Place[n] * Above(u, n) = u
      <3>1. \A i \in 1..Len(s) : Bits(s[i]) = Group(u, i - 1)
        BY <1>6, <1>7, <1>8
      <3>2. n \in 0..Len(s)
        BY <1>2, <1>8
      <3> QED BY <1>1, <1>8, <3>1, <3>2, WriteSums, Zenon
    <2>2. u < Place[n] /\ Place[n] \in Nat
      BY <1>1, <1>2, PlaceRule, WidthIs
    <2>3. Above(u, n) = 0
      <3>1. u = Place[n] * 0 + u /\ u \in 0..(Place[n] - 1)
        BY <1>1, <2>2
      <3> QED BY <1>1, <2>2, <3>1, DivisionIs DEF Above
    <2>4. Sums(s)[n] \in Nat
      BY <1>2, <1>8, SumsBound
    <2> QED BY <2>1, <2>2, <2>3, <2>4
  <1>10. Encodes(s, v)
    BY <1>2, <1>7, <1>8, <1>9, UnsignedIsSum DEF Encodes, u
  <1> QED BY <1>8, <1>10 DEF s, n

\* Written and read, whatever follows.
LEMMA WrittenIsRead ==
    ASSUME NEW v \in Values, NEW s \in Seq(Byte)
    PROVE  read_varint(write_varint(v) \o s, 0) = Got(v, varint_size(v))
  <1> DEFINE w == write_varint(v)
             n == varint_size(v)
             all == w \o s
  <1>1. w \in Seq(Byte) /\ Len(w) = n /\ Encodes(w, v)
    BY WriteEncodes
  <1>2. n \in Nat /\ n >= 1 /\ n \in 1..Groups
    BY SizeIs, WidthIs
  <1> HIDE DEF w, n
  <1>3. /\ all \in Seq(Byte) /\ Len(all) = n + Len(s) /\ Len(s) \in Nat
        /\ \A i \in 1..n : all[i] = w[i]
    <2>1. /\ all \in Seq(Byte) /\ Len(all) = Len(w) + Len(s)
          /\ \A i \in 1..(Len(w) + Len(s)) :
                all[i] = IF i <= Len(w) THEN w[i] ELSE s[i - Len(w)]
      BY <1>1, ConcatProperties
    <2>2. Len(s) \in Nat
      BY LenProperties
    <2> HIDE DEF all
    <2> QED BY <1>1, <1>2, <2>1, <2>2
  <1> HIDE DEF all
  <1>4. 0 \in 0..Len(all) /\ n \in 0..Len(all) /\ n \in 1..(Len(all) - 0)
    BY <1>2, <1>3
  <1> DEFINE t == SubSeq(all, 0 + 1, 0 + n)
  <1>5. t \in Seq(Byte) /\ Len(t) = n /\ \A i \in 1..n : t[i] = all[i]
    <2>1. /\ SubSeq(all, 0 + 1, n) \in Seq(Byte)
          /\ Len(SubSeq(all, 0 + 1, n)) = n - 0
          /\ \A i \in 1..(n - 0) : SubSeq(all, 0 + 1, n)[i] = all[0 + i]
      BY <1>3, <1>4, Cut
    <2> QED BY <1>2, <2>1
  <1> HIDE DEF t
  <1>6. t = w
    BY <1>1, <1>3, <1>5, SeqEqual
  <1>7. Encodes(SubSeq(all, 0 + 1, 0 + n), v)
    BY <1>1, <1>6 DEF t
  <1>8. read_varint(all, 0) = Got(v, 0 + n)
    BY <1>3, <1>4, <1>7, ReadVarInt
  <1> QED BY <1>2, <1>8 DEF all, w, n

\* No encoding is shorter than the one that is written.
LEMMA WrittenIsShortest ==
    ASSUME NEW v \in Values, NEW s \in Seq(Byte), Encodes(s, v)
    PROVE  Len(s) >= varint_size(v)
  <1>1. SUFFICES ASSUME Len(s) < varint_size(v) PROVE FALSE
    BY SizeIs, LenProperties, WidthIs
  <1> DEFINE k == varint_size(v)
  <1>2. Len(s) \in Nat /\ Len(s) \in 1..Groups /\ Len(s) \in 0..Len(s)
    BY LenProperties, EncodesIs
  <1>3. k \in 1..Groups /\ (k = 1 \/ ToUnsigned(v) >= Place[k - 1])
    BY SizeIs
  <1>4. Sums(s)[Len(s)] = ToUnsigned(v) /\ Sums(s)[Len(s)] \in Nat
        /\ Sums(s)[Len(s)] < Place[Len(s)]
    BY <1>2, EncodesIs, SumsBound
  <1> HIDE DEF k
  <1>5. k # 1 /\ k - 1 \in Nat /\ Len(s) <= k - 1
    BY <1>1, <1>2, <1>3, WidthIs DEF k
  <1>6. Place[Len(s)] <= Place[k - 1] /\ Place[k - 1] \in Nat /\ Place[Len(s)] \in Nat
    BY <1>2, <1>5, PlaceGrows
  <1> QED BY <1>3, <1>4, <1>5, <1>6

-----------------------------------------------------------------------------
(***************************************************************************)
(* What the parsers read with.                                             *)
(***************************************************************************)

LEMMA GotIs ==
    \A value, at : /\ Got(value, at).ok /\ Got(value, at).value = value
                   /\ Got(value, at).at = at
  BY DEF Got

\* Numbers that are lengths of a packet, and what a read returns.
LEMMA ValuesAre ==
    /\ 0 \in Values
    /\ \A n \in Nat : 2 * n < Width => n \in Values
    /\ \A n \in 0..(Width - 1) : Signed(n) \in Values
  <1>1. Width \in Nat /\ Width > 0 /\ Width % 2 = 0
    BY WidthIs, WidthAssumption
  <1> QED BY <1>1 DEF Values, Signed

\* A piece of a piece.
LEMMA CutOfCut ==
    ASSUME NEW s \in Seq(Byte), NEW a \in 0..Len(s), NEW b \in a..Len(s),
           NEW m \in 0..(b - a), NEW n \in m..(b - a)
    PROVE  SubSeq(SubSeq(s, a + 1, b), m + 1, n) = SubSeq(s, a + m + 1, a + n)
  <1> DEFINE t == SubSeq(s, a + 1, b)
             u == SubSeq(t, m + 1, n)
             w == SubSeq(s, (a + m) + 1, a + n)
  <1>1. /\ Len(s) \in Nat /\ a \in Nat /\ b \in Nat /\ m \in Nat /\ n \in Nat
        /\ m <= n /\ n <= b - a /\ b <= Len(s) /\ a <= b
    BY LenProperties
  <1>2. t \in Seq(Byte) /\ Len(t) = b - a
        /\ \A i \in 1..(b - a) : t[i] = s[a + i]
    BY Cut
  <1> HIDE DEF t
  <1>3. u \in Seq(Byte) /\ Len(u) = n - m
        /\ \A i \in 1..(n - m) : u[i] = t[m + i]
    BY <1>1, <1>2, Cut
  <1>4. a + m \in 0..Len(s) /\ a + n \in (a + m)..Len(s)
    BY <1>1
  <1>5. w \in Seq(Byte) /\ Len(w) = (a + n) - (a + m)
        /\ \A i \in 1..((a + n) - (a + m)) : w[i] = s[(a + m) + i]
    BY <1>4, Cut
  <1>6. (a + n) - (a + m) = n - m
    BY <1>1
  <1> HIDE DEF u, w
  <1>7. ASSUME NEW i \in 1..(n - m) PROVE u[i] = w[i]
    <2>1. u[i] = t[m + i] /\ m + i \in 1..(b - a)
      BY <1>1, <1>3
    <2>2. t[m + i] = s[a + (m + i)] /\ a + (m + i) = (a + m) + i
      BY <1>1, <1>2, <2>1
    <2>3. w[i] = s[(a + m) + i]
      BY <1>5, <1>6
    <2> QED BY <2>1, <2>2, <2>3
  <1>8. u = w
    BY <1>3, <1>5, <1>6, <1>7, SeqEqual
  <1>9. (a + m) + 1 = a + m + 1
    OBVIOUS
  <1> QED BY <1>8, <1>9 DEF t, u, w

\* An encoding from one offset to another is read.
LEMMA ReadAt ==
    ASSUME NEW s \in Seq(Byte), NEW at \in 0..Len(s), NEW e \in at..Len(s),
           NEW v \in Values, Encodes(SubSeq(s, at + 1, e), v)
    PROVE  read_varint(s, at) = Got(v, e) /\ at < e
  <1>1. Len(s) \in Nat /\ at \in Nat /\ e \in Nat /\ at <= e /\ e <= Len(s)
    BY LenProperties
  <1>2. Len(SubSeq(s, at + 1, e)) = e - at
    BY Cut
  <1>3. e - at \in 1..(Len(s) - at) /\ at + (e - at) = e
    BY <1>1, <1>2, WidthIs DEF Encodes
  <1>4. Encodes(SubSeq(s, at + 1, at + (e - at)), v)
    BY <1>3
  <1>5. read_varint(s, at) = Got(v, at + (e - at))
    BY <1>3, <1>4, ReadVarInt
  <1> QED BY <1>1, <1>3, <1>5

\* A text from one offset to another is read, where the packet is not longer
\* than a number can say.
LEMMA ReadText ==
    ASSUME NEW s \in Seq(Byte), 2 * Len(s) < Width,
           NEW at \in 0..Len(s), NEW e \in at..Len(s),
           NEW text, Text(SubSeq(s, at + 1, e), text)
    PROVE  read_utf8_string(s, at) = Got(text, e) /\ at < e
  <1> DEFINE t == SubSeq(s, at + 1, e)
  <1>1. Len(s) \in Nat /\ at \in Nat /\ e \in Nat /\ at <= e /\ e <= Len(s)
    BY LenProperties
  <1>2. t \in Seq(Byte) /\ Len(t) = e - at
    BY Cut
  <1>3. PICK cut \in 1..Len(t) : /\ Encodes(SubSeq(t, 1, cut), Len(text))
                                 /\ SubSeq(t, cut + 1, Len(t)) = text
                                 /\ from_utf8_ok(text)
    BY DEF Text
  <1>4. cut \in Nat /\ cut >= 1 /\ cut <= e - at /\ e - at \in 0..(e - at)
        /\ 0 \in 0..(e - at) /\ cut \in 0..(e - at) /\ e - at \in cut..(e - at)
    BY <1>1, <1>2, <1>3
  <1>5. SubSeq(t, 0 + 1, cut) = SubSeq(s, at + 0 + 1, at + cut)
    BY <1>4, CutOfCut
  <1>6. SubSeq(t, cut + 1, e - at) = SubSeq(s, at + cut + 1, at + (e - at))
    BY <1>4, CutOfCut
  <1>7. /\ SubSeq(t, 1, cut) = SubSeq(s, at + 1, at + cut)
        /\ text = SubSeq(s, at + cut + 1, e)
    <2>1. at + 0 + 1 = at + 1 /\ 0 + 1 = 1 /\ at + (e - at) = e
      BY <1>1
    <2> HIDE DEF t
    <2> QED BY <1>2, <1>3, <1>5, <1>6, <2>1
  <1> HIDE DEF t
  <1>8. at + cut \in 0..Len(s) /\ at + cut \in at..Len(s) /\ e \in (at + cut)..Len(s)
        /\ (at + cut) + (e - (at + cut)) = e /\ e - (at + cut) \in Nat
        /\ at < e
    BY <1>1, <1>4
  <1>9. Len(text) = e - (at + cut)
    BY <1>7, <1>8, Cut
  <1>10. Len(text) \in Values
    <2>1. 2 * (e - (at + cut)) < Width
      BY <1>1, <1>8, WidthIs
    <2> QED BY <1>8, <1>9, <2>1, ValuesAre
  <1>11. read_varint(s, at) = Got(Len(text), at + cut)
    BY <1>3, <1>7, <1>8, <1>10, ReadAt
  <1>12. read_bytes(s, at + cut, Len(text)) = Got(text, e)
    BY <1>1, <1>7, <1>8, <1>9 DEF read_bytes
  <1> QED BY <1>3, <1>8, <1>9, <1>11, <1>12 DEF read_utf8_string, Got

\* A text that is read is one of the grammar.
LEMMA ReadTextIs ==
    ASSUME NEW s \in Seq(Byte), NEW at \in 0..Len(s), read_utf8_string(s, at).ok
    PROVE  LET r == read_utf8_string(s, at)
           IN /\ r.at \in (at + 1)..Len(s)
              /\ Text(SubSeq(s, at + 1, r.at), r.value)
              /\ \E k \in at..r.at : r.value = SubSeq(s, k + 1, r.at)
              /\ \E k \in at..r.at :
                    /\ k > at /\ Encodes(SubSeq(s, at + 1, k), r.at - k)
                    /\ read_varint(s, at) = Got(r.at - k, k)
                    /\ r.value = SubSeq(s, k + 1, r.at)
                    /\ from_utf8_ok(r.value)
  <1> DEFINE r == read_utf8_string(s, at)
             l == read_varint(s, at)
             k == l.at
             n == l.value
             e == k + n
             text == SubSeq(s, k + 1, e)
             t == SubSeq(s, at + 1, e)
  <1>1. Len(s) \in Nat /\ at \in Nat /\ at <= Len(s)
    BY LenProperties
  <1>2. /\ l.ok /\ n >= 0 /\ read_bytes(s, k, n).ok
        /\ from_utf8_ok(read_bytes(s, k, n).value) /\ r = read_bytes(s, k, n)
    BY DEF read_utf8_string, Failed
  <1>3. /\ k \in (at + 1)..Len(s) /\ n \in Int
        /\ Encodes(SubSeq(s, at + 1, k), n)
    BY <1>2, ReadEncodes
  <1>4. e <= Len(s) /\ r = Got(text, e)
    BY <1>2 DEF read_bytes, Failed
  <1>20. l = Got(n, k)
    BY <1>2 DEF read_varint, Failed, Got
  <1>5. t = SubSeq(s, at + 1, e) /\ text = SubSeq(s, k + 1, e) /\ e = k + n
    OBVIOUS
  <1>7. from_utf8_ok(text)
    BY <1>2, <1>4 DEF Got
  <1> HIDE DEF r, l, k, n, e, text, t
  <1>6. e = k + n /\ r.at = e /\ r.value = text
    BY <1>4, <1>5 DEF Got
  <1>8. /\ n \in Nat /\ k \in Nat /\ e \in Nat /\ k <= e /\ at < k /\ e <= Len(s)
        /\ e \in at..Len(s) /\ e \in k..Len(s) /\ k \in 0..Len(s)
        /\ e - at \in Nat /\ k - at \in 1..(e - at) /\ 0 \in 0..(e - at)
        /\ k - at \in 0..(e - at) /\ e - at \in (k - at)..(e - at)
    BY <1>1, <1>2, <1>3, <1>4, <1>6
  <1>9. t \in Seq(Byte) /\ Len(t) = e - at
    BY <1>5, <1>8, Cut
  <1>10. Len(text) = n
    <2>1. Len(text) = e - k
      BY <1>5, <1>8, Cut
    <2> QED BY <1>6, <1>8, <2>1
  <1>11. SubSeq(t, 1, k - at) = SubSeq(s, at + 1, k)
    <2>1. SubSeq(t, 0 + 1, k - at) = SubSeq(s, at + 0 + 1, at + (k - at))
      BY <1>5, <1>8, CutOfCut
    <2>2. 0 + 1 = 1 /\ at + 0 + 1 = at + 1 /\ at + (k - at) = k
      BY <1>1, <1>8
    <2> QED BY <2>1, <2>2
  <1>12. SubSeq(t, (k - at) + 1, Len(t)) = text
    <2>1. SubSeq(t, (k - at) + 1, e - at)
             = SubSeq(s, at + (k - at) + 1, at + (e - at))
      BY <1>5, <1>8, CutOfCut
    <2>2. at + (k - at) + 1 = k + 1 /\ at + (e - at) = e
      BY <1>1, <1>8
    <2> QED BY <1>5, <1>9, <2>1, <2>2
  <1>13. Text(t, text)
    BY <1>3, <1>7, <1>8, <1>9, <1>10, <1>11, <1>12 DEF Text
  <1>14. k \in at..e /\ e \in (at + 1)..Len(s) /\ k > at /\ e - k = n
    BY <1>1, <1>6, <1>8
  <1>15. /\ r.at \in (at + 1)..Len(s)
         /\ Text(SubSeq(s, at + 1, r.at), r.value)
         /\ k \in at..r.at /\ k > at /\ Encodes(SubSeq(s, at + 1, k), r.at - k)
         /\ r.value = SubSeq(s, k + 1, r.at)
         /\ from_utf8_ok(r.value) /\ l = Got(r.at - k, k)
    BY <1>3, <1>5, <1>6, <1>7, <1>13, <1>14, <1>20
  <1> QED BY <1>15 DEF r, l

-----------------------------------------------------------------------------
(***************************************************************************)
(* The packets of MCProtocol.                                              *)
(***************************************************************************)

\* Every packet is a sequence of bytes, and not longer than a number can say.
PacketInv == packet \in Seq(Byte) /\ Len(packet) <= MaxLength

LEMMA PacketIsBytes == Spec => []PacketInv
  <1>1. MaxLength \in Nat
    <2>1. Place[LengthGroups] \in Nat
      BY LengthAssumption, PlaceRule
    <2> QED BY <2>1, MaxLengthAssumption DEF MaxPacketLength
  <1>2. Init => PacketInv
    BY <1>1 DEF Init, PacketInv
  <1>3. PacketInv /\ [Next]_packet => PacketInv'
    <2>1. ASSUME PacketInv, NEW b \in Byte, packet' = Append(packet, b),
                 Len(packet) < MaxLength
          PROVE  PacketInv'
      <3>1. packet \in Seq(Byte) /\ Len(packet) \in Nat
        BY <2>1, LenProperties DEF PacketInv
      <3>2. Append(packet, b) \in Seq(Byte)
            /\ Len(Append(packet, b)) = Len(packet) + 1
        BY <3>1, AppendProperties
      <3> QED BY <1>1, <2>1, <3>1, <3>2 DEF PacketInv
    <2> QED BY <2>1 DEF Next, Byte, PacketInv
  <1> QED BY <1>2, <1>3, PTL DEF Spec

LEMMA PacketIsShort ==
    ASSUME PacketInv
    PROVE  /\ packet \in Seq(Byte) /\ Len(packet) \in Nat
           /\ 2 * Len(packet) < Width
  <1>1. Place[LengthGroups] \in Nat /\ 2 * Place[LengthGroups] <= Width
        /\ Width \in Nat
    BY LengthAssumption, PlaceRule, WidthIs
  <1>2. MaxLength \in Int /\ MaxLength < Place[LengthGroups]
    BY <1>1, MaxLengthAssumption DEF MaxPacketLength
  <1>3. packet \in Seq(Byte) /\ Len(packet) \in Nat /\ Len(packet) <= MaxLength
    BY LenProperties DEF PacketInv
  <1> QED BY <1>1, <1>2, <1>3

\* Whatever the packet, a VarInt that is written is read back with what
\* follows it left over, no encoding of a number is shorter than the one that
\* is written, and what is read is what is encoded: read_varint and
\* write_varint agree on every 32-bit number.
THEOREM VarIntIsRead == Spec => []VarIntRoundTrip
  <1>1. ASSUME PacketInv PROVE VarIntRoundTrip
    <2> DEFINE s == packet
    <2>1. Len(s) \in Nat /\ 0 \in 0..Len(s) /\ s \in Seq(Byte)
      BY <1>1, LenProperties DEF PacketInv
    <2> HIDE DEF s
    <2>2. ASSUME NEW v \in Values
          PROVE  read_varint(write_varint(v) \o s, 0) = Got(v, varint_size(v))
      BY <2>1, WrittenIsRead
    <2>3. ASSUME NEW v \in Values, Encodes(s, v)
          PROVE  Len(s) >= varint_size(v) /\ read_varint(s, 0) = Got(v, Len(s))
      <3>1. Len(s) >= varint_size(v)
        BY <2>1, <2>3, WrittenIsShortest
      <3>2. Len(s) \in 1..(Len(s) - 0) /\ 0 + Len(s) = Len(s)
        BY <2>1, <2>3, EncodesIs
      <3>3. SubSeq(s, 0 + 1, 0 + Len(s)) = s
        <4>1. SubSeq(s, 1, Len(s)) = s
          BY <2>1, SubSeqFull
        <4> QED BY <3>2, <4>1
      <3>4. read_varint(s, 0) = Got(v, 0 + Len(s))
        BY <2>1, <2>3, <3>2, <3>3, ReadVarInt
      <3> QED BY <3>1, <3>2, <3>4
    <2>4. ASSUME read_varint(s, 0).ok
          PROVE  Encodes(SubSeq(s, 0 + 1, read_varint(s, 0).at),
                         read_varint(s, 0).value)
      BY <2>1, <2>4, ReadEncodes
    <2> QED BY <2>2, <2>3, <2>4 DEF VarIntRoundTrip, Piece, s
  <1> QED BY <1>1, PacketIsBytes, PTL

-----------------------------------------------------------------------------
(***************************************************************************)
(* Handshakes.                                                             *)
(***************************************************************************)

\* Each cut of the packet the grammar has is the one the parser makes.
LEMMA HandshakeIsRead ==
    ASSUME PacketInv, NEW c \in Handshakes
    PROVE  /\ c \in [1..4 -> 1..Len(packet)]
           /\ read_varint(packet, 0) = Got(0, c[1])
           /\ \E v \in Values : /\ Encodes(Piece(c[1], c[2]), v)
                                /\ read_varint(packet, c[1]) = Got(v, c[2])
           /\ \E text : /\ Text(Piece(c[2], c[3]), text)
                        /\ read_utf8_string(packet, c[2]) = Got(text, c[3])
           /\ read_bytes(packet, c[3], PortBytes) = Got(Piece(c[3], c[4]), c[4])
           /\ \E v \in Values : read_varint(packet, c[4]) = Got(v, Len(packet))
           /\ \A v \in Values : Encodes(Piece(c[4], Len(packet)), v)
                                  => read_varint(packet, c[4]) = Got(v, Len(packet))
  <1> DEFINE s == packet
             L == Len(s)
  <1>1. s \in Seq(Byte) /\ L \in Nat /\ 2 * Len(s) < Width
    BY PacketIsShort
  <1>2. /\ c \in [1..4 -> 1..L]
        /\ c[1] < c[2] /\ c[2] < c[3] /\ c[4] = c[3] + PortBytes
        /\ Encodes(Piece(0, c[1]), 0)
        /\ \E v \in Values : Encodes(Piece(c[1], c[2]), v)
        /\ \E k \in c[2]..c[3] : Text(Piece(c[2], c[3]), Piece(k, c[3]))
        /\ \E v \in Values : Encodes(Piece(c[4], L), v)
    BY DEF Handshakes
  <1>3. \A a, b : Piece(a, b) = SubSeq(s, a + 1, b)
    BY DEF Piece
  <1>4. PortBytes \in Nat
    BY SizesAssumption
  <1> HIDE DEF s
  <1>5. c[1] \in 1..L /\ c[2] \in 1..L /\ c[3] \in 1..L /\ c[4] \in 1..L
    BY <1>2
  <1> HIDE DEF L
  <1>6. /\ 0 \in 0..L /\ c[1] \in 0..L /\ c[2] \in c[1]..L /\ c[2] \in 0..L
        /\ c[3] \in c[2]..L /\ c[4] \in c[3]..L /\ c[4] \in 0..L /\ L \in c[4]..L
    BY <1>1, <1>2, <1>4, <1>5
  <1>7. read_varint(s, 0) = Got(0, c[1])
    <2>1. Encodes(SubSeq(s, 0 + 1, c[1]), 0) /\ 0 \in Values
      BY <1>2, <1>3, ValuesAre
    <2> QED BY <1>1, <1>6, <2>1, ReadAt DEF L
  <1>8. \E v \in Values : /\ Encodes(Piece(c[1], c[2]), v)
                          /\ read_varint(s, c[1]) = Got(v, c[2])
    <2>1. PICK v \in Values : Encodes(Piece(c[1], c[2]), v)
      BY <1>2
    <2>2. read_varint(s, c[1]) = Got(v, c[2])
      BY <1>1, <1>3, <1>6, <2>1, ReadAt DEF L
    <2> QED BY <2>1, <2>2
  <1>9. \E text : /\ Text(Piece(c[2], c[3]), text)
                  /\ read_utf8_string(s, c[2]) = Got(text, c[3])
    <2>1. PICK k \in c[2]..c[3] : Text(Piece(c[2], c[3]), Piece(k, c[3]))
      BY <1>2
    <2> DEFINE text == Piece(k, c[3])
    <2>2. Text(SubSeq(s, c[2] + 1, c[3]), text)
      BY <1>3, <2>1
    <2> HIDE DEF text
    <2>3. read_utf8_string(s, c[2]) = Got(text, c[3])
      BY <1>1, <1>6, <2>2, ReadText DEF L
    <2>4. Text(Piece(c[2], c[3]), text)
      BY <2>1 DEF text
    <2> QED BY <2>3, <2>4
  <1>10. read_bytes(s, c[3], PortBytes) = Got(Piece(c[3], c[4]), c[4])
    <2>1. c[3] + PortBytes = c[4] /\ c[4] <= Len(s)
      BY <1>1, <1>2, <1>5 DEF L
    <2>2. read_bytes(s, c[3], PortBytes) = Got(SubSeq(s, c[3] + 1, c[4]), c[4])
      BY <2>1 DEF read_bytes
    <2> QED BY <1>3, <2>2
  <1>11. \A v \in Values : Encodes(Piece(c[4], L), v)
                             => read_varint(s, c[4]) = Got(v, L)
    BY <1>1, <1>3, <1>6, ReadAt DEF L
  <1> QED BY <1>2, <1>7, <1>8, <1>9, <1>10, <1>11 DEF s, L

\* What the parser accepts is a cut of the grammar.
LEMMA ReadIsHandshake ==
    ASSUME PacketInv, parse_handshake(packet).ok
    PROVE  Handshakes # {}
  <1> DEFINE s == packet
             L == Len(s)
             id       == read_varint(s, 0)
             protocol == read_varint(s, id.at)
             address  == read_utf8_string(s, protocol.at)
             port     == read_bytes(s, address.at, PortBytes)
             intent   == read_varint(s, port.at)
             c == <<id.at, protocol.at, address.at, port.at>>
  <1>1. s \in Seq(Byte) /\ L \in Nat
    BY PacketIsShort
  <1>2. /\ id.ok /\ id.value = 0
        /\ protocol.ok /\ address.ok /\ port.ok /\ intent.ok
        /\ intent.at = Len(s)
    BY DEF parse_handshake, Malformed
  <1>3. \A a, b : Piece(a, b) = SubSeq(s, a + 1, b)
    BY DEF Piece
  <1>4. PortBytes \in Nat /\ 0 \in 0..L
    BY <1>1, SizesAssumption
  <1>5. /\ id.at \in (0 + 1)..L
        /\ Encodes(SubSeq(s, 0 + 1, id.at), 0)
    BY <1>1, <1>2, <1>4, ReadEncodes
  <1>6. protocol = read_varint(s, id.at)
        /\ address = read_utf8_string(s, protocol.at)
        /\ port = read_bytes(s, address.at, PortBytes)
        /\ intent = read_varint(s, port.at)
        /\ c = <<id.at, protocol.at, address.at, port.at>>
    OBVIOUS
  <1> HIDE DEF id, protocol, address, port, intent, c
  <1>7. id.at \in 0..L /\ id.at >= 1 /\ id.at \in Int
    BY <1>1, <1>5
  <1>8. /\ protocol.at \in (id.at + 1)..L
        /\ \E v \in Values : Encodes(SubSeq(s, id.at + 1, protocol.at), v)
    BY <1>1, <1>2, <1>6, <1>7, ReadEncodes, ValuesAre
  <1>9. protocol.at \in 0..L /\ id.at < protocol.at /\ protocol.at \in Int
    BY <1>1, <1>7, <1>8
  <1>10. /\ address.at \in (protocol.at + 1)..L
         /\ \E k \in protocol.at..address.at :
               Text(SubSeq(s, protocol.at + 1, address.at),
                    SubSeq(s, k + 1, address.at))
    <2>1. /\ address.at \in (protocol.at + 1)..L
          /\ Text(SubSeq(s, protocol.at + 1, address.at), address.value)
          /\ \E k \in protocol.at..address.at :
                address.value = SubSeq(s, k + 1, address.at)
      BY <1>1, <1>2, <1>6, <1>9, ReadTextIs
    <2> QED BY <2>1
  <1>11. address.at \in 0..L /\ protocol.at < address.at /\ address.at \in Int
    BY <1>1, <1>9, <1>10
  <1>12. port.at = address.at + PortBytes /\ port.at <= L
    BY <1>2, <1>6 DEF read_bytes, Failed, Got
  <1>13. port.at \in 0..L
    BY <1>1, <1>4, <1>11, <1>12
  <1>14. \E v \in Values : Encodes(SubSeq(s, port.at + 1, L), v)
    <2>1. /\ Encodes(SubSeq(s, port.at + 1, intent.at), intent.value)
          /\ \E k \in 0..(Width - 1) : intent.value = Signed(k)
      BY <1>1, <1>2, <1>6, <1>13, ReadEncodes
    <2>2. intent.value \in Values
      BY <2>1, ValuesAre
    <2> QED BY <1>2, <2>1, <2>2
  <1>15. c \in [1..4 -> 1..L] /\ c[1] = id.at /\ c[2] = protocol.at
         /\ c[3] = address.at /\ c[4] = port.at
    <2>1. /\ id.at \in 1..L /\ protocol.at \in 1..L /\ address.at \in 1..L
          /\ port.at \in 1..L
      BY <1>1, <1>4, <1>7, <1>9, <1>11, <1>12, <1>13
    <2> HIDE DEF L
    <2> QED BY <1>6, <2>1
  <1>16. c \in Handshakes
    <2>1. /\ c[1] < c[2] /\ c[2] < c[3] /\ c[4] = c[3] + PortBytes
      BY <1>9, <1>11, <1>12, <1>15
    <2>2. /\ Encodes(Piece(0, c[1]), 0)
          /\ \E v \in Values : Encodes(Piece(c[1], c[2]), v)
          /\ \E k \in c[2]..c[3] : Text(Piece(c[2], c[3]), Piece(k, c[3]))
          /\ \E v \in Values : Encodes(Piece(c[4], L), v)
      BY <1>3, <1>5, <1>8, <1>10, <1>14, <1>15
    <2> QED BY <1>15, <2>1, <2>2 DEF Handshakes
  <1> QED BY <1>16

\* A handshake is accepted exactly when the grammar has a reading of it, there
\* is one reading, and the fields that come back are the fields of it: what
\* parse_handshake makes of a client's bytes is what they say.
THEOREM HandshakeIsExact == Spec => []HandshakeExact
  <1>1. ASSUME PacketInv PROVE HandshakeExact
    <2> DEFINE h == parse_handshake(packet)
               L == Len(packet)
    <2>1. ASSUME NEW c \in Handshakes
          PROVE  /\ h.ok
                 /\ Encodes(Piece(c[1], c[2]), h.protocol_version)
                 /\ Text(Piece(c[2], c[3]), h.address)
                 /\ h.port = Piece(c[3], c[4])
                 /\ \A v \in Values : Encodes(Piece(c[4], L), v)
                                        => h.intent = intent_of(v)
      <3>1. /\ read_varint(packet, 0) = Got(0, c[1])
            /\ read_bytes(packet, c[3], PortBytes)
                  = Got(Piece(c[3], c[4]), c[4])
            /\ \A v \in Values : Encodes(Piece(c[4], L), v)
                                   => read_varint(packet, c[4]) = Got(v, L)
        BY <1>1, HandshakeIsRead
      <3>2. PICK p \in Values : /\ Encodes(Piece(c[1], c[2]), p)
                                /\ read_varint(packet, c[1]) = Got(p, c[2])
        BY <1>1, HandshakeIsRead
      <3>3. PICK text : /\ Text(Piece(c[2], c[3]), text)
                        /\ read_utf8_string(packet, c[2]) = Got(text, c[3])
        BY <1>1, HandshakeIsRead
      <3>4. PICK x \in Values : read_varint(packet, c[4]) = Got(x, L)
        BY <1>1, HandshakeIsRead
      <3>5. h = [ok |-> TRUE, protocol_version |-> p, address |-> text,
                 port |-> Piece(c[3], c[4]), intent |-> intent_of(x)]
        <4> DEFINE id       == read_varint(packet, 0)
                   protocol == read_varint(packet, id.at)
                   address  == read_utf8_string(packet, protocol.at)
                   port     == read_bytes(packet, address.at, PortBytes)
                   intent   == read_varint(packet, port.at)
        <4>1. id = Got(0, c[1])
          BY <3>1
        <4>2. id.ok /\ id.value = 0 /\ id.at = c[1]
          BY <4>1, GotIs
        <4>3. protocol = Got(p, c[2])
          BY <3>2, <4>2
        <4>4. protocol.ok /\ protocol.value = p /\ protocol.at = c[2]
          BY <4>3, GotIs
        <4>5. address = Got(text, c[3])
          BY <3>3, <4>4
        <4>6. address.ok /\ address.value = text /\ address.at = c[3]
          BY <4>5, GotIs
        <4>7. port = Got(Piece(c[3], c[4]), c[4])
          BY <3>1, <4>6
        <4>8. port.ok /\ port.value = Piece(c[3], c[4]) /\ port.at = c[4]
          BY <4>7, GotIs
        <4>9. intent = Got(x, L)
          BY <3>4, <4>8
        <4>10. intent.ok /\ intent.value = x /\ intent.at = L
          BY <4>9, GotIs
        <4>11. h = IF /\ id.ok /\ id.value = 0
                      /\ protocol.ok /\ address.ok /\ port.ok /\ intent.ok
                      /\ intent.at = Len(packet)
                   THEN [ok |-> TRUE, protocol_version |-> protocol.value,
                         address |-> address.value, port |-> port.value,
                         intent |-> intent_of(intent.value)]
                   ELSE Malformed
          BY DEF parse_handshake
        <4> HIDE DEF id, protocol, address, port, intent, h
        <4> QED BY <4>2, <4>4, <4>6, <4>8, <4>10, <4>11
      <3>6. \A v \in Values : Encodes(Piece(c[4], L), v) => v = x
        BY <3>1, <3>4, GotIs
      <3> QED BY <3>2, <3>3, <3>5, <3>6
    <2>2. ASSUME NEW c \in Handshakes, NEW d \in Handshakes PROVE c = d
      <3>1. /\ c \in [1..4 -> 1..L] /\ d \in [1..4 -> 1..L]
            /\ Got(0, c[1]) = Got(0, d[1])
            /\ read_bytes(packet, c[3], PortBytes)
                  = Got(Piece(c[3], c[4]), c[4])
            /\ read_bytes(packet, d[3], PortBytes)
                  = Got(Piece(d[3], d[4]), d[4])
        BY <1>1, HandshakeIsRead
      <3>2. c[1] = d[1]
        BY <3>1 DEF Got
      <3>3. \E v, w \in Values : /\ read_varint(packet, c[1]) = Got(v, c[2])
                                 /\ read_varint(packet, d[1]) = Got(w, d[2])
        BY <1>1, HandshakeIsRead
      <3>4. c[2] = d[2]
        BY <3>2, <3>3 DEF Got
      <3>5. \E t, u : /\ read_utf8_string(packet, c[2]) = Got(t, c[3])
                      /\ read_utf8_string(packet, d[2]) = Got(u, d[3])
        BY <1>1, HandshakeIsRead
      <3>6. c[3] = d[3]
        BY <3>4, <3>5 DEF Got
      <3>7. c[4] = d[4]
        BY <3>1, <3>6 DEF Got
      <3>8. \A i \in 1..4 : c[i] = d[i]
        BY <3>2, <3>4, <3>6, <3>7
      <3> QED BY <3>1, <3>8
    <2>3. h.ok => Handshakes # {}
      BY <1>1, ReadIsHandshake
    <2> QED BY <2>1, <2>2, <2>3 DEF HandshakeExact
  <1> QED BY <1>1, PacketIsBytes, PTL

-----------------------------------------------------------------------------
(***************************************************************************)
(* Login starts.                                                           *)
(***************************************************************************)

\* Each continuation byte of a text follows a lead byte, so that a text has
\* at most two bytes for each UTF-16 unit.
LEMMA TextIsShort ==
    ASSUME NEW s \in Seq(Byte), from_utf8_ok(s)
    PROVE  /\ encode_utf16_count(s) \in Nat
           /\ Len(s) <= 2 * encode_utf16_count(s)
  <1> DEFINE L == Len(s)
             I == 1..L
             C == {i \in I : IsContinuation(s[i])}
             N == {i \in I : ~IsContinuation(s[i])}
             f == [i \in C |-> i - 1]
  <1>1. L \in Nat /\ 1 \in Int /\ L \in Int
    BY LenProperties
  <1>2. IsFiniteSet(I) /\ Cardinality(I) = L
    <2>1. /\ IsFiniteSet(1..L)
          /\ Cardinality(1..L) = IF 1 > L THEN 0 ELSE L - 1 + 1
      BY <1>1, FS_Interval
    <2> QED BY <1>1, <2>1
  <1>3. I = C \cup N /\ C \cap N = {} /\ C \in SUBSET I /\ N \in SUBSET I
    OBVIOUS
  <1>4. ASSUME NEW i \in C PROVE i - 1 \in N
    <2>1. i \in 1..L /\ IsContinuation(s[i])
      OBVIOUS
    <2>2. i > 1 /\ IsLead(s[i - 1])
      BY <2>1 DEF from_utf8_ok
    <2>3. i - 1 \in 1..L
      BY <1>1, <2>1, <2>2
    <2>4. s[i - 1] \in Byte
      BY <2>3, ElementOfSeq
    <2>5. s[i - 1] \in Int /\ G + G \div 2 \in Int
      BY <2>4, BitsAre, GAssumption
    <2>6. ~IsContinuation(s[i - 1])
      BY <2>2, <2>5 DEF IsLead, IsContinuation
    <2> QED BY <2>3, <2>6
  <1>5. C \subseteq Int
    BY <1>1
  <1>6. encode_utf16_count(s) = Cardinality(N)
    BY DEF encode_utf16_count
  <1>7. \A i \in C : f[i] = i - 1
    OBVIOUS
  <1>8. f \in [C -> N]
    BY <1>4
  <1> HIDE DEF I, C, N, f
  <1>9. f \in Injection(C, N)
    <2>1. ASSUME NEW i \in C, NEW j \in C, f[i] = f[j] PROVE i = j
      <3>1. i \in Int /\ j \in Int /\ i - 1 = j - 1
        BY <1>5, <1>7, <2>1
      <3> QED BY <3>1
    <2> QED BY <1>8, <2>1 DEF Injection, IsInjective
  <1>10. IsFiniteSet(C) /\ IsFiniteSet(N)
    BY <1>2, <1>3, FS_Subset
  <1>11. Cardinality(C) \in Nat /\ Cardinality(N) \in Nat
    BY <1>10, FS_CardinalityType
  <1>12. Cardinality(C) <= Cardinality(N)
    BY <1>9, <1>10, FS_Injection
  <1>13. Cardinality(I) = Cardinality(C) + Cardinality(N)
    <2>1. Cardinality(C \cup N)
             = Cardinality(C) + Cardinality(N) - Cardinality(C \cap N)
      BY <1>10, FS_Union
    <2>2. Cardinality(C \cap N) = 0
      BY <1>3, FS_EmptySet
    <2>3. Cardinality(I) = Cardinality(C \cup N)
      BY <1>3
    <2> QED BY <1>11, <2>1, <2>2, <2>3
  <1> QED BY <1>1, <1>2, <1>6, <1>11, <1>12, <1>13

\* A text after its length is read.
LEMMA ReadTextAt ==
    ASSUME NEW s \in Seq(Byte), 2 * Len(s) < Width,
           NEW at \in 0..Len(s), NEW k \in at..Len(s), NEW e \in k..Len(s),
           Encodes(SubSeq(s, at + 1, k), e - k),
           from_utf8_ok(SubSeq(s, k + 1, e))
    PROVE  read_utf8_string(s, at) = Got(SubSeq(s, k + 1, e), e)
  <1> DEFINE text == SubSeq(s, k + 1, e)
  <1>1. Len(s) \in Nat /\ k \in Nat /\ e \in Nat /\ k <= e /\ e <= Len(s)
        /\ e - k \in Nat /\ k + (e - k) = e
    BY LenProperties
  <1>2. e - k \in Values
    <2>1. 2 * (e - k) < Width
      BY <1>1, WidthIs
    <2> QED BY <1>1, <2>1, ValuesAre
  <1>3. read_varint(s, at) = Got(e - k, k)
    BY <1>2, ReadAt
  <1>4. read_bytes(s, k, e - k) = Got(text, e)
    BY <1>1 DEF read_bytes
  <1>5. from_utf8_ok(text)
    OBVIOUS
  <1> HIDE DEF text
  <1>6. read_utf8_string(s, at) = Got(text, e)
    BY <1>1, <1>3, <1>4, <1>5, GotIs DEF read_utf8_string
  <1> QED BY <1>6 DEF text

\* The check of the bytes refuses no text the check of the units lets through.
LEMMA ReadStringIs ==
    ASSUME NEW s \in Seq(Byte), NEW at \in 0..Len(s), NEW units \in Nat
    PROVE  LET text == read_utf8_string(s, at)
           IN read_string(s, at, units) =
                 IF text.ok /\ encode_utf16_count(text.value) <= units
                 THEN text ELSE Failed
  <1> DEFINE text == read_utf8_string(s, at)
  <1>1. read_string(s, at, units) =
           IF /\ text.ok
              /\ Len(text.value) <= units * 3
              /\ encode_utf16_count(text.value) <= units
           THEN text ELSE Failed
    BY DEF read_string
  <1>2. ASSUME text.ok, encode_utf16_count(text.value) <= units
        PROVE  Len(text.value) <= units * 3
    <2>1. PICK k \in at..text.at : /\ text.at \in (at + 1)..Len(s)
                                   /\ text.value = SubSeq(s, k + 1, text.at)
                                   /\ from_utf8_ok(text.value)
      BY <1>2, ReadTextIs
    <2>2. Len(s) \in Nat
      BY LenProperties
    <2> HIDE DEF text
    <2>3. k \in 0..Len(s) /\ text.at \in k..Len(s)
      BY <2>1, <2>2
    <2>4. text.value \in Seq(Byte)
      BY <2>1, <2>3, Cut
    <2>5. /\ encode_utf16_count(text.value) \in Nat
          /\ Len(text.value) <= 2 * encode_utf16_count(text.value)
          /\ Len(text.value) \in Nat
      BY <2>1, <2>4, TextIsShort, LenProperties
    <2> QED BY <1>2, <2>5
  <1> HIDE DEF text
  <1>3. read_string(s, at, units) =
           IF text.ok /\ encode_utf16_count(text.value) <= units
           THEN text ELSE Failed
    BY <1>1, <1>2
  <1> QED BY <1>3 DEF text

LEMMA EmptyIs ==
    ASSUME NEW s \in Seq(Byte)
    PROVE  s = <<>> <=> Len(s) = 0
  <1>1. Len(<<>>) = 0 /\ (s # <<>> => Len(s) \in Nat \ {0})
    BY EmptySeq
  <1> QED BY <1>1

\* Bytes one after the other.
LEMMA Joined ==
    ASSUME NEW s \in Seq(Byte), NEW t \in Seq(Byte)
    PROVE  /\ s \o t \in Seq(Byte) /\ Len(s \o t) = Len(s) + Len(t)
           /\ Len(s) \in Nat /\ Len(t) \in Nat
           /\ \A i \in 1..Len(s) : (s \o t)[i] = s[i]
           /\ \A i \in 1..Len(t) : (s \o t)[Len(s) + i] = t[i]
  <1> DEFINE st == s \o t
  <1>1. /\ st \in Seq(Byte) /\ Len(st) = Len(s) + Len(t)
        /\ \A i \in 1..(Len(s) + Len(t)) :
              st[i] = IF i <= Len(s) THEN s[i] ELSE t[i - Len(s)]
    BY ConcatProperties
  <1>2. Len(s) \in Nat /\ Len(t) \in Nat
    BY LenProperties
  <1> HIDE DEF st
  <1>3. \A i \in 1..Len(s) : st[i] = s[i]
    BY <1>1, <1>2
  <1>4. ASSUME NEW i \in 1..Len(t) PROVE st[Len(s) + i] = t[i]
    <2>1. Len(s) + i \in 1..(Len(s) + Len(t)) /\ ~(Len(s) + i <= Len(s))
          /\ (Len(s) + i) - Len(s) = i
      BY <1>2
    <2> QED BY <1>1, <2>1
  <1> QED BY <1>1, <1>2, <1>3, <1>4 DEF st

\* What follows the username is read to the packet's end exactly when it is
\* what the layout sends there.
LEMMA UuidIsRead ==
    ASSUME NEW s \in Seq(Byte), NEW k \in 0..Len(s), NEW layout \in InitialProtocol
    PROVE  LET uuid == read_uuid(s, k, layout)
           IN (uuid.ok /\ uuid.at = Len(s)) <=>
                 SubSeq(s, k + 1, Len(s)) \in Uuids(layout)
  <1> DEFINE L == Len(s)
             rest == SubSeq(s, k + 1, L)
             n == UuidBytes
             U == [1..n -> Byte]
             one == SubSeq(s, k + 1, k + 1)
             last == SubSeq(s, k + 2, L)
             uuid == read_uuid(s, k, layout)
  <1>1. L \in Nat /\ k \in Nat /\ k <= L /\ n \in Nat /\ L \in k..L
    BY LenProperties, SizesAssumption
  <1>2. rest \in Seq(Byte) /\ Len(rest) = L - k
        /\ \A i \in 1..(L - k) : rest[i] = s[k + i]
    BY <1>1, Cut
  <1>3. rest \in [1..(L - k) -> Byte]
    BY <1>2, LenProperties
  <1>4. 0 \in Byte /\ 1 \in Byte
    BY GAssumption DEF Byte
  <1>5. rest \in U <=> n = L - k
    <2>1. ASSUME rest \in U PROVE n = L - k
      <3>1. DOMAIN rest = 1..n /\ DOMAIN rest = 1..(L - k)
        BY <1>3, <2>1
      <3>2. Len(rest) = n
        BY <1>1, <2>1
      <3> QED BY <1>2, <3>2
    <2> QED BY <1>3, <2>1
  <1>6. CASE layout = "NoUuid"
    <2>1. uuid = Got(<<>>, k)
      BY <1>6 DEF read_uuid
    <2>2. Uuids(layout) = {<<>>}
      BY <1>6 DEF Uuids
    <2> HIDE DEF uuid, rest
    <2>3. rest = <<>> <=> k = L
      <3>1. L - k = 0 <=> k = L
        BY <1>1
      <3>2. rest = <<>> <=> Len(rest) = 0
        BY <1>2, EmptyIs
      <3> QED BY <1>2, <3>1, <3>2
    <2>4. (uuid.ok /\ uuid.at = L) <=> rest \in Uuids(layout)
      BY <2>1, <2>2, <2>3, GotIs
    <2> QED BY <2>4 DEF uuid, rest
  <1>7. CASE layout \notin {"NoUuid", "OptionalUuid"}
    <2>1. uuid = IF k + n <= L THEN Got(SubSeq(s, k + 1, k + n), k + n) ELSE Failed
      BY <1>7 DEF read_uuid, read_bytes
    <2>2. Uuids(layout) = U
      BY <1>7 DEF Uuids
    <2> HIDE DEF uuid, rest, U
    <2>3. (uuid.ok /\ uuid.at = L) <=> k + n = L
      BY <1>1, <2>1, GotIs DEF Failed
    <2>4. rest \in Uuids(layout) <=> k + n = L
      BY <1>1, <1>5, <2>2
    <2> QED BY <2>3, <2>4 DEF uuid, rest
  <1>8. CASE layout = "OptionalUuid"
    <2> DEFINE present == read_bytes(s, k, 1)
    <2>1. present = IF k + 1 <= L THEN Got(one, k + 1) ELSE Failed
      BY DEF read_bytes
    <2>2. uuid = IF present.ok /\ present.value = <<0>> THEN present
                 ELSE IF present.ok /\ present.value = <<1>>
                      THEN read_bytes(s, present.at, n)
                 ELSE Failed
      BY <1>8 DEF read_uuid
    <2>3. Uuids(layout) = {<<0>>} \cup {<<1>> \o u : u \in U}
      BY <1>8 DEF Uuids
    <2> HIDE DEF uuid, present
    <2>4. CASE k = L
      <3>1. rest = <<>>
        BY <1>1, <1>2, <2>4, EmptyIs
      <3>2. ~uuid.ok
        BY <1>1, <2>1, <2>2, <2>4 DEF Failed
      <3>3. <<>> # <<0>> /\ \A u \in U : <<>> # <<1>> \o u
        <4> SUFFICES ASSUME NEW u \in U PROVE <<>> # <<1>> \o u
          OBVIOUS
        <4> DEFINE w == <<1>>
        <4>1. u \in Seq(Byte) /\ w \in Seq(Byte) /\ Len(w) = 1 /\ Len(u) \in Nat
          BY <1>1, <1>4
        <4> HIDE DEF w
        <4>2. w \o u \in Seq(Byte) /\ Len(w \o u) = Len(w) + Len(u)
          BY <4>1, Joined
        <4>3. w \o u # <<>>
          <5>1. Len(w \o u) # 0
            BY <4>1, <4>2
          <5> QED BY <4>2, <5>1, EmptyIs
        <4> QED BY <4>3 DEF w
      <3>4. rest \notin Uuids(layout)
        BY <2>3, <3>1, <3>3
      <3> QED BY <3>2, <3>4 DEF uuid
    <2>5. CASE k # L
      <3>1. k + 1 \in k..L /\ k + 1 \in 0..L /\ L \in (k + 1)..L /\ (k + 1) - k = 1
            /\ 1 \in 1..(L - k)
        BY <1>1, <2>5
      <3>2. /\ one \in Seq(Byte) /\ Len(one) = 1 /\ one[1] = s[k + 1]
        <4>1. /\ one \in Seq(Byte) /\ Len(one) = (k + 1) - k
              /\ \A i \in 1..((k + 1) - k) : one[i] = s[k + i]
          BY <3>1, Cut
        <4> HIDE DEF one
        <4> QED BY <3>1, <4>1
      <3>3. last \in Seq(Byte) /\ Len(last) = L - (k + 1)
            /\ \A i \in 1..(L - (k + 1)) : last[i] = s[(k + 1) + i]
        <4>1. (k + 1) + 1 = k + 2
          BY <1>1
        <4> QED BY <3>1, <4>1, Cut
      <3> HIDE DEF one, last, rest
      <3>4. present.ok /\ present.value = one /\ present.at = k + 1
        <4>1. present = Got(one, k + 1)
          BY <1>1, <2>1, <2>5
        <4> QED BY <4>1, GotIs
      <3>5. \A b \in Byte : one = <<b>> <=> s[k + 1] = b
        <4> SUFFICES ASSUME NEW b \in Byte PROVE one = <<b>> <=> s[k + 1] = b
          OBVIOUS
        <4>1. <<b>> \in Seq(Byte) /\ Len(<<b>>) = 1 /\ <<b>>[1] = b
          OBVIOUS
        <4> DEFINE w == <<b>>
        <4>2. w \in Seq(Byte) /\ Len(w) = 1 /\ w[1] = b
          BY <4>1
        <4> HIDE DEF w
        <4>3. one[1] = w[1] => one = w
          BY <3>2, <4>2, SeqEqual
        <4> QED BY <3>2, <4>2, <4>3 DEF w
      <3>6. rest = <<0>> <=> s[k + 1] = 0 /\ k + 1 = L
        <4> DEFINE w == <<0>>
        <4>1. w \in Seq(Byte) /\ Len(w) = 1 /\ w[1] = 0
          BY <1>4
        <4> HIDE DEF w
        <4>2. rest[1] = s[k + 1] /\ Len(rest) = L - k
          BY <1>2, <3>1
        <4>3. Len(rest) = 1 /\ rest[1] = 0 => rest = w
          BY <1>2, <4>1, SeqEqual
        <4>4. rest = w => s[k + 1] = 0 /\ L - k = 1
          BY <1>2, <4>1, <4>2
        <4>5. L - k = 1 <=> k + 1 = L
          BY <1>1
        <4> HIDE DEF L
        <4> QED BY <4>2, <4>3, <4>4, <4>5 DEF w
      <3>7. (\E u \in U : rest = <<1>> \o u) <=> s[k + 1] = 1 /\ k + 1 + n = L
        <4> DEFINE w == <<1>>
        <4>1. w \in Seq(Byte) /\ Len(w) = 1 /\ w[1] = 1
          BY <1>4
        <4> HIDE DEF w
        <4>2. ASSUME NEW u \in U, rest = w \o u
              PROVE  s[k + 1] = 1 /\ k + 1 + n = L
          <5>1. u \in Seq(Byte) /\ Len(u) = n
            BY <1>1
          <5> HIDE DEF U
          <5>2. /\ Len(w \o u) = Len(w) + Len(u)
                /\ \A i \in 1..Len(w) : (w \o u)[i] = w[i]
            BY <4>1, <5>1, Joined
          <5>3. (w \o u)[1] = 1
            <6>1. 1 \in 1..Len(w)
              BY <4>1
            <6> QED BY <4>1, <5>2, <6>1
          <5>4. rest[1] = 1 /\ Len(rest) = 1 + n
            BY <4>1, <4>2, <5>1, <5>2, <5>3
          <5>5. rest[1] = s[k + 1]
            <6>1. 1 \in 1..(L - k)
              BY <3>1
            <6> QED BY <1>2, <6>1
          <5>6. L - k = 1 + n
            BY <1>2, <5>4
          <5> QED BY <1>1, <5>4, <5>5, <5>6
        <4>3. ASSUME s[k + 1] = 1, k + 1 + n = L
              PROVE  \E u \in U : rest = w \o u
          <5>1. last \in U
            <6>1. L - (k + 1) = n
              BY <1>1, <4>3
            <6>2. last \in [1..Len(last) -> Byte]
              BY <3>3, LenProperties
            <6> QED BY <3>3, <6>1, <6>2
          <5> DEFINE wl == w \o last
          <5>2. /\ wl \in Seq(Byte) /\ Len(wl) = Len(w) + Len(last)
                /\ \A i \in 1..Len(w) : wl[i] = w[i]
                /\ \A i \in 1..Len(last) : wl[Len(w) + i] = last[i]
            BY <3>3, <4>1, Joined
          <5> HIDE DEF wl
          <5>3. ASSUME NEW i \in 1..(L - k) PROVE rest[i] = wl[i]
            <6>1. rest[i] = s[k + i]
              BY <1>2
            <6>2. CASE i = 1
              <7>1. 1 \in 1..Len(w)
                BY <4>1
              <7> QED BY <4>1, <4>3, <5>2, <6>1, <6>2, <7>1
            <6>3. CASE i # 1
              <7>1. /\ i - 1 \in 1..(L - (k + 1)) /\ (k + 1) + (i - 1) = k + i
                    /\ Len(w) + (i - 1) = i
                BY <1>1, <4>1, <6>3
              <7>2. last[i - 1] = s[k + i] /\ i - 1 \in 1..Len(last)
                BY <3>3, <7>1
              <7> QED BY <5>2, <6>1, <7>1, <7>2
            <6> QED BY <6>2, <6>3
          <5>4. rest = w \o last
            <6>1. Len(rest) = Len(wl) /\ Len(rest) = L - k
              BY <1>1, <1>2, <3>3, <4>1, <5>2
            <6>2. rest = wl
              BY <1>2, <5>2, <5>3, <6>1, SeqEqual
            <6> QED BY <6>2 DEF wl
          <5> QED BY <5>1, <5>4
        <4> QED BY <4>2, <4>3 DEF w
      <3>8. rest \in Uuids(layout) <=> \/ s[k + 1] = 0 /\ k + 1 = L
                                       \/ s[k + 1] = 1 /\ k + 1 + n = L
        BY <2>3, <3>6, <3>7
      <3>9. (uuid.ok /\ uuid.at = L) <=> \/ s[k + 1] = 0 /\ k + 1 = L
                                         \/ s[k + 1] = 1 /\ k + 1 + n = L
        <4>1. one = <<0>> <=> s[k + 1] = 0
          BY <1>4, <3>5
        <4>2. one = <<1>> <=> s[k + 1] = 1
          BY <1>4, <3>5
        <4>3. CASE s[k + 1] = 0
          BY <2>2, <3>4, <4>1, <4>3
        <4>4. CASE s[k + 1] = 1
          <5>1. uuid = read_bytes(s, k + 1, n)
            BY <2>2, <3>4, <4>1, <4>2, <4>4
          <5>2. (uuid.ok /\ uuid.at = L) <=> k + 1 + n = L
            BY <1>1, <5>1, GotIs DEF read_bytes, Failed
          <5> QED BY <4>4, <5>2
        <4>5. CASE s[k + 1] \notin {0, 1}
          BY <2>2, <3>4, <4>1, <4>2, <4>5 DEF Failed
        <4> QED BY <4>3, <4>4, <4>5
      <3> QED BY <3>8, <3>9 DEF uuid, rest
    <2> QED BY <2>4, <2>5
  <1> QED BY <1>6, <1>7, <1>8

\* A cut of the packet into an id, a name's length, the name and the rest.
LoginStartCut(layout, i, j, k) ==
    /\ i < j /\ j < k
    /\ Encodes(Piece(0, i), 0)
    /\ Encodes(Piece(i, j), k - j)
    /\ from_utf8_ok(Piece(j, k))
    /\ encode_utf16_count(Piece(j, k)) <= NameUnits
    /\ Piece(k, Len(packet)) \in Uuids(layout)

LEMMA LoginStartIsRead ==
    ASSUME PacketInv, NEW layout \in InitialProtocol, NEW i \in 0..Len(packet),
           NEW j \in 0..Len(packet), NEW k \in 0..Len(packet),
           LoginStartCut(layout, i, j, k)
    PROVE  parse_login_start(packet, layout)
  <1> DEFINE s == packet
             L == Len(s)
             id == read_varint(s, 0)
             username == read_string(s, id.at, NameUnits)
             uuid == read_uuid(s, username.at, layout)
             name == SubSeq(s, j + 1, k)
  <1>1. s \in Seq(Byte) /\ L \in Nat /\ 2 * Len(s) < Width
    BY PacketIsShort
  <1>2. \A a, b : Piece(a, b) = SubSeq(s, a + 1, b)
    BY DEF Piece
  <1>3. /\ i < j /\ j < k
        /\ Encodes(SubSeq(s, 0 + 1, i), 0)
        /\ Encodes(SubSeq(s, i + 1, j), k - j)
        /\ from_utf8_ok(name) /\ encode_utf16_count(name) <= NameUnits
        /\ SubSeq(s, k + 1, Len(s)) \in Uuids(layout)
    BY <1>2 DEF LoginStartCut
  <1>4. parse_login_start(s, layout) <=>
           /\ id.ok /\ id.value = 0
           /\ username.ok /\ username.value # <<>>
           /\ uuid.ok /\ uuid.at = Len(s)
    BY DEF parse_login_start
  <1>5. /\ username = read_string(s, id.at, NameUnits)
        /\ uuid = read_uuid(s, username.at, layout)
        /\ id = read_varint(s, 0)
    OBVIOUS
  <1>6. NameUnits \in Nat
    BY SizesAssumption
  <1> HIDE DEF s, id, username, uuid
  <1>7. /\ 0 \in 0..L /\ i \in 0..L /\ j \in i..L /\ k \in j..L /\ j \in 0..L
        /\ k \in 0..L
    BY <1>1, <1>3 DEF s
  <1>8. id = Got(0, i)
    BY <1>1, <1>3, <1>5, <1>7, ValuesAre, ReadAt
  <1>9. read_utf8_string(s, i) = Got(name, k)
    BY <1>1, <1>3, <1>7, ReadTextAt
  <1>10. name # <<>>
    <2>1. name \in Seq(Byte) /\ Len(name) = k - j
      BY <1>1, <1>7, Cut
    <2>2. k - j # 0
      BY <1>1, <1>3, <1>7
    <2> HIDE DEF name
    <2> QED BY <2>1, <2>2, EmptyIs
  <1> HIDE DEF name
  <1>11. username = Got(name, k)
    <2>1. id.at = i
      BY <1>8, GotIs
    <2>2. username = IF /\ read_utf8_string(s, i).ok
                        /\ encode_utf16_count(read_utf8_string(s, i).value) <= NameUnits
                     THEN read_utf8_string(s, i) ELSE Failed
      BY <1>1, <1>5, <1>6, <1>7, <2>1, ReadStringIs
    <2> QED BY <1>3, <1>9, <2>2, GotIs
  <1>12. uuid.ok /\ uuid.at = Len(s)
    <2>1. uuid = read_uuid(s, k, layout)
      BY <1>5, <1>11, GotIs
    <2> QED BY <1>1, <1>3, <1>7, <2>1, UuidIsRead
  <1>13. parse_login_start(s, layout)
    BY <1>4, <1>8, <1>10, <1>11, <1>12, GotIs
  <1> QED BY <1>13 DEF s

LEMMA ReadIsLoginStart ==
    ASSUME PacketInv, NEW layout \in InitialProtocol,
           parse_login_start(packet, layout)
    PROVE  \E i, j, k \in 0..Len(packet) : LoginStartCut(layout, i, j, k)
  <1> DEFINE s == packet
             L == Len(s)
             id == read_varint(s, 0)
             username == read_string(s, id.at, NameUnits)
             uuid == read_uuid(s, username.at, layout)
             text == read_utf8_string(s, id.at)
  <1>1. s \in Seq(Byte) /\ L \in Nat
    BY PacketIsShort
  <1>2. \A a, b : Piece(a, b) = SubSeq(s, a + 1, b)
    BY DEF Piece
  <1>3. /\ id.ok /\ id.value = 0
        /\ username.ok /\ username.value # <<>>
        /\ uuid.ok /\ uuid.at = Len(s)
    BY DEF parse_login_start
  <1>4. /\ username = read_string(s, id.at, NameUnits)
        /\ uuid = read_uuid(s, username.at, layout)
        /\ id = read_varint(s, 0) /\ text = read_utf8_string(s, id.at)
    OBVIOUS
  <1>5. NameUnits \in Nat /\ 0 \in 0..L
    BY <1>1, SizesAssumption
  <1> HIDE DEF id, username, uuid, text
  <1>6. id.at \in (0 + 1)..L /\ Encodes(SubSeq(s, 0 + 1, id.at), 0)
    BY <1>1, <1>3, <1>4, <1>5, ReadEncodes
  <1>7. id.at \in 0..L /\ id.at \in Nat
    BY <1>1, <1>6
  <1>8. username = IF text.ok /\ encode_utf16_count(text.value) <= NameUnits
                   THEN text ELSE Failed
    BY <1>1, <1>4, <1>5, <1>7, ReadStringIs
  <1>9. username = text /\ text.ok /\ encode_utf16_count(text.value) <= NameUnits
    BY <1>3, <1>8 DEF Failed
  <1>10. PICK k \in id.at..text.at :
            /\ text.at \in (id.at + 1)..Len(s)
            /\ k > id.at /\ Encodes(SubSeq(s, id.at + 1, k), text.at - k)
            /\ text.value = SubSeq(s, k + 1, text.at)
            /\ from_utf8_ok(text.value)
    BY <1>1, <1>4, <1>7, <1>9, ReadTextIs
  <1>11. /\ k \in 0..L /\ text.at \in 0..L /\ text.at \in k..L
         /\ id.at < k /\ k <= text.at /\ text.at \in Nat /\ k \in Nat
    BY <1>1, <1>7, <1>10
  <1>12. k < text.at
    <2>1. text.value \in Seq(Byte) /\ Len(text.value) = text.at - k
      BY <1>1, <1>10, <1>11, Cut
    <2>2. text.at - k # 0
      BY <1>3, <1>9, <2>1, EmptyIs
    <2> QED BY <1>11, <2>2
  <1>13. SubSeq(s, text.at + 1, Len(s)) \in Uuids(layout)
    BY <1>1, <1>3, <1>4, <1>9, <1>11, UuidIsRead
  <1>14. LoginStartCut(layout, id.at, k, text.at)
    BY <1>2, <1>6, <1>9, <1>10, <1>11, <1>12, <1>13 DEF LoginStartCut
  <1> QED BY <1>7, <1>11, <1>14

\* A login start is accepted exactly when it is an id, a name of one to
\* NameUnits characters and what the release's layout appends to it: no client
\* gets past parse_login_start with another packet, and none that keeps to the
\* protocol is refused.
THEOREM LoginStartIsExact == Spec => []LoginStartExact
  <1>1. ASSUME PacketInv PROVE LoginStartExact
    <2>1. ASSUME NEW layout \in InitialProtocol
          PROVE  parse_login_start(packet, layout) <=>
                    \E i, j, k \in 0..Len(packet) : LoginStartCut(layout, i, j, k)
      BY <1>1, LoginStartIsRead, ReadIsLoginStart
    <2> QED BY <2>1 DEF LoginStartExact, LoginStartCut
  <1> QED BY <1>1, PacketIsBytes, PTL

-----------------------------------------------------------------------------
(***************************************************************************)
(* Frames.                                                                 *)
(***************************************************************************)

\* The bytes a sequence was joined from are cut out of it.
LEMMA JoinedCut ==
    ASSUME NEW s \in Seq(Byte), NEW t \in Seq(Byte)
    PROVE  /\ SubSeq(s \o t, 0 + 1, Len(s)) = s
           /\ SubSeq(s \o t, Len(s) + 1, Len(s) + Len(t)) = t
  <1> DEFINE st == s \o t
             L == Len(s)
             M == Len(t)
             a == SubSeq(st, 0 + 1, L)
             b == SubSeq(st, L + 1, L + M)
  <1>1. /\ st \in Seq(Byte) /\ Len(st) = L + M /\ L \in Nat /\ M \in Nat
        /\ \A i \in 1..L : st[i] = s[i]
        /\ \A i \in 1..M : st[L + i] = t[i]
    BY Joined
  <1> HIDE DEF st, L, M
  <1>2. 0 \in 0..Len(st) /\ L \in 0..Len(st) /\ L + M \in L..Len(st)
    BY <1>1
  <1>3. a \in Seq(Byte) /\ Len(a) = L - 0 /\ \A i \in 1..(L - 0) : a[i] = st[0 + i]
    BY <1>1, <1>2, Cut
  <1>4. /\ b \in Seq(Byte) /\ Len(b) = (L + M) - L
        /\ \A i \in 1..((L + M) - L) : b[i] = st[L + i]
    BY <1>1, <1>2, Cut
  <1> HIDE DEF a, b
  <1>5. a \in Seq(Byte) /\ Len(a) = L /\ \A i \in 1..L : a[i] = s[i]
    BY <1>1, <1>3
  <1>6. b \in Seq(Byte) /\ Len(b) = M /\ \A i \in 1..M : b[i] = t[i]
    <2>1. (L + M) - L = M
      BY <1>1
    <2> QED BY <1>1, <1>4, <2>1
  <1>7. a = s
    BY <1>5, SeqEqual DEF L
  <1>8. b = t
    BY <1>6, SeqEqual DEF M
  <1> QED BY <1>7, <1>8 DEF a, b, st, L, M

Associate(s, t, u) == (s \o t) \o u = s \o (t \o u)

LEMMA JoinedTwice ==
    ASSUME NEW s \in Seq(Byte), NEW t \in Seq(Byte), NEW u \in Seq(Byte)
    PROVE  Associate(s, t, u)
  BY ConcatAssociative DEF Associate

\* How long the encoding of a packet's length is.
LEMMA LengthIs ==
    ASSUME NEW n \in Nat, n >= 1, n < Place[LengthGroups]
    PROVE  /\ n \in Values /\ ToUnsigned(n) = n /\ 2 * n < Width
           /\ varint_size(n) \in 1..LengthGroups /\ LengthGroups \in Nat
  <1>1. LengthGroups \in Nat /\ 2 * Place[LengthGroups] <= Width
        /\ Place[LengthGroups] \in Nat /\ Width \in Nat /\ Groups \in Nat
    BY LengthAssumption, PlaceRule, WidthIs
  <1>2. n \in Values /\ ToUnsigned(n) = n /\ 2 * n < Width
    BY <1>1, ValuesAre DEF ToUnsigned
  <1> DEFINE k == varint_size(n)
  <1>3. k \in 1..Groups /\ (k = 1 \/ n >= Place[k - 1])
    BY <1>2, SizeIs
  <1> HIDE DEF k
  <1>4. ASSUME k > LengthGroups PROVE FALSE
    <2>1. k - 1 \in Nat /\ LengthGroups <= k - 1
      BY <1>1, <1>3, <1>4
    <2>2. Place[LengthGroups] <= Place[k - 1] /\ Place[k - 1] \in Nat
      BY <1>1, <2>1, PlaceGrows
    <2>3. k = 1
      BY <1>1, <1>3, <2>2
    <2>4. LengthGroups = 0 /\ Place[0] = 1
      BY <1>1, <2>1, <2>3, PlaceRule
    <2> QED BY <2>4
  <1>5. k \in 1..LengthGroups
    BY <1>1, <1>3, <1>4
  <1> QED BY <1>1, <1>2, <1>5 DEF k

\* A frame is whole when all of it is read and goes on before that.
LEMMA FrameIsRead ==
    ASSUME NEW body \in Seq(Byte), Len(body) >= 1, Len(body) < Place[LengthGroups],
           NEW n \in 0..(varint_size(Len(body)) + Len(body))
    PROVE  LET frame == write_varint(Len(body)) \o body
           IN /\ Len(frame) = varint_size(Len(body)) + Len(body)
              /\ Framing(SubSeq(frame, 1, n), MaxPacketLength)
                    = IF n < Len(frame) THEN "partial" ELSE "whole"
              /\ LastGroup(frame, LengthGroups) = varint_size(Len(body))
              /\ Body(frame) = body /\ frame \in Seq(Byte)
  <1> DEFINE K == Len(body)
             m == varint_size(K)
             w == write_varint(K)
             frame == w \o body
             p == SubSeq(frame, 0 + 1, n)
  <1>1. K \in Nat /\ K >= 1 /\ K < Place[LengthGroups]
    BY LenProperties
  <1>2. /\ K \in Values /\ ToUnsigned(K) = K
        /\ m \in 1..LengthGroups /\ LengthGroups \in Nat
    BY <1>1, LengthIs
  <1>3. m \in Nat /\ m >= 1 /\ m <= LengthGroups
    BY <1>2
  <1>4. w \in Seq(Byte) /\ Len(w) = m /\ Encodes(w, K)
    BY <1>2, WriteEncodes
  <1>5. n \in 0..(m + K)
    OBVIOUS
  <1>6. p = SubSeq(frame, 0 + 1, n) /\ SubSeq(frame, 1, n) = p
    OBVIOUS
  <1> HIDE DEF K, m, w
  <1>7. /\ frame \in Seq(Byte) /\ Len(frame) = m + K
        /\ \A i \in 1..m : frame[i] = w[i]
    <2>1. /\ frame \in Seq(Byte) /\ Len(frame) = Len(w) + Len(body)
          /\ \A i \in 1..Len(w) : frame[i] = w[i]
      BY <1>4, Joined
    <2> QED BY <1>4, <2>1 DEF K
  <1>8. Body(frame) = SubSeq(frame, LastGroup(frame, LengthGroups) + 1, m + K)
    BY <1>7 DEF Body, Rest
  <1>9. SubSeq(frame, m + 1, m + K) = body
    <2>1. SubSeq(w \o body, Len(w) + 1, Len(w) + Len(body)) = body
      BY <1>4, JoinedCut
    <2> QED BY <1>4, <2>1 DEF K
  <1> HIDE DEF frame, p
  <1>10. 0 \in 0..Len(frame) /\ n \in 0..Len(frame) /\ n \in Nat
    BY <1>1, <1>3, <1>5, <1>7
  <1>11. p \in Seq(Byte) /\ Len(p) = n /\ \A i \in 1..n : p[i] = frame[i]
    <2>1. /\ SubSeq(frame, 0 + 1, n) \in Seq(Byte)
          /\ Len(SubSeq(frame, 0 + 1, n)) = n - 0
          /\ \A i \in 1..(n - 0) : SubSeq(frame, 0 + 1, n)[i] = frame[0 + i]
      BY <1>7, <1>10, Cut
    <2> QED BY <1>6, <1>10, <2>1
  <1>12. /\ Ends(w, m) /\ Sums(w)[m] = K
    BY <1>2, <1>4, EncodesIs
  <1>13. m \in 1..m /\ ~More(w[m]) /\ \A i \in 1..(m - 1) : More(w[i]) /\ i \in 1..m
    BY <1>3, <1>12 DEF Ends
  <1>14. ASSUME NEW s \in Seq(Byte), m <= Len(s), \A i \in 1..m : s[i] = w[i]
         PROVE  LastGroup(s, LengthGroups) = m
    <2>1. Len(s) \in Nat
      BY LenProperties
    <2>2. Ends(s, m)
      BY <1>3, <1>13, <1>14, <2>1 DEF Ends
    <2> QED BY <1>2, <2>2, LastGroupIs
  <1>15. LastGroup(frame, LengthGroups) = m
    <2>1. m <= Len(frame)
      BY <1>1, <1>3, <1>7
    <2> QED BY <1>7, <1>14, <2>1
  <1>16. CASE n < m
    <2>1. \A i \in 1..n : More(p[i])
      <3> SUFFICES ASSUME NEW i \in 1..n PROVE More(p[i])
        OBVIOUS
      <3>1. i \in 1..m /\ i \in 1..(m - 1)
        BY <1>3, <1>10, <1>16
      <3> QED BY <1>7, <1>11, <1>13, <3>1
    <2>2. LastGroup(p, LengthGroups) = 0
      <3>1. \A x : ~Ends(p, x)
        BY <1>11, <2>1 DEF Ends
      <3> QED BY <1>2, <1>11, <3>1, LastGroupEnds
    <2>3. Framing(p, MaxPacketLength) = "partial"
      <3>1. Len(p) < LengthGroups
        BY <1>2, <1>3, <1>10, <1>11, <1>16
      <3> QED BY <2>2, <3>1 DEF Framing
    <2>4. n < Len(frame)
      BY <1>1, <1>3, <1>7, <1>10, <1>16
    <2> QED BY <1>6, <1>7, <1>8, <1>9, <1>15, <2>3, <2>4 DEF K, m, w, frame
  <1>17. CASE n >= m
    <2>1. LastGroup(p, LengthGroups) = m
      <3>1. m <= Len(p) /\ \A i \in 1..m : i \in 1..n
        BY <1>3, <1>10, <1>11, <1>17
      <3>2. \A i \in 1..m : p[i] = w[i]
        BY <1>7, <1>11, <3>1
      <3> QED BY <1>11, <1>14, <3>1, <3>2
    <2>2. Unsigned(SubSeq(p, 1, m)) = K
      <3>1. m \in 0..Len(p) /\ m <= Len(p) /\ m <= Len(w) /\ \A i \in 1..m : i \in 1..n
        BY <1>3, <1>4, <1>10, <1>11, <1>17
      <3>2. Unsigned(SubSeq(p, 1, m)) = Sums(p)[m]
        BY <1>11, <3>1, UnsignedPrefix
      <3>3. \A i \in 1..m : p[i] = w[i]
        BY <1>7, <1>11, <3>1
      <3>4. Sums(p)[m] = Sums(w)[m]
        BY <1>3, <1>4, <1>11, <3>1, <3>3, SumsAgree
      <3> QED BY <1>12, <3>2, <3>4
    <2>3. ~(K > MaxPacketLength)
      <3>1. Place[LengthGroups] \in Nat
        BY <1>2, PlaceRule
      <3> QED BY <1>1, <3>1 DEF MaxPacketLength
    <2>4. Framing(p, MaxPacketLength) = IF n < m + K THEN "partial" ELSE "whole"
      BY <1>3, <1>11, <2>1, <2>2, <2>3 DEF Framing
    <2> QED BY <1>6, <1>7, <1>8, <1>9, <1>15, <2>4 DEF K, m, w, frame
  <1> QED BY <1>3, <1>10, <1>16, <1>17

\* A string packet is the frame of an id, the string's length and the string.
LEMMA StringPacketIs ==
    ASSUME NEW s \in Seq(Byte), 2 * Len(s) < Width, from_utf8_ok(s)
    PROVE  LET body == write_varint(0) \o (write_varint(Len(s)) \o s)
               frame == encode_string_packet(0, s)
           IN /\ body \in Seq(Byte) /\ Len(body) = 1 + varint_size(Len(s)) + Len(s)
              /\ Len(body) \in Nat /\ Len(body) >= 1
              /\ frame # <<>> <=>
                    /\ encode_utf16_count(s) <= StringUnits
                    /\ Len(body) < Place[LengthGroups]
              /\ frame # <<>> => frame = write_varint(Len(body)) \o body
              /\ read_utf8_string(body, 1) = Got(s, Len(body)) \/ 2 * Len(body) >= Width
  <1> DEFINE n == Len(s)
             w == write_varint(n)
             m == varint_size(n)
             z == write_varint(0)
             payload == w \o s
             body == z \o payload
             K == 1 + m + n
             frame == encode_string_packet(0, s)
  <1>1. n \in Nat /\ n \in Values
    <2>1. n \in Nat
      BY LenProperties
    <2> QED BY <2>1, ValuesAre
  <1>2. 0 \in Values /\ varint_size(0) = 1
    <2>1. 0 \in Values /\ ToUnsigned(0) = 0
      BY ValuesAre DEF ToUnsigned
    <2> DEFINE k == varint_size(0)
    <2>2. k \in 1..Groups /\ (k = 1 \/ 0 >= Place[k - 1])
      BY <2>1, SizeIs
    <2> HIDE DEF k
    <2>3. k # 1 => k - 1 \in Nat
      BY <2>2, WidthIs
    <2>4. k # 1 => Place[k - 1] \in Nat /\ Place[k - 1] > 0
      BY <2>3, PlaceGrows
    <2>5. k = 1
      BY <2>2, <2>4
    <2> QED BY <2>1, <2>5 DEF k
  <1>3. z \in Seq(Byte) /\ Len(z) = 1
    BY <1>2, WriteEncodes
  <1>4. w \in Seq(Byte) /\ Len(w) = m /\ Encodes(w, n) /\ m \in Nat /\ m >= 1
    BY <1>1, WriteEncodes, SizeIs, WidthIs
  <1>5. /\ encode_utf16_count(s) \in Nat /\ StringUnits \in Nat
        /\ Place[LengthGroups] \in Nat /\ Width \in Nat
    BY TextIsShort, SizesAssumption, LengthAssumption, PlaceRule, WidthIs
  <1>6. frame = IF encode_utf16_count(s) > StringUnits \/ 2 * n >= Width
                THEN <<>> ELSE encode_packet(0, payload)
    BY DEF encode_string_packet
  <1>7. 2 * n < Width /\ from_utf8_ok(s)
    OBVIOUS
  <1> HIDE DEF n, w, m, z, frame
  <1>8. payload \in Seq(Byte) /\ Len(payload) = m + n
    BY <1>4, Joined DEF n
  <1>9. /\ SubSeq(payload, 0 + 1, m) = w
        /\ SubSeq(payload, m + 1, m + n) = s
    BY <1>4, JoinedCut DEF n
  <1> HIDE DEF payload
  <1>10. body \in Seq(Byte) /\ Len(body) = 1 + (m + n)
    <2>1. body \in Seq(Byte) /\ Len(body) = Len(z) + Len(payload)
      BY <1>3, <1>8, Joined
    <2> HIDE DEF body
    <2> QED BY <1>3, <1>8, <2>1
  <1>11. SubSeq(body, 1 + 1, 1 + (m + n)) = payload
    BY <1>3, <1>8, JoinedCut
  <1>12. K \in Nat /\ K >= 1 /\ Len(body) = K /\ 1 + (m + n) = K
    BY <1>1, <1>4, <1>10
  <1> DEFINE all == (write_varint(K) \o z) \o payload
  <1>13. encode_packet(0, payload) =
            IF K > MaxPacketLength THEN <<>> ELSE write_varint(K) \o z \o payload
    BY <1>2, <1>8, <1>12 DEF encode_packet, z
  <1>14. ASSUME K <= MaxPacketLength
         PROVE  /\ write_varint(K) \o z \o payload = write_varint(K) \o body
                /\ write_varint(K) \o body # <<>>
    <2>1. K < Place[LengthGroups]
      BY <1>5, <1>12, <1>14 DEF MaxPacketLength
    <2>2. write_varint(K) \in Seq(Byte)
      BY <1>12, <2>1, LengthIs, WriteEncodes
    <2>3. (write_varint(K) \o z) \o payload = write_varint(K) \o (z \o payload)
      <3> DEFINE f == write_varint(K)
      <3>1. f \in Seq(Byte) /\ z \in Seq(Byte) /\ payload \in Seq(Byte)
        BY <1>3, <1>8, <2>2
      <3> HIDE DEF f
      <3>2. (f \o z) \o payload = f \o (z \o payload)
        <4>1. Associate(f, z, payload)
          BY <3>1, JoinedTwice
        <4> QED BY <4>1 DEF Associate
      <3> QED BY <3>2 DEF f
    <2> DEFINE f == write_varint(K) \o body
    <2>4. f \in Seq(Byte) /\ Len(f) = Len(write_varint(K)) + Len(body)
          /\ Len(write_varint(K)) \in Nat
      BY <1>10, <2>2, Joined
    <2> HIDE DEF f, K, body
    <2>5. Len(f) # 0
      BY <1>12, <2>4
    <2>6. f # <<>>
      BY <2>4, <2>5, EmptyIs
    <2> QED BY <2>3, <2>6 DEF f, body
  <1>15. K <= MaxPacketLength <=> K < Place[LengthGroups]
    BY <1>5, <1>12 DEF MaxPacketLength
  <1>16. /\ frame # <<>> <=> /\ encode_utf16_count(s) <= StringUnits
                             /\ K < Place[LengthGroups]
         /\ frame # <<>> => frame = write_varint(K) \o body
    <2>1. MaxPacketLength \in Int
      BY <1>5 DEF MaxPacketLength
    <2>2. ~(2 * n >= Width)
      BY <1>1, <1>5, <1>7
    <2> HIDE DEF K, body
    <2>3. K > MaxPacketLength <=> ~(K <= MaxPacketLength)
      BY <1>12, <2>1
    <2>4. encode_utf16_count(s) > StringUnits
             <=> ~(encode_utf16_count(s) <= StringUnits)
      BY <1>5
    <2> QED BY <1>6, <1>13, <1>14, <1>15, <2>2, <2>3, <2>4
  <1>17. ASSUME 2 * K < Width PROVE read_utf8_string(body, 1) = Got(s, K)
    <2>1. /\ 1 \in 0..Len(body) /\ 1 + m \in 1..Len(body) /\ K \in (1 + m)..Len(body)
          /\ K \in 1..Len(body) /\ K - (1 + m) = n /\ 0 \in 0..(K - 1)
          /\ m \in 0..(K - 1) /\ K - 1 \in m..(K - 1)
      BY <1>1, <1>4, <1>12
    <2> HIDE DEF body
    <2>2. SubSeq(SubSeq(body, 1 + 1, K), 0 + 1, m) = SubSeq(body, 1 + 0 + 1, 1 + m)
      BY <1>10, <2>1, CutOfCut
    <2>3. SubSeq(SubSeq(body, 1 + 1, K), m + 1, K - 1)
             = SubSeq(body, 1 + m + 1, 1 + (K - 1))
      BY <1>10, <2>1, CutOfCut
    <2>4. SubSeq(body, 1 + 1, K) = payload
      BY <1>11, <1>12
    <2>5. /\ 1 + 0 + 1 = 1 + 1 /\ 1 + (K - 1) = K /\ K - 1 = m + n
      BY <1>1, <1>4, <1>12
    <2> HIDE DEF K
    <2>6. SubSeq(body, 1 + 1, 1 + m) = w
      BY <1>9, <2>2, <2>4, <2>5
    <2>7. SubSeq(body, (1 + m) + 1, K) = s
      BY <1>9, <2>3, <2>4, <2>5
    <2>8. Encodes(SubSeq(body, 1 + 1, 1 + m), K - (1 + m))
      BY <1>4, <2>1, <2>6
    <2>9. from_utf8_ok(SubSeq(body, (1 + m) + 1, K))
      BY <1>7, <2>7
    <2>10. 2 * Len(body) < Width
      BY <1>12, <1>17
    <2>11. read_utf8_string(body, 1) = Got(SubSeq(body, (1 + m) + 1, K), K)
      BY <1>10, <2>1, <2>8, <2>9, <2>10, ReadTextAt
    <2> QED BY <2>7, <2>11
  <1>18. 2 * K < Width \/ 2 * K >= Width
    BY <1>5, <1>12
  <1> HIDE DEF body, K
  <1>19. /\ body \in Seq(Byte) /\ Len(body) = K /\ K \in Nat /\ K >= 1
         /\ read_utf8_string(body, 1) = Got(s, K) \/ 2 * K >= Width
    BY <1>10, <1>12, <1>17, <1>18
  <1> QED BY <1>16, <1>19 DEF body, payload, K, n, w, m, z, frame

\* What a string's frame says of itself, of any part of it and of its body,
\* and when there is one.
LEMMA FrameIsExact ==
    ASSUME PacketInv
    PROVE  FrameRoundTrip
  <1> DEFINE s == packet
             n == varint_size(Len(s))
             body == write_varint(0) \o (write_varint(Len(s)) \o s)
             K == Len(body)
             m == varint_size(K)
             frame == encode_string_packet(0, s)
             fits == /\ encode_utf16_count(s) <= StringUnits
                     /\ 2 * Len(s) < Width
                     /\ 1 + n + Len(s) < Place[LengthGroups]
  <1>1. s \in Seq(Byte) /\ Len(s) \in Nat /\ 2 * Len(s) < Width
    BY PacketIsShort
  <1> HIDE DEF s
  <1>2. ASSUME from_utf8_ok(s)
        PROVE  /\ frame # <<>> <=> fits
               /\ frame # <<>> =>
                    /\ Framing(frame, MaxPacketLength) = "whole"
                    /\ \A i \in 0..(Len(frame) - 1) :
                          Framing(SubSeq(frame, 1, i), MaxPacketLength) = "partial"
                    /\ read_utf8_string(Body(frame), 1) = Got(s, Len(Body(frame)))
    <2>1. /\ body \in Seq(Byte) /\ Len(body) = 1 + n + Len(s)
          /\ Len(body) \in Nat /\ Len(body) >= 1
          /\ frame # <<>> <=>
                /\ encode_utf16_count(s) <= StringUnits
                /\ Len(body) < Place[LengthGroups]
          /\ frame # <<>> => frame = write_varint(Len(body)) \o body
          /\ read_utf8_string(body, 1) = Got(s, Len(body))
                \/ 2 * Len(body) >= Width
      BY <1>1, <1>2, StringPacketIs
    <2> HIDE DEF body, frame, n
    <2>2. frame # <<>> <=> fits
      BY <1>1, <2>1
    <2> HIDE DEF fits
    <2>3. ASSUME frame # <<>>
          PROVE  /\ Framing(frame, MaxPacketLength) = "whole"
                 /\ \A i \in 0..(Len(frame) - 1) :
                       Framing(SubSeq(frame, 1, i), MaxPacketLength) = "partial"
                 /\ read_utf8_string(Body(frame), 1) = Got(s, Len(Body(frame)))
      <3>1. /\ body \in Seq(Byte) /\ K >= 1 /\ K < Place[LengthGroups]
            /\ K \in Nat /\ frame = write_varint(K) \o body
        BY <2>1, <2>3
      <3>2. m \in 1..LengthGroups /\ LengthGroups \in Nat /\ 2 * K < Width
        BY <3>1, LengthIs
      <3>3. ASSUME NEW i \in 0..(m + K)
            PROVE  /\ Len(frame) = m + K
                   /\ Framing(SubSeq(frame, 1, i), MaxPacketLength)
                         = IF i < Len(frame) THEN "partial" ELSE "whole"
                   /\ Body(frame) = body /\ frame \in Seq(Byte)
        BY <3>1, FrameIsRead
      <3> HIDE DEF m
      <3>4. m \in Nat /\ m + K \in 0..(m + K)
        BY <3>1, <3>2
      <3>5. Len(frame) = m + K /\ Body(frame) = body /\ frame \in Seq(Byte)
        BY <3>3, <3>4
      <3>6. Framing(frame, MaxPacketLength) = "whole"
        <4>1. Framing(SubSeq(frame, 1, m + K), MaxPacketLength) = "whole"
          BY <3>1, <3>3, <3>4, <3>5
        <4>2. SubSeq(frame, 1, Len(frame)) = frame
          BY <3>5, SubSeqFull
        <4> QED BY <3>5, <4>1, <4>2
      <3>7. ASSUME NEW i \in 0..(Len(frame) - 1)
            PROVE  Framing(SubSeq(frame, 1, i), MaxPacketLength) = "partial"
        <4>1. i \in 0..(m + K) /\ i < Len(frame)
          BY <3>1, <3>4, <3>5
        <4> QED BY <3>3, <4>1
      <3>8. read_utf8_string(body, 1) = Got(s, Len(body))
        <4>1. ~(2 * Len(body) >= Width)
          BY <3>1, <3>2, WidthIs
        <4> QED BY <2>1, <4>1
      <3> QED BY <3>5, <3>6, <3>7, <3>8
    <2> QED BY <2>2, <2>3
  <1> QED BY <1>2 DEF FrameRoundTrip, s, fits, frame, n

\* The length of a frame has fewer groups than a number.
LEMMA LengthIsShort ==
    /\ LengthGroups \in Nat /\ Groups \in Nat /\ LengthGroups < Groups
  <1>1. /\ LengthGroups \in Nat /\ 2 * Place[LengthGroups] <= Width
        /\ Groups \in Nat /\ Width \in Nat /\ Width > 0
        /\ Width <= Place[Groups]
    BY LengthAssumption, WidthIs
  <1>2. Place[LengthGroups] \in Nat /\ Place[Groups] \in Nat
    BY <1>1, PlaceGrows
  <1>3. ASSUME LengthGroups >= Groups PROVE FALSE
    <2>1. Place[Groups] <= Place[LengthGroups]
      BY <1>1, <1>3, PlaceGrows
    <2> QED BY <1>1, <1>2, <2>1
  <1> QED BY <1>1, <1>3

\* Where a frame's length ends, and how long the frame is.
Framed(s, k, n) ==
    /\ k \in 1..LengthGroups /\ Ends(s, k)
    /\ Sums(s)[k] <= Limit /\ n = k + Sums(s)[k]

\* A piece from the beginning has the bytes of the whole.
LEMMA Beginning ==
    ASSUME NEW s \in Seq(Byte), NEW n \in 0..Len(s)
    PROVE  /\ SubSeq(s, 1, n) \in Seq(Byte) /\ Len(SubSeq(s, 1, n)) = n
           /\ \A k \in 1..n : /\ SubSeq(s, 1, n)[k] = s[k]
                              /\ SubSeq(SubSeq(s, 1, n), 1, k) = SubSeq(s, 1, k)
           /\ \A k \in Nat : Ends(SubSeq(s, 1, n), k) <=> k <= n /\ Ends(s, k)
  <1>1. Len(s) \in Nat /\ 0 \in 0..Len(s) /\ n \in 0..Len(s) /\ n \in Nat
    BY LenProperties
  <1> DEFINE t == SubSeq(s, 0 + 1, n)
  <1>2. /\ t \in Seq(Byte) /\ Len(t) = n - 0
        /\ \A i \in 1..(n - 0) : t[i] = s[0 + i]
    BY <1>1, Cut
  <1>3. t = SubSeq(s, 1, n)
    OBVIOUS
  <1>4. ASSUME NEW k \in 1..n PROVE SubSeq(t, 1, k) = SubSeq(s, 1, k)
    <2>1. 0 \in 0..(n - 0) /\ k \in 0..(n - 0)
      BY <1>1
    <2>2. SubSeq(t, 0 + 1, k) = SubSeq(s, 0 + 0 + 1, 0 + k)
      BY <1>1, <2>1, CutOfCut
    <2>3. 0 + 1 = 1 /\ 0 + 0 + 1 = 1 /\ 0 + k = k
      BY <1>1
    <2> HIDE DEF t
    <2> QED BY <2>2, <2>3
  <1> HIDE DEF t
  <1>5. Len(t) = n /\ \A i \in 1..n : t[i] = s[i]
    BY <1>1, <1>2
  <1>6. ASSUME NEW k \in Nat PROVE Ends(t, k) <=> k <= n /\ Ends(s, k)
    BY <1>1, <1>5 DEF Ends
  <1> QED BY <1>2, <1>3, <1>4, <1>5, <1>6

\* The framing of what was read, by where the length ends.
LEMMA FramingIs ==
    ASSUME NEW s \in Seq(Byte), NEW n \in 0..Len(s)
    PROVE  LET verdict == Framing(SubSeq(s, 1, n), Limit)
           IN /\ verdict = "whole" <=>
                    \E k \in 1..LengthGroups :
                        /\ Ends(s, k) /\ Sums(s)[k] <= Limit
                        /\ k <= n /\ k + Sums(s)[k] <= n
              /\ verdict = "refused" <=>
                    \/ \E k \in 1..LengthGroups :
                          Ends(s, k) /\ k <= n /\ Sums(s)[k] > Limit
                    \/ /\ n >= LengthGroups
                       /\ \A k \in 1..LengthGroups : ~Ends(s, k)
  <1> DEFINE t == SubSeq(s, 1, n)
             f == LastGroup(t, LengthGroups)
             length == Unsigned(SubSeq(t, 1, f))
             verdict == Framing(t, Limit)
  <1>1. /\ t \in Seq(Byte) /\ Len(t) = n /\ n \in Nat /\ Len(s) \in Nat
        /\ \A k \in 1..n : SubSeq(t, 1, k) = SubSeq(s, 1, k)
        /\ \A k \in Nat : Ends(t, k) <=> k <= n /\ Ends(s, k)
    BY Beginning, LenProperties
  <1>2. LengthGroups \in Nat
    BY LengthIsShort
  <1>3. verdict = IF f = 0
                  THEN IF Len(t) < LengthGroups THEN "partial" ELSE "refused"
                  ELSE IF length > Limit THEN "refused"
                  ELSE IF Len(t) < f + length THEN "partial" ELSE "whole"
    BY DEF Framing
  <1> HIDE DEF t, verdict
  <1>4. \A k, l \in Nat : Ends(s, k) /\ Ends(s, l) => k = l
    BY <1>1 DEF Ends
  <1>5. CASE f = 0
    <2>1. \A i \in 1..Len(t) : i <= LengthGroups => More(t[i])
      BY <1>1, <1>2, <1>5, LastGroupEnds
    <2>2. \A k \in 1..LengthGroups : ~(k <= n /\ Ends(s, k))
      <3> SUFFICES ASSUME NEW k \in 1..LengthGroups, k <= n, Ends(s, k)
                   PROVE  FALSE
        OBVIOUS
      <3>1. k \in Nat /\ k \in 1..Len(t) /\ Ends(t, k)
        BY <1>1, <1>2
      <3> QED BY <2>1, <3>1 DEF Ends
    <2>3. n >= LengthGroups => \A k \in 1..LengthGroups : ~Ends(s, k)
      BY <1>1, <1>2, <2>2
    <2>4. verdict = IF n < LengthGroups THEN "partial" ELSE "refused"
      BY <1>1, <1>3, <1>5
    <2> HIDE DEF f, length
    <2> QED BY <1>1, <1>2, <2>2, <2>3, <2>4 DEF verdict, t
  <1>6. CASE f # 0
    <2>1. f \in 1..LengthGroups /\ Ends(t, f)
      BY <1>1, <1>2, <1>6, LastGroupEnds
    <2>2. f \in Nat /\ f <= n /\ f \in 1..n /\ Ends(s, f) /\ f \in 0..Len(s)
      BY <1>1, <1>2, <2>1
    <2>3. SubSeq(t, 1, f) = SubSeq(s, 1, f)
      BY <1>1, <2>2
    <2>4. Unsigned(SubSeq(s, 1, f)) = Sums(s)[f]
      BY <2>2, UnsignedPrefix
    <2>5. length = Sums(s)[f]
      BY <2>3, <2>4
    <2> HIDE DEF f, length
    <2>6. verdict = IF Sums(s)[f] > Limit THEN "refused"
                    ELSE IF n < f + Sums(s)[f] THEN "partial" ELSE "whole"
      BY <1>1, <1>3, <1>6, <2>5
    <2>7. \A k \in 1..LengthGroups : Ends(s, k) <=> k = f
      BY <1>2, <1>4, <2>1, <2>2
    <2>8. Sums(s)[f] \in Nat /\ Limit \in Int
      BY <2>2, SumsBound, LimitAssumption
    <2> QED BY <1>1, <1>2, <2>1, <2>2, <2>6, <2>7, <2>8 DEF verdict, t
  <1> QED BY <1>5, <1>6

\* The pieces that are frames.
LEMMA FrameEnds ==
    ASSUME NEW s \in Seq(Byte), 2 * Len(s) < Width, NEW n \in 0..Len(s)
    PROVE  IsFrame(SubSeq(s, 1, n)) <=>
              \E k \in 1..LengthGroups : Framed(s, k, n)
  <1> DEFINE t == SubSeq(s, 1, n)
  <1>1. /\ t \in Seq(Byte) /\ Len(t) = n /\ n \in Nat /\ Len(s) \in Nat
        /\ \A k \in 1..n : /\ SubSeq(t, 1, k) = SubSeq(s, 1, k)
                           /\ t[k] = s[k]
    BY Beginning, LenProperties
  <1>2. LengthGroups \in Nat /\ Groups \in Nat /\ LengthGroups < Groups
    BY LengthIsShort
  <1> HIDE DEF t
  <1>3. ASSUME NEW k \in 1..LengthGroups, k <= n
        PROVE  Encodes(SubSeq(t, 1, k), n - k) <=>
                  Ends(s, k) /\ Sums(s)[k] = n - k
    <2>1. k \in 1..n /\ k \in 0..Len(s) /\ k \in Nat /\ n - k \in Nat
      BY <1>1, <1>2, <1>3
    <2> DEFINE u == SubSeq(s, 1, k)
    <2>2. SubSeq(t, 1, k) = u
      BY <1>1, <2>1
    <2>3. /\ Len(u) = k /\ \A i \in 1..k : u[i] = s[i]
      BY <2>1, Beginning
    <2>4. Unsigned(u) = Sums(s)[k]
      BY <2>1, UnsignedPrefix
    <2>5. ToUnsigned(n - k) = n - k
      BY <2>1 DEF ToUnsigned
    <2> HIDE DEF u
    <2>6. Encodes(u, n - k) <=>
             /\ \A i \in 1..k : More(s[i]) <=> i < k
             /\ Sums(s)[k] = n - k
      <3>1. k \in 1..Groups
        BY <1>2
      <3> QED BY <2>3, <2>4, <2>5, <3>1 DEF Encodes
    <2>7. (\A i \in 1..k : More(s[i]) <=> i < k) <=> Ends(s, k)
      BY <1>1, <2>1 DEF Ends
    <2> QED BY <2>2, <2>6, <2>7
  <1>4. ASSUME NEW k \in 1..LengthGroups
        PROVE  Framed(s, k, n) <=> /\ k <= n /\ n - k <= Limit
                                   /\ Encodes(SubSeq(t, 1, k), n - k)
    <2>1. Limit \in Int /\ k \in Nat
      BY <1>2, LimitAssumption
    <2>2. ASSUME Ends(s, k) PROVE Sums(s)[k] \in Nat
      <3>1. k \in 0..Len(s)
        BY <1>1, <2>2 DEF Ends
      <3> QED BY <3>1, SumsBound
    <2>3. CASE Framed(s, k, n)
      <3>1. Ends(s, k) /\ n = k + Sums(s)[k] /\ Sums(s)[k] <= Limit
        BY <2>3 DEF Framed
      <3>2. k <= n /\ n - k = Sums(s)[k] /\ n - k <= Limit
        BY <2>1, <2>2, <3>1
      <3> QED BY <1>3, <2>3, <3>1, <3>2
    <2>4. ASSUME k <= n, n - k <= Limit, Encodes(SubSeq(t, 1, k), n - k)
          PROVE  Framed(s, k, n)
      <3>1. Ends(s, k) /\ Sums(s)[k] = n - k
        BY <1>3, <2>4
      <3>2. n = k + Sums(s)[k] /\ Sums(s)[k] <= Limit
        BY <1>1, <2>1, <2>4, <3>1
      <3> QED BY <3>1, <3>2 DEF Framed
    <2> QED BY <2>3, <2>4
  <1>5. IsFrame(t) <=> \E k \in 1..LengthGroups :
                         /\ k <= n /\ n - k <= Limit
                         /\ Encodes(SubSeq(t, 1, k), n - k)
    BY <1>1 DEF IsFrame
  <1> QED BY <1>4, <1>5 DEF t

\* A stream is cut where the grammar says, and refused by its length alone.
LEMMA FrameIsFound ==
    ASSUME PacketInv
    PROVE  FrameFound
  <1> DEFINE s == packet
             Verdict(n) == Framing(Piece(0, n), Limit)
             ends == {n \in 0..Len(s) : IsFrame(Piece(0, n))}
  <1>1. s \in Seq(Byte) /\ Len(s) \in Nat /\ 2 * Len(s) < Width
    BY PacketIsShort
  <1>2. LengthGroups \in Nat /\ Limit \in Int
    BY LengthIsShort, LimitAssumption
  <1> SUFFICES ASSUME NEW n \in 0..Len(s)
               PROVE  /\ Verdict(n) = "whole" <=> \E m \in ends : m <= n
                      /\ Verdict(n) = "refused" =>
                            /\ \E m \in 0..n : /\ m <= LengthGroups
                                               /\ Verdict(m) = "refused"
                            /\ ends = {}
    BY Zenon DEF FrameFound
  <1>0. \A m : Piece(0, m) = SubSeq(s, 1, m)
    <2>1. 0 + 1 = 1
      OBVIOUS
    <2> QED BY Zenon, <2>1 DEF Piece
  <1> HIDE DEF s
  <1>3. \A k, l \in Nat : Ends(s, k) /\ Ends(s, l) => k = l
    BY <1>1 DEF Ends
  <1>4. \A m \in 0..Len(s) :
           m \in ends <=> \E k \in 1..LengthGroups : Framed(s, k, m)
    BY <1>0, <1>1, FrameEnds
  <1>5. \A m \in 0..Len(s) :
           /\ Verdict(m) = "whole" <=>
                 \E k \in 1..LengthGroups :
                     /\ Ends(s, k) /\ Sums(s)[k] <= Limit
                     /\ k <= m /\ k + Sums(s)[k] <= m
           /\ Verdict(m) = "refused" <=>
                 \/ \E k \in 1..LengthGroups :
                       Ends(s, k) /\ k <= m /\ Sums(s)[k] > Limit
                 \/ /\ m >= LengthGroups
                    /\ \A k \in 1..LengthGroups : ~Ends(s, k)
    BY <1>0, <1>1, FramingIs
  <1>6. \A k \in 1..LengthGroups :
           Ends(s, k) => k \in 1..Len(s) /\ Sums(s)[k] \in Nat
    <2> SUFFICES ASSUME NEW k \in 1..LengthGroups, Ends(s, k)
                 PROVE  k \in 1..Len(s) /\ Sums(s)[k] \in Nat
      OBVIOUS
    <2>1. k \in 1..Len(s) /\ k \in 0..Len(s)
      BY <1>1 DEF Ends
    <2> QED BY <1>1, <2>1, SumsBound
  <1>7. ends \subseteq 0..Len(s)
    OBVIOUS
  <1> HIDE DEF ends, Verdict
  <1>8. Verdict(n) = "whole" <=> \E m \in ends : m <= n
    <2>1. ASSUME Verdict(n) = "whole" PROVE \E m \in ends : m <= n
      <3>1. PICK k \in 1..LengthGroups :
               Ends(s, k) /\ Sums(s)[k] <= Limit /\ k + Sums(s)[k] <= n
        BY <1>5, <2>1
      <3> DEFINE m == k + Sums(s)[k]
      <3>2. m \in 0..Len(s) /\ m <= n
        BY <1>1, <1>6, <3>1
      <3>3. Framed(s, k, m)
        BY <3>1 DEF Framed
      <3> QED BY <1>4, <3>2, <3>3
    <2>2. ASSUME NEW m \in ends, m <= n PROVE Verdict(n) = "whole"
      <3>1. m \in 0..Len(s)
        BY <1>7
      <3>2. PICK k \in 1..LengthGroups : Framed(s, k, m)
        BY <1>4, <3>1
      <3>3. /\ Ends(s, k) /\ Sums(s)[k] <= Limit /\ m = k + Sums(s)[k]
            /\ Sums(s)[k] \in Nat /\ k \in Nat
        BY <1>2, <1>6, <3>2 DEF Framed
      <3>4. k <= n /\ k + Sums(s)[k] <= n
        BY <1>1, <2>2, <3>1, <3>3
      <3> QED BY <1>5, <3>3, <3>4
    <2> QED BY <2>1, <2>2
  <1>9. ASSUME Verdict(n) = "refused"
        PROVE  /\ \E m \in 0..n : m <= LengthGroups /\ Verdict(m) = "refused"
               /\ ends = {}
    <2>1. CASE \E k \in 1..LengthGroups :
                  Ends(s, k) /\ k <= n /\ Sums(s)[k] > Limit
      <3>1. PICK k \in 1..LengthGroups :
               Ends(s, k) /\ k <= n /\ Sums(s)[k] > Limit
        BY <2>1
      <3>2. k \in Nat /\ k \in 0..n /\ k \in 0..Len(s) /\ k <= LengthGroups
            /\ k <= k /\ Sums(s)[k] \in Nat
        BY <1>1, <1>2, <1>6, <3>1
      <3>3. Verdict(k) = "refused"
        BY <1>5, <3>1, <3>2
      <3>4. ASSUME NEW m \in ends PROVE FALSE
        <4>1. m \in 0..Len(s)
          BY <1>7
        <4>2. PICK l \in 1..LengthGroups : Framed(s, l, m)
          BY <1>4, <4>1
        <4>3. Ends(s, l) /\ Sums(s)[l] <= Limit /\ l \in Nat
          BY <1>2, <4>2 DEF Framed
        <4>4. l = k
          BY <1>3, <3>1, <3>2, <4>3
        <4> QED BY <1>2, <3>1, <3>2, <4>3, <4>4
      <3> QED BY <3>2, <3>3, <3>4
    <2>2. CASE n >= LengthGroups /\ \A k \in 1..LengthGroups : ~Ends(s, k)
      <3>1. /\ LengthGroups \in 0..n /\ LengthGroups \in 0..Len(s)
            /\ LengthGroups <= LengthGroups /\ LengthGroups >= LengthGroups
        BY <1>1, <1>2, <2>2
      <3>2. Verdict(LengthGroups) = "refused"
        BY <1>5, <2>2, <3>1
      <3>3. ASSUME NEW m \in ends PROVE FALSE
        <4>1. m \in 0..Len(s)
          BY <1>7
        <4> QED BY <1>4, <2>2, <4>1 DEF Framed
      <3> QED BY <3>1, <3>2, <3>3
    <2> QED BY <1>5, <1>9, <2>1, <2>2
  <1> QED BY <1>8, <1>9

\* A string of any size is either refused or sent so that the reader of it
\* waits for exactly its bytes; what is read is cut where the grammar ends its
\* first frame, and refused by its length alone: where a packet ends is never in
\* doubt.
THEOREM FramesAreExact == Spec => []FramesExact
  <1>1. PacketInv => FramesExact
    BY FrameIsExact, FrameIsFound DEF FramesExact
  <1> QED BY <1>1, PacketIsBytes, PTL
=============================================================================
