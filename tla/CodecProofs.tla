---------------------------- MODULE CodecProofs ----------------------------
(***************************************************************************)
(* What is written can be read: packets, and the payloads of NFP, of any   *)
(* length and content.                                                     *)
(*                                                                         *)
(* The loops of the codecs are recursive functions over positions in       *)
(* bytes.  What a loop gives is found by following it: the values it must  *)
(* have satisfy the recursion that defines it, and the least position at   *)
(* which two solutions differ does not exist (LeastIndex, Induction).      *)
(* Writing is the concatenation of TLVs, reading the loop over them:       *)
(* TlvsAreRead says that the loop finds the TLVs where they begin, and     *)
(* Holds keeps that through concatenation.  On this rest, in the order of  *)
(* the bytes, integers, names, Interests, Content Objects, the headers,    *)
(* the packet, and the messages and payloads of NFP; last, how             *)
(* ProcessWorkQueue fills payloads, and that they hold its messages in     *)
(* their order.                                                            *)
(***************************************************************************)
EXTENDS Packet, FiniteSetTheorems, SequenceTheorems, WellFoundedInduction, TLAPS

-----------------------------------------------------------------------------
(* Sequences and loops *)

\* A set of naturals that is not empty has a least member.
LEMMA LeastIndex ==
  ASSUME NEW T \in SUBSET Nat, T # {}
  PROVE  \E m \in T : \A k \in T : m <= k
<1> DEFINE R == {ss \in Nat \X Nat : ss[1] < ss[2]}
<1>1. IsWellFoundedOn(R, Nat)
  BY NatLessThanWellFounded DEF OpToRel
<1>2. \E m \in T : \A k \in T : ~(<<k, m>> \in R)
  <2> HIDE DEF R
  <2> QED BY <1>1, WFMin
<1>3. \A k, m \in Nat : <<k, m>> \in R <=> k < m
  OBVIOUS
<1>4. PICK m \in T : \A k \in T : ~(<<k, m>> \in R)
  BY <1>2
<1>5. ASSUME NEW k \in T PROVE m <= k
  <2>1. ~(k < m)
    BY <1>3, <1>4
  <2>2. k \in Nat /\ m \in Nat
    OBVIOUS
  <2>3. QED
    <3> HIDE DEF R
    <3> QED BY <2>1, <2>2
<1>6. QED
  BY <1>5

\* Induction up to n, for a set of numbers.
LEMMA Induction ==
  ASSUME NEW n \in Nat, NEW T, 0 \in T, \A k \in 1 .. n : k - 1 \in T => k \in T
  PROVE  \A k \in 0 .. n : k \in T
<1> SUFFICES ASSUME NEW j \in 0 .. n, j \notin T PROVE FALSE
  OBVIOUS
<1> DEFINE U == {k \in 0 .. n : k \notin T}
<1>1. U \in SUBSET Nat /\ U # {}
  OBVIOUS
<1>2. PICK m \in U : \A k \in U : m <= k
  <2> HIDE DEF U
  <2> QED BY <1>1, LeastIndex
<1>3. m \in 0 .. n /\ m \notin T /\ m # 0
  BY <1>2
<1>4. m - 1 \in 0 .. n /\ m \in 1 .. n
  BY <1>3
<1>5. m - 1 \in T
  BY <1>2, <1>4
<1> QED
  BY <1>3, <1>4, <1>5

\* A function on 1 .. n is a sequence of length n.
LEMMA FunctionIsSequence ==
  ASSUME NEW S, NEW n \in Nat, NEW f \in [1 .. n -> S]
  PROVE  f \in Seq(S) /\ Len(f) = n
<1>1. f \in Seq(S)
  BY SeqDef
<1>2. DOMAIN f = 1 .. n /\ DOMAIN f = 1 .. Len(f) /\ Len(f) \in Nat
  BY <1>1, LenProperties
<1>3. \A m \in Nat : 1 .. m = 1 .. n => m = n
  <2> SUFFICES ASSUME NEW m \in Nat, 1 .. m = 1 .. n, m # n PROVE FALSE
    OBVIOUS
  <2>1. m \in 1 .. m <=> m \in 1 .. n
    OBVIOUS
  <2>2. n \in 1 .. m <=> n \in 1 .. n
    OBVIOUS
  <2> QED
    BY <2>1, <2>2
<1> QED
  BY <1>1, <1>2, <1>3

\* f is what a loop of n turns makes of z.
Makes(f, V, z, n, step) ==
  f \in [0 .. n -> V] /\ f[0] = z /\ \A k \in 1 .. n : f[k] = step[<<f[k - 1], k>>]

LEMMA Loop ==
  ASSUME NEW V, NEW z \in V, NEW n \in Nat, NEW step \in [V \X (1 .. n) -> V]
  PROVE  \E f : Makes(f, V, z, n, step)
<1> DEFINE G(m) == {f \in [0 .. m -> V] : f[0] = z /\ \A k \in 1 .. m : f[k] = step[<<f[k - 1], k>>]}
           T == {m \in 0 .. n : G(m) # {}}
<1>1. 0 \in T
  <2>1. [k \in 0 .. 0 |-> z] \in G(0)
    OBVIOUS
  <2> QED
    BY <2>1
<1>2. ASSUME NEW m \in 1 .. n, m - 1 \in T PROVE m \in T
  <2>1. PICK f \in G(m - 1) : TRUE
    BY <1>2
  <2>2. /\ f \in [0 .. m - 1 -> V] /\ f[0] = z
        /\ \A k \in 1 .. m - 1 : f[k] = step[<<f[k - 1], k>>]
    BY <2>1
  <2> DEFINE g == [k \in 0 .. m |-> IF k = m THEN step[<<f[m - 1], m>>] ELSE f[k]]
  <2>3. f[m - 1] \in V
    BY <2>2
  <2>4. <<f[m - 1], m>> \in V \X (1 .. n)
    BY <2>3
  <2>5. step[<<f[m - 1], m>>] \in V
    BY <2>4
  <2>6. g \in [0 .. m -> V] /\ g[0] = z
    BY <2>2, <2>5
  <2>7. ASSUME NEW k \in 1 .. m PROVE g[k] = step[<<g[k - 1], k>>]
    <3>1. CASE k = m
      BY <3>1
    <3>2. CASE k # m
      <4>1. k \in 1 .. m - 1 /\ k - 1 # m /\ k - 1 \in 0 .. m
        BY <3>2
      <4> QED
        BY <2>2, <3>2, <4>1
    <3> QED
      BY <3>1, <3>2
  <2>8. g \in G(m)
    <3> HIDE DEF g
    <3> QED BY <2>6, <2>7
  <2> HIDE DEF G
  <2> QED
    BY <2>8
<1>3. n \in T
  <2> HIDE DEF T
  <2>1. \A k \in 0 .. n : k \in T
    BY <1>1, <1>2, Induction
  <2> QED
    BY <2>1
<1>4. PICK f : f \in G(n)
  BY <1>3
<1> QED
  BY <1>4 DEF Makes

\* The sum of a sequence, and all its partial sums.
LEMMA TotalIs ==
  ASSUME NEW s \in Seq(Nat)
  PROVE  \E t \in [0 .. Len(s) -> Nat] :
           t[0] = 0 /\ (\A k \in 1 .. Len(s) : t[k] = t[k - 1] + s[k]) /\ Total(s) = t[Len(s)]
<1> DEFINE n == Len(s)
           step == [vk \in Nat \X (1 .. n) |-> vk[1] + s[vk[2]]]
<1>1. n \in Nat /\ \A k \in 1 .. n : s[k] \in Nat
  OBVIOUS
<1>2. step \in [Nat \X (1 .. n) -> Nat]
  BY <1>1
<1>3. PICK t : Makes(t, Nat, 0, n, step)
  <2> HIDE DEF n, step
  <2> QED BY <1>1, <1>2, Loop
<1>4. ASSUME NEW k \in 1 .. n PROVE t[k] = t[k - 1] + s[k]
  <2>1. k - 1 \in 0 .. n /\ t[k - 1] \in Nat
    <3> HIDE DEF step, n
    <3> QED BY <1>1, <1>3 DEF Makes
  <2>2. <<t[k - 1], k>> \in Nat \X (1 .. n)
    BY <2>1
  <2>3. step[<<t[k - 1], k>>] = t[k - 1] + s[k]
    BY <2>2
  <2> QED
    BY <1>3, <2>3 DEF Makes
<1>a. t \in [0 .. n -> Nat] /\ t[0] = 0
  BY <1>3 DEF Makes
<1> DEFINE Is(f) == f = [k \in 0 .. n |-> IF k = 0 THEN 0 ELSE f[k - 1] + s[k]]
<1>5. Is(t)
  BY <1>a, <1>4
<1> DEFINE c == CHOOSE f : Is(f)
<1>6. Total(s) = c[n]
  BY DEF Total
<1>7. Is(c)
  <2> HIDE DEF Is
  <2> QED BY <1>5
<1>8. c[0] = 0 /\ \A k \in 1 .. n : c[k] = c[k - 1] + s[k]
  <2> HIDE DEF c
  <2> QED BY <1>1, <1>7
<1>9. \A k \in 0 .. n : c[k] = t[k]
  <2> DEFINE T == {k \in 0 .. n : c[k] = t[k]}
  <2> HIDE DEF c
  <2>1. 0 \in T
    BY <1>1, <1>a, <1>8
  <2>2. \A k \in 1 .. n : k - 1 \in T => k \in T
    BY <1>1, <1>4, <1>8
  <2>3. \A k \in 0 .. n : k \in T
    <3> HIDE DEF T, n
    <3> QED BY <1>1, <2>1, <2>2, Induction
  <2> QED
    BY <2>3
<1>10. c[n] = t[n]
  <2> HIDE DEF c
  <2> QED BY <1>1, <1>9
<1> QED
  BY <1>a, <1>4, <1>6, <1>10

\* Two sums with the same parts are the same.
LEMMA SameSums ==
  ASSUME NEW n \in Nat, NEW t \in [0 .. n -> Nat], NEW u \in [0 .. n -> Nat], NEW s \in [1 .. n -> Nat],
         t[0] = 0, \A k \in 1 .. n : t[k] = t[k - 1] + s[k],
         u[0] = 0, \A k \in 1 .. n : u[k] = u[k - 1] + s[k]
  PROVE  \A k \in 0 .. n : t[k] = u[k]
<1> DEFINE T == {k \in 0 .. n : t[k] = u[k]}
<1>1. 0 \in T
  OBVIOUS
<1>2. \A k \in 1 .. n : k - 1 \in T => k \in T
  OBVIOUS
<1>3. \A k \in 0 .. n : k \in T
  <2> HIDE DEF T
  <2> QED BY <1>1, <1>2, Induction
<1> QED
  BY <1>3

-----------------------------------------------------------------------------
(* A sequence within another *)

\* The members of v are in b behind its first p members.
At(b, p, v) == p + Len(v) <= Len(b) /\ \A i \in 1 .. Len(v) : b[p + i] = v[i]

LEMMA AtTransitive ==
  ASSUME NEW S, NEW b \in Seq(S), NEW v \in Seq(S), NEW w \in Seq(S), NEW p \in Nat, NEW q \in Nat,
         At(b, p, v), At(v, q, w)
  PROVE  At(b, p + q, w)
<1>1. /\ p + Len(v) <= Len(b) /\ \A i \in 1 .. Len(v) : b[p + i] = v[i]
      /\ q + Len(w) <= Len(v) /\ \A i \in 1 .. Len(w) : v[q + i] = w[i]
  BY DEF At
<1>2. Len(b) \in Nat /\ Len(v) \in Nat /\ Len(w) \in Nat
  OBVIOUS
<1>3. (p + q) + Len(w) <= Len(b)
  BY <1>1, <1>2
<1>4. ASSUME NEW i \in 1 .. Len(w) PROVE b[(p + q) + i] = w[i]
  <2>1. q + i \in 1 .. Len(v) /\ p + (q + i) = (p + q) + i
    BY <1>1, <1>2
  <2>2. b[p + (q + i)] = v[q + i]
    BY <1>1, <2>1
  <2> QED
    BY <1>1, <2>1, <2>2
<1> QED
  BY <1>3, <1>4 DEF At

LEMMA AtConcat ==
  ASSUME NEW S, NEW v \in Seq(S), NEW w \in Seq(S)
  PROVE  At(v \o w, 0, v) /\ At(v \o w, Len(v), w)
<1>1. /\ Len(v \o w) = Len(v) + Len(w) /\ Len(v) \in Nat /\ Len(w) \in Nat
      /\ \A i \in 1 .. Len(v) + Len(w) : (v \o w)[i] = IF i <= Len(v) THEN v[i] ELSE w[i - Len(v)]
  BY ConcatProperties
<1>2. ASSUME NEW i \in 1 .. Len(v) PROVE (v \o w)[0 + i] = v[i]
  BY <1>1
<1>3. ASSUME NEW i \in 1 .. Len(w) PROVE (v \o w)[Len(v) + i] = w[i]
  <2>1. Len(v) + i \in 1 .. Len(v) + Len(w) /\ ~(Len(v) + i <= Len(v)) /\ (Len(v) + i) - Len(v) = i
    BY <1>1
  <2> QED
    BY <1>1, <2>1
<1> QED
  BY <1>1, <1>2, <1>3 DEF At

LEMMA AtSelf ==
  ASSUME NEW S, NEW v \in Seq(S)
  PROVE  At(v, 0, v)
BY DEF At

LEMMA AtParts ==
  ASSUME NEW S, NEW b \in Seq(S), NEW v \in Seq(S), NEW w \in Seq(S), NEW p \in Nat, At(b, p, v \o w)
  PROVE  At(b, p, v) /\ At(b, p + Len(v), w)
<1>1. v \o w \in Seq(S) /\ Len(v) \in Nat
  BY ConcatProperties
<1>2. At(v \o w, 0, v) /\ At(v \o w, Len(v), w)
  BY AtConcat
<1>3. At(b, p + 0, v) /\ At(b, p + Len(v), w)
  <2>1. 0 \in Nat
    OBVIOUS
  <2>2. At(b, p + 0, v)
    BY <1>1, <1>2, <2>1, AtTransitive
  <2>3. At(b, p + Len(v), w)
    BY <1>1, <1>2, AtTransitive
  <2> QED
    BY <2>2, <2>3
<1> QED
  BY <1>3

\* What is in b is what is read from it.
LEMMA AtRead ==
  ASSUME NEW S, NEW b \in Seq(S), NEW v \in Seq(S), NEW p \in Nat, At(b, p, v)
  PROVE  Read(b, p, Len(v)) = v
<1>1. Len(v) \in Nat /\ p + Len(v) <= Len(b) /\ Len(b) \in Nat /\ \A i \in 1 .. Len(v) : b[p + i] = v[i]
  BY DEF At
<1>2. \A i \in p + 1 .. p + Len(v) : b[i] \in S
  BY <1>1, ElementOfSeq
<1>3. p + 1 \in Int /\ p + Len(v) \in Int
  BY <1>1
<1> DEFINE r == SubSeq(b, p + 1, p + Len(v))
<1>4. /\ r \in Seq(S)
      /\ Len(r) = IF p + 1 <= p + Len(v) THEN (p + Len(v)) - (p + 1) + 1 ELSE 0
      /\ \A i \in 1 .. (p + Len(v)) - (p + 1) + 1 : r[i] = b[(p + 1) + i - 1]
  BY <1>2, <1>3, SubSeqProperties
<1>5. Len(r) = Len(v)
  BY <1>1, <1>4
<1>6. ASSUME NEW i \in 1 .. Len(v) PROVE r[i] = v[i]
  <2>1. i \in 1 .. (p + Len(v)) - (p + 1) + 1 /\ (p + 1) + i - 1 = p + i
    BY <1>1
  <2> QED
    BY <1>1, <1>4, <2>1
<1>7. r = v
  <2> HIDE DEF r
  <2> QED BY <1>4, <1>5, <1>6, SeqEqual
<1> QED
  BY <1>7 DEF Read

\* b, on which other bytes may follow.
LEMMA AtMore ==
  ASSUME NEW S, NEW b \in Seq(S), NEW c \in Seq(S), NEW v \in Seq(S), NEW p \in Nat, At(b, p, v)
  PROVE  At(b \o c, p, v)
<1>1. b \o c \in Seq(S) /\ At(b \o c, 0, b) /\ 0 + p = p
  BY ConcatProperties, AtConcat
<1>2. At(b \o c, 0 + p, v)
  BY <1>1, AtTransitive
<1> QED
  BY <1>1, <1>2

\* Sequences are joined one after the other.
LEMMA FlattenIs ==
  ASSUME NEW S, NEW ss \in Seq(Seq(S))
  PROVE  \E j \in [0 .. Len(ss) -> Seq(S)] :
           j[0] = <<>> /\ (\A k \in 1 .. Len(ss) : j[k] = j[k - 1] \o ss[k]) /\ FlattenSeq(ss) = j[Len(ss)]
<1> DEFINE n == Len(ss)
           V == Seq(S)
           step == [vk \in V \X (1 .. n) |-> vk[1] \o ss[vk[2]]]
<1>1. n \in Nat /\ \A k \in 1 .. n : ss[k] \in V
  OBVIOUS
<1>2. step \in [V \X (1 .. n) -> V]
  <2>1. \A vk \in V \X (1 .. n) : vk[1] \o ss[vk[2]] \in V
    <3> SUFFICES ASSUME NEW vk \in V \X (1 .. n) PROVE vk[1] \o ss[vk[2]] \in V
      OBVIOUS
    <3>1. vk[1] \in Seq(S) /\ ss[vk[2]] \in Seq(S)
      BY <1>1
    <3> QED BY <3>1, ConcatProperties
  <2> HIDE DEF V, n
  <2> QED BY <2>1
<1>3. <<>> \in V
  OBVIOUS
<1>4. PICK j : Makes(j, V, <<>>, n, step)
  <2> HIDE DEF n, step, V
  <2> QED BY <1>1, <1>2, <1>3, Loop
<1>5. j \in [0 .. n -> V] /\ j[0] = <<>>
  BY <1>4 DEF Makes
<1>6. ASSUME NEW k \in 1 .. n PROVE j[k] = j[k - 1] \o ss[k]
  <2>1. k - 1 \in 0 .. n /\ j[k - 1] \in V
    <3> HIDE DEF step, n
    <3> QED BY <1>1, <1>5
  <2>2. <<j[k - 1], k>> \in V \X (1 .. n)
    BY <2>1
  <2>3. step[<<j[k - 1], k>>] = j[k - 1] \o ss[k]
    BY <2>2
  <2> QED
    BY <1>4, <2>3 DEF Makes
<1> HIDE DEF step
<1>7. FlattenSeq(ss) = j[n]
  <2>1. CASE n = 0
    <3>1. ss = <<>>
      BY <2>1, EmptySeq
    <3> QED
      BY <1>5, <2>1, <3>1 DEF FlattenSeq
  <2>2. CASE n # 0
    <3> DEFINE Is(f) == f = [i \in 1 .. n |-> IF i = 1 THEN ss[i] ELSE f[i - 1] \o ss[i]]
               h == [i \in 1 .. n |-> j[i]]
               c == CHOOSE f : Is(f)
    <3>1. FlattenSeq(ss) = c[n]
      BY <2>2 DEF FlattenSeq
    <3>2. Is(h)
      <4> SUFFICES ASSUME NEW i \in 1 .. n
                   PROVE  j[i] = IF i = 1 THEN ss[i] ELSE h[i - 1] \o ss[i]
        OBVIOUS
      <4>1. CASE i = 1
        <5>1. j[1] = j[0] \o ss[1]
          <6>1. 1 \in 1 .. n /\ 1 - 1 = 0
            BY <4>1
          <6>2. j[1] = j[1 - 1] \o ss[1]
            BY <1>6, <6>1
          <6> QED
            BY <6>1, <6>2
        <5>2. ss[1] \in Seq(S) /\ <<>> \o ss[1] = ss[1]
          BY <1>1, <4>1, ConcatEmptySeq
        <5> QED
          BY <1>5, <4>1, <5>1, <5>2
      <4>2. CASE i # 1
        <5>1. i - 1 \in 1 .. n
          BY <4>2
        <5> QED
          BY <1>6, <4>2, <5>1
      <4> QED
        BY <4>1, <4>2
    <3>3. Is(c)
      <4> HIDE DEF Is
      <4> QED BY <3>2
    <3> HIDE DEF c
    <3>4. \A i \in 1 .. n : c[i] = IF i = 1 THEN ss[i] ELSE c[i - 1] \o ss[i]
      BY <3>3
    <3> DEFINE T == {k \in 0 .. n : k > 0 => c[k] = j[k]}
    <3>5. 0 \in T
      BY <1>1
    <3>6. ASSUME NEW k \in 1 .. n, k - 1 \in T PROVE k \in T
      <4>1. CASE k = 1
        <5>1. j[1] = <<>> \o ss[1]
          <6>1. 1 \in 1 .. n /\ 1 - 1 = 0
            BY <4>1
          <6>2. j[1] = j[1 - 1] \o ss[1]
            BY <1>6, <6>1
          <6> QED
            BY <1>5, <6>1, <6>2
        <5>2. ss[1] \in Seq(S) /\ <<>> \o ss[1] = ss[1]
          BY <1>1, <4>1, ConcatEmptySeq
        <5>3. c[1] = ss[1]
          BY <3>4, <4>1
        <5> QED
          BY <1>1, <4>1, <5>1, <5>2, <5>3
      <4>2. CASE k # 1
        <5>1. k - 1 > 0 /\ c[k - 1] = j[k - 1]
          BY <3>6, <4>2
        <5>2. c[k] = c[k - 1] \o ss[k] /\ j[k] = j[k - 1] \o ss[k]
          BY <1>6, <3>4, <4>2
        <5>3. k \in 0 .. n
          OBVIOUS
        <5> QED
          BY <5>1, <5>2, <5>3
      <4> QED
        BY <4>1, <4>2
    <3>7. \A k \in 0 .. n : k \in T
      <4> HIDE DEF T, n
      <4> QED BY <1>1, <3>5, <3>6, Induction
    <3>8. c[n] = j[n]
      BY <1>1, <2>2, <3>7
    <3> QED
      BY <3>1, <3>8
  <2> QED
    BY <2>1, <2>2
<1> QED
  BY <1>5, <1>6, <1>7

\* Sequences that are joined: each is where those before it end.
LEMMA Joined ==
  ASSUME NEW S, NEW ss \in Seq(Seq(S))
  PROVE  \E end \in [0 .. Len(ss) -> Nat] :
           /\ end[0] = 0
           /\ \A k \in 1 .. Len(ss) : end[k] = end[k - 1] + Len(ss[k]) /\ At(FlattenSeq(ss), end[k - 1], ss[k])
           /\ FlattenSeq(ss) \in Seq(S)
           /\ Len(FlattenSeq(ss)) = end[Len(ss)]
<1> DEFINE n == Len(ss)
           V == Seq(S)
<1>1. n \in Nat /\ \A k \in 1 .. n : ss[k] \in V
  OBVIOUS
<1>5. PICK j \in [0 .. n -> V] :
        j[0] = <<>> /\ (\A k \in 1 .. n : j[k] = j[k - 1] \o ss[k]) /\ FlattenSeq(ss) = j[n]
  BY FlattenIs
<1>6. \A k \in 1 .. n : j[k] = j[k - 1] \o ss[k]
  BY <1>5
<1>7. FlattenSeq(ss) = j[n]
  BY <1>5
<1> DEFINE end == [k \in 0 .. n |-> Len(j[k])]
<1>8. end \in [0 .. n -> Nat] /\ end[0] = 0
  <2> HIDE DEF n
  <2> QED BY <1>1, <1>5
<1>9. ASSUME NEW k \in 1 .. n
      PROVE  k - 1 \in 0 .. n /\ j[k - 1] \in Seq(S) /\ ss[k] \in Seq(S) /\ end[k] = end[k - 1] + Len(ss[k])
  <2>1. k - 1 \in 0 .. n /\ k \in 0 .. n /\ j[k - 1] \in Seq(S) /\ ss[k] \in Seq(S)
    <3>1. k - 1 \in 0 .. n /\ k \in 0 .. n
      BY <1>1
    <3>2. j[k - 1] \in V
      <4> HIDE DEF V, n
      <4> QED BY <1>5, <3>1
    <3> QED
      BY <1>1, <3>1, <3>2
  <2>2. Len(j[k]) = Len(j[k - 1]) + Len(ss[k])
    <3>1. j[k] = j[k - 1] \o ss[k]
      BY <1>6
    <3>2. Len(j[k - 1] \o ss[k]) = Len(j[k - 1]) + Len(ss[k])
      BY ONLY <2>1, ConcatProperties
    <3> QED
      BY ONLY <3>1, <3>2
  <2> QED
    BY <2>1, <2>2
<1> DEFINE T == {m \in 0 .. n : \A k \in 1 .. m : At(j[m], end[k - 1], ss[k])}
<1>10. 0 \in T
  BY <1>1
<1>11. ASSUME NEW m \in 1 .. n, m - 1 \in T PROVE m \in T
  <2> SUFFICES ASSUME NEW k \in 1 .. m PROVE At(j[m], end[k - 1], ss[k])
    BY <1>1
  <2>1. k \in 1 .. n /\ k - 1 \in 0 .. n /\ m - 1 \in 0 .. n
    BY <1>1
  <2>2. /\ ss[k] \in Seq(S) /\ ss[m] \in Seq(S) /\ j[m - 1] \in Seq(S)
        /\ end[k - 1] \in Nat /\ end[m - 1] = Len(j[m - 1]) /\ j[m] = j[m - 1] \o ss[m]
    BY <1>1, <1>5, <1>6, <1>8, <2>1
  <2>3. CASE k = m
    BY <2>2, <2>3, AtConcat
  <2>4. CASE k # m
    <3>1. At(j[m - 1], end[k - 1], ss[k])
      <4>1. k \in 1 .. m - 1
        BY <2>1, <2>4
      <4> QED
        BY <1>11, <4>1
    <3> HIDE DEF end
    <3> QED
      BY <2>2, <3>1, AtMore
  <2> QED
    BY <2>3, <2>4
<1>12. n \in T
  <2> HIDE DEF T, n
  <2>1. \A k \in 0 .. n : k \in T
    BY <1>1, <1>10, <1>11, Induction
  <2> QED
    BY <1>1, <2>1
<1>13. j[n] \in Seq(S) /\ Len(j[n]) = end[n]
  BY <1>1, <1>5
<1>14. \A k \in 1 .. n : At(j[n], end[k - 1], ss[k])
  BY <1>12
<1> HIDE DEF end
<1> QED
  BY <1>7, <1>8, <1>9, <1>13, <1>14

-----------------------------------------------------------------------------
(* TLVs *)

\* Numbers of two bytes.
LEMMA WordIs ==
  /\ \A v \in Word : v \in Nat /\ v <= 65535
  /\ \A v \in Nat : v <= 65535 => v \in Word
<1>1. MaxWord = 65535
  BY DEF MaxWord
<1>2. MaxWord \in Nat
  BY <1>1
<1>3. /\ \A v \in Word : v \in Nat /\ v <= MaxWord
      /\ \A v \in Nat : v <= MaxWord => v \in Word
  BY <1>2 DEF Word
<1> QED
  BY <1>1, <1>3

LEMMA BytesJoin ==
  ASSUME NEW v \in Bytes, NEW w \in Bytes
  PROVE  /\ v \o w \in Bytes /\ Len(v \o w) = Len(v) + Len(w) /\ Len(v) \in Nat /\ Len(w) \in Nat
         /\ \A i \in 1 .. Len(v) + Len(w) : (v \o w)[i] = IF i <= Len(v) THEN v[i] ELSE w[i - Len(v)]
BY ConcatProperties DEF Bytes

\* A TLV with a value that its length can tell, and what is written of it.
Tlv == [type : Word, value : {v \in Bytes : Len(v) \in Word}]
TlvBytes(tlv) == WriteTypeLength(tlv.type, Len(tlv.value)) \o tlv.value

LEMMA U16Is ==
  ASSUME NEW v \in Word
  PROVE  U16(v) \in Bytes /\ Len(U16(v)) = 2 /\ 256 * U16(v)[1] + U16(v)[2] = v
<1> DEFINE h == (v \div 256) % 256
           l == v % 256
<1>1. v \in Nat /\ v <= 65535
  BY WordIs
<1>2. h \in Byte /\ l \in Byte
  BY <1>1 DEF Byte
<1>3. 256 * h + l = v
  BY <1>1
<1>4. U16(v) = <<h, l>>
  BY DEF U16
<1> HIDE DEF h, l
<1>5. <<h, l>> \in Seq(Byte)
  BY <1>2
<1> QED
  BY <1>3, <1>4, <1>5 DEF Bytes

\* A TLV of l bytes behind p ends at n or before.
LEMMA EndsBefore ==
  ASSUME NEW p \in Nat, NEW l \in Nat, NEW e \in Nat, NEW n \in Nat
  PROVE  /\ e = 4 + l /\ p + e <= n => p + 4 + l <= n
         /\ e = p + 4 + l /\ e <= n => p + 4 <= n /\ p < e
OBVIOUS

LEMMA PlusFour ==
  ASSUME NEW a \in Nat, NEW l \in Nat, NEW m \in Nat, m = 4 + l
  PROVE  a + m = a + 4 + l
OBVIOUS

LEMMA TwoWords ==
  ASSUME NEW s \in Bytes, NEW t \in Bytes, Len(s) = 2, Len(t) = 2
  PROVE  /\ s \o t \in Bytes /\ Len(s \o t) = 4
         /\ ReadU16(s \o t, 0) = 256 * s[1] + s[2] /\ ReadU16(s \o t, 2) = 256 * t[1] + t[2]
<1>1. /\ s \o t \in Bytes /\ Len(s \o t) = Len(s) + Len(t)
      /\ \A i \in 1 .. Len(s) + Len(t) : (s \o t)[i] = IF i <= Len(s) THEN s[i] ELSE t[i - Len(s)]
  BY BytesJoin
<1>2. (s \o t)[1] = s[1] /\ (s \o t)[2] = s[2] /\ (s \o t)[3] = t[1] /\ (s \o t)[4] = t[2]
  BY <1>1
<1>3. 0 + 1 = 1 /\ 0 + 2 = 2 /\ 2 + 1 = 3 /\ 2 + 2 = 4
  OBVIOUS
<1>4. ReadU16(s \o t, 0) = 256 * s[1] + s[2]
  BY <1>2, <1>3 DEF ReadU16
<1>5. ReadU16(s \o t, 2) = 256 * t[1] + t[2]
  BY <1>2, <1>3 DEF ReadU16
<1>6. Len(s \o t) = 4
  BY <1>1
<1> QED
  BY <1>1, <1>4, <1>5, <1>6

LEMMA WriteTypeLengthIs ==
  ASSUME NEW type \in Word, NEW length \in Word
  PROVE  /\ WriteTypeLength(type, length) \in Bytes /\ Len(WriteTypeLength(type, length)) = 4
         /\ ReadU16(WriteTypeLength(type, length), 0) = type
         /\ ReadU16(WriteTypeLength(type, length), 2) = length
<1>1. /\ U16(type) \in Bytes /\ Len(U16(type)) = 2 /\ 256 * U16(type)[1] + U16(type)[2] = type
      /\ U16(length) \in Bytes /\ Len(U16(length)) = 2 /\ 256 * U16(length)[1] + U16(length)[2] = length
  BY U16Is
<1> QED
  BY <1>1, TwoWords DEF WriteTypeLength

LEMMA TlvOf ==
  ASSUME NEW type \in Word, NEW v \in Bytes, Len(v) \in Word
  PROVE  [type |-> type, value |-> v] \in Tlv
BY DEF Tlv

LEMMA TlvBytesIs ==
  ASSUME NEW tlv \in Tlv
  PROVE  /\ tlv.type \in Word /\ tlv.value \in Bytes /\ Len(tlv.value) \in Word
         /\ TlvBytes(tlv) \in Bytes /\ Len(TlvBytes(tlv)) = 4 + Len(tlv.value)
<1>1. tlv.type \in Word /\ tlv.value \in Bytes /\ Len(tlv.value) \in Word
  BY DEF Tlv, Bytes
<1> DEFINE h == WriteTypeLength(tlv.type, Len(tlv.value))
<1>2. h \in Bytes /\ Len(h) = 4
  BY <1>1, WriteTypeLengthIs
<1> HIDE DEF h
<1>3. h \o tlv.value \in Bytes /\ Len(h \o tlv.value) = 4 + Len(tlv.value)
  BY <1>1, <1>2, BytesJoin
<1> QED
  BY <1>1, <1>3 DEF TlvBytes, h

\* Two bytes of b are read as they were written.
LEMMA ReadsAt ==
  ASSUME NEW b \in Bytes, NEW v \in Bytes, NEW p \in Nat, NEW q \in Nat, At(b, p, v), q + 2 <= Len(v)
  PROVE  ReadU16(b, p + q) = ReadU16(v, q)
<1>1. \A i \in 1 .. Len(v) : b[p + i] = v[i]
  BY DEF At
<1>2. q + 1 \in 1 .. Len(v) /\ q + 2 \in 1 .. Len(v) /\ Len(v) \in Nat
  BY DEF Bytes
<1>3. b[p + (q + 1)] = v[q + 1] /\ b[p + (q + 2)] = v[q + 2]
  BY <1>1, <1>2
<1>4. p + (q + 1) = (p + q) + 1 /\ p + (q + 2) = (p + q) + 2
  OBVIOUS
<1> QED
  BY <1>3, <1>4 DEF ReadU16

\* The header and the value of a TLV are read as they were written.
LEMMA TlvIsRead ==
  ASSUME NEW b \in Bytes, NEW p \in Nat, NEW tlv \in Tlv, At(b, p, TlvBytes(tlv))
  PROVE  /\ p + 4 + Len(tlv.value) <= Len(b)
         /\ ReadU16(b, p) = tlv.type /\ ReadU16(b, p + 2) = Len(tlv.value)
         /\ Read(b, p + 4, Len(tlv.value)) = tlv.value
         /\ At(b, p + 4, tlv.value)
<1> DEFINE h == WriteTypeLength(tlv.type, Len(tlv.value))
<1>1. /\ tlv.type \in Word /\ tlv.value \in Bytes /\ Len(tlv.value) \in Word
      /\ Len(TlvBytes(tlv)) = 4 + Len(tlv.value)
  BY TlvBytesIs
<1>2. /\ h \in Bytes /\ Len(h) = 4 /\ ReadU16(h, 0) = tlv.type /\ ReadU16(h, 2) = Len(tlv.value)
      /\ TlvBytes(tlv) = h \o tlv.value
  BY <1>1, WriteTypeLengthIs DEF TlvBytes
<1> HIDE DEF h
<1>3. At(b, p, h) /\ At(b, p + 4, tlv.value)
  BY <1>1, <1>2, AtParts DEF Bytes
<1>4. ReadU16(b, p) = tlv.type /\ ReadU16(b, p + 2) = Len(tlv.value)
  <2>1. 0 + 2 <= Len(h) /\ 2 + 2 <= Len(h) /\ 0 \in Nat /\ 2 \in Nat /\ p + 0 = p
    BY <1>2
  <2>2. ReadU16(b, p + 0) = ReadU16(h, 0)
    BY <1>2, <1>3, <2>1, ReadsAt
  <2>3. ReadU16(b, p + 2) = ReadU16(h, 2)
    BY <1>2, <1>3, <2>1, ReadsAt
  <2> QED
    BY <1>2, <2>1, <2>2, <2>3
<1>5. Read(b, p + 4, Len(tlv.value)) = tlv.value
  BY <1>1, <1>3, AtRead DEF Bytes
<1>6. p + 4 + Len(tlv.value) <= Len(b)
  <2>1. p + Len(TlvBytes(tlv)) <= Len(b) /\ Len(tlv.value) \in Nat /\ Len(b) \in Nat
    BY <1>1, WordIs DEF At, Bytes
  <2>2. Len(TlvBytes(tlv)) \in Nat
    BY <1>1, TlvBytesIs DEF Bytes
  <2> QED
    BY <1>1, <2>1, <2>2, EndsBefore
<1> QED
  BY <1>3, <1>4, <1>5, <1>6

\* b consists of n TLVs, and the k-th ends at end[k].
Consists(b, n, tlvs, end) ==
  /\ tlvs \in [1 .. n -> Tlv] /\ end \in [0 .. n -> Nat]
  /\ end[0] = 0 /\ end[n] = Len(b)
  /\ \A k \in 1 .. n : /\ end[k] = end[k - 1] + 4 + Len(tlvs[k].value)
                       /\ At(b, end[k - 1], TlvBytes(tlvs[k]))

\* The loop reads the TLVs that bytes consist of, if it knows their types.
LEMMA TlvsAreRead ==
  ASSUME NEW b \in Bytes, NEW n \in Nat, NEW tlvs, NEW end, Consists(b, n, tlvs, end),
         NEW known, \A k \in 1 .. n : tlvs[k].type \in known
  PROVE  Tlvs(b, known).ok /\ Tlvs(b, known).items = tlvs
<1> DEFINE N == Len(b)
           M == Turns(Len(b))
           Begin(k) == [i \in 1 .. k |-> tlvs[i]]
           state(k) == [p |-> end[k], bytesRead |-> end[k], ok |-> TRUE, items |-> Begin(k)]
           z == [p |-> 0, bytesRead |-> 0, ok |-> TRUE, items |-> <<>>]
<1>1. N \in Nat
  BY DEF Bytes
<1>2. /\ tlvs \in [1 .. n -> Tlv] /\ end \in [0 .. n -> Nat] /\ end[0] = 0 /\ end[n] = N
      /\ \A k \in 1 .. n : /\ end[k] = end[k - 1] + 4 + Len(tlvs[k].value)
                           /\ At(b, end[k - 1], TlvBytes(tlvs[k]))
  BY DEF Consists
<1>3. ASSUME NEW k \in 1 .. n
      PROVE  /\ k - 1 \in 0 .. n /\ k \in 0 .. n /\ end[k] \in Nat /\ end[k - 1] \in Nat /\ tlvs[k] \in Tlv
             /\ Len(tlvs[k].value) \in Nat /\ end[k - 1] < end[k] /\ end[k] <= N
             /\ ReadU16(b, end[k - 1]) = tlvs[k].type
             /\ ReadU16(b, end[k - 1] + 2) = Len(tlvs[k].value)
             /\ Read(b, end[k - 1] + 4, Len(tlvs[k].value)) = tlvs[k].value
  <2>1. k - 1 \in 0 .. n /\ k \in 0 .. n
    OBVIOUS
  <2>2. end[k] \in Nat /\ end[k - 1] \in Nat /\ tlvs[k] \in Tlv
    BY <1>2, <2>1
  <2>3. end[k] = end[k - 1] + 4 + Len(tlvs[k].value) /\ At(b, end[k - 1], TlvBytes(tlvs[k]))
    BY <1>2
  <2>4. Len(tlvs[k].value) \in Nat
    BY <2>2, TlvBytesIs, WordIs
  <2>5. /\ end[k - 1] + 4 + Len(tlvs[k].value) <= Len(b)
        /\ ReadU16(b, end[k - 1]) = tlvs[k].type
        /\ ReadU16(b, end[k - 1] + 2) = Len(tlvs[k].value)
        /\ Read(b, end[k - 1] + 4, Len(tlvs[k].value)) = tlvs[k].value
    BY <2>2, <2>3, TlvIsRead
  <2> QED
    BY <2>1, <2>2, <2>3, <2>4, <2>5
<1>4. ASSUME NEW k \in 1 .. n PROVE NextTlv(b, known, state(k - 1)) = state(k)
  <2> DEFINE w == state(k - 1)
  <2>1. w.p = end[k - 1] /\ w.bytesRead = end[k - 1] /\ w.ok /\ w.items = Begin(k - 1)
    OBVIOUS
  <2>2. w.bytesRead # Len(b) /\ w.bytesRead + TLSize + ReadU16(b, w.p + 2) = end[k]
    BY <1>2, <1>3, <2>1 DEF TLSize
  <2>3. ~(w.bytesRead + TLSize > Len(b)) /\ ~(w.bytesRead + TLSize + ReadU16(b, w.p + 2) > Len(b))
    <3>1. end[k] = end[k - 1] + 4 + Len(tlvs[k].value)
      BY <1>2
    <3>2. end[k] <= N /\ end[k] \in Nat /\ end[k - 1] \in Nat /\ Len(tlvs[k].value) \in Nat
      BY <1>3
    <3>3. end[k - 1] + 4 <= N
      BY <1>1, <3>1, <3>2, EndsBefore
    <3> QED
      BY <1>1, <2>1, <2>2, <3>2, <3>3 DEF TLSize
  <2>4. [type |-> ReadU16(b, w.p), value |-> Read(b, w.p + TLSize, ReadU16(b, w.p + 2))] = tlvs[k]
    <3>1. ReadU16(b, w.p) = tlvs[k].type /\ Read(b, w.p + TLSize, ReadU16(b, w.p + 2)) = tlvs[k].value
      BY <1>3, <2>1 DEF TLSize
    <3>2. tlvs[k] = [type |-> tlvs[k].type, value |-> tlvs[k].value]
      BY <1>3 DEF Tlv
    <3> QED
      BY <3>1, <3>2
  <2>5. Append(Begin(k - 1), tlvs[k]) = Begin(k)
    <3>1. Begin(k - 1) \in [1 .. k - 1 -> Tlv] /\ Begin(k) \in [1 .. k -> Tlv] /\ k - 1 \in Nat /\ k \in Nat
      BY <1>2
    <3>2. /\ Begin(k - 1) \in Seq(Tlv) /\ Len(Begin(k - 1)) = k - 1
          /\ Begin(k) \in Seq(Tlv) /\ Len(Begin(k)) = k
      <4> HIDE DEF Begin
      <4> QED BY <3>1, FunctionIsSequence
    <3>3. \A i \in 1 .. k : Begin(k)[i] = tlvs[i]
      OBVIOUS
    <3>4. \A i \in 1 .. k - 1 : Begin(k - 1)[i] = tlvs[i]
      OBVIOUS
    <3> HIDE DEF Begin
    <3>5. /\ Append(Begin(k - 1), tlvs[k]) \in Seq(Tlv) /\ Len(Append(Begin(k - 1), tlvs[k])) = k
          /\ \A i \in 1 .. k - 1 : Append(Begin(k - 1), tlvs[k])[i] = Begin(k - 1)[i]
          /\ Append(Begin(k - 1), tlvs[k])[k] = tlvs[k]
      BY <1>3, <3>2, AppendProperties
    <3>6. ASSUME NEW i \in 1 .. k PROVE Append(Begin(k - 1), tlvs[k])[i] = Begin(k)[i]
      BY <3>3, <3>4, <3>5
    <3> QED
      BY <3>2, <3>5, <3>6, SeqEqual
  <2>6. ReadU16(b, w.p) \in known /\ ReadU16(b, w.p + 2) = Len(tlvs[k].value)
    BY <1>3, <2>1
  <2>7. w.p + TLSize + Len(tlvs[k].value) = end[k]
    BY <1>2, <1>3, <2>1 DEF TLSize
  <2> HIDE DEF w, Begin
  <2>8. NextTlv(b, known, w) = state(k)
    BY <2>1, <2>2, <2>3, <2>4, <2>5, <2>6, <2>7 DEF NextTlv
  <2> QED
    BY <2>8 DEF w
<1>5. M \in Nat /\ n <= M
  <2> DEFINE T == {k \in 0 .. n : 4 * k <= end[k]}
  <2>1. 0 \in T
    BY <1>2
  <2>2. ASSUME NEW k \in 1 .. n, k - 1 \in T PROVE k \in T
    <3>1. end[k] = end[k - 1] + 4 + Len(tlvs[k].value)
      BY <1>2
    <3>2. /\ end[k] \in Nat /\ end[k - 1] \in Nat /\ Len(tlvs[k].value) \in Nat
          /\ k \in 0 .. n
      BY <1>3
    <3> QED
      BY <2>2, <3>1, <3>2
  <2>3. \A k \in 0 .. n : k \in T
    <3> HIDE DEF T
    <3> QED BY <2>1, <2>2, Induction
  <2>4. 4 * n <= N
    BY <1>2, <2>3
  <2>5. M = N \div 4 + 1
    BY DEF Turns, TLSize
  <2> HIDE DEF M, N
  <2> QED
    BY <1>1, <2>4, <2>5
<1>6. NextTlv(b, known, state(n)) = state(n)
  BY <1>2 DEF NextTlv
<1>7. state(0) = z
  <2>1. Begin(0) = <<>>
    OBVIOUS
  <2> HIDE DEF Begin
  <2> QED BY <1>2, <2>1
<1>8. Begin(n) = tlvs
  BY <1>2
<1> HIDE DEF state, z, Begin, M
<1> DEFINE g == [k \in 0 .. M |-> IF k <= n THEN state(k) ELSE state(n)]
           Is(f) == f = [k \in 0 .. M |-> IF k = 0 THEN z ELSE NextTlv(b, known, f[k - 1])]
           c == CHOOSE f : Is(f)
<1>9. Is(g)
  <2> SUFFICES ASSUME NEW k \in 0 .. M
               PROVE  g[k] = IF k = 0 THEN z ELSE NextTlv(b, known, g[k - 1])
    OBVIOUS
  <2>1. CASE k = 0
    BY <1>5, <1>7, <2>1
  <2>2. CASE k \in 1 .. n
    <3>1. g[k] = state(k) /\ g[k - 1] = state(k - 1)
      BY <1>5, <2>2
    <3> QED
      BY <1>4, <2>2, <3>1
  <2>3. CASE k > n /\ k # 0
    <3>1. g[k] = state(n)
      BY <2>3
    <3>2. g[k - 1] = state(n)
      BY <1>5, <2>3
    <3> HIDE DEF g
    <3> QED
      BY <1>6, <2>3, <3>1, <3>2
  <2> QED
    BY <2>1, <2>2, <2>3
<1>10. Is(c)
  <2> HIDE DEF Is, g
  <2> QED BY <1>9
<1>11. Tlvs(b, known) = c[M]
  BY DEF Tlvs, z, M
<1> HIDE DEF c, g
<1>12. \A k \in 0 .. M : c[k] = g[k]
  <2> DEFINE T == {k \in 0 .. M : c[k] = g[k]}
  <2>1. 0 \in T
    BY <1>5, <1>9, <1>10
  <2>2. ASSUME NEW k \in 1 .. M, k - 1 \in T PROVE k \in T
    <3>1. c[k] = NextTlv(b, known, c[k - 1])
      BY <1>5, <1>10
    <3>2. g[k] = NextTlv(b, known, g[k - 1])
      BY <1>5, <1>9
    <3> QED
      BY <2>2, <3>1, <3>2
  <2>3. \A k \in 0 .. M : k \in T
    <3> HIDE DEF T, M
    <3> QED BY <1>5, <2>1, <2>2, Induction
  <2> QED
    BY <2>3
<1>13. c[M] = state(n)
  <2>1. g[M] = state(n)
    <3>1. M \in 0 .. M
      BY <1>5
    <3> QED
      BY <1>5, <3>1 DEF g
  <2>2. M \in 0 .. M
    BY <1>5
  <2> QED
    BY <1>12, <2>1, <2>2
<1> QED
  BY <1>8, <1>11, <1>13 DEF state

\* The sum of the lengths is the length of what is joined.
LEMMA JoinedLength ==
  ASSUME NEW n \in Nat, NEW S, NEW ss \in [1 .. n -> Seq(S)], NEW size \in [1 .. n -> Nat],
         \A k \in 1 .. n : size[k] = Len(ss[k])
  PROVE  /\ FlattenSeq(ss) \in Seq(S) /\ Total(size) \in Nat /\ Len(FlattenSeq(ss)) = Total(size)
         /\ \E end \in [0 .. n -> Nat] :
              /\ end[0] = 0 /\ end[n] = Len(FlattenSeq(ss))
              /\ \A k \in 1 .. n : end[k] = end[k - 1] + Len(ss[k]) /\ At(FlattenSeq(ss), end[k - 1], ss[k])
<1>1. ss \in Seq(Seq(S)) /\ Len(ss) = n /\ size \in Seq(Nat) /\ Len(size) = n
  BY FunctionIsSequence
<1>2. PICK t \in [0 .. n -> Nat] :
        t[0] = 0 /\ (\A k \in 1 .. n : t[k] = t[k - 1] + size[k]) /\ Total(size) = t[n]
  BY <1>1, TotalIs
<1>3. PICK end \in [0 .. Len(ss) -> Nat] :
           /\ end[0] = 0
           /\ \A k \in 1 .. Len(ss) : end[k] = end[k - 1] + Len(ss[k]) /\ At(FlattenSeq(ss), end[k - 1], ss[k])
           /\ FlattenSeq(ss) \in Seq(S)
           /\ Len(FlattenSeq(ss)) = end[Len(ss)]
  <2>1. ss \in Seq(Seq(S))
    BY <1>1
  <2> QED
    BY ONLY <2>1, Joined
<1>4. \A k \in 1 .. n : end[k] = end[k - 1] + size[k]
  BY <1>1, <1>3
<1>5. \A k \in 0 .. n : t[k] = end[k]
  BY <1>1, <1>2, <1>3, <1>4, SameSums
<1>6. t[n] = end[n] /\ t[n] \in Nat
  BY <1>2, <1>5
<1> QED
  BY <1>1, <1>2, <1>3, <1>6

\* TLVs that are joined.
LEMMA JoinedTlvs ==
  ASSUME NEW n \in Nat, NEW tlvs \in [1 .. n -> Tlv], NEW ss \in [1 .. n -> Bytes], NEW size \in [1 .. n -> Nat],
         \A k \in 1 .. n : ss[k] = TlvBytes(tlvs[k]) /\ size[k] = Len(ss[k])
  PROVE  /\ FlattenSeq(ss) \in Bytes /\ Total(size) \in Nat /\ Len(FlattenSeq(ss)) = Total(size)
         /\ \E end : Consists(FlattenSeq(ss), n, tlvs, end)
<1>1. ss \in [1 .. n -> Seq(Byte)]
  BY DEF Bytes
<1>2. /\ FlattenSeq(ss) \in Bytes /\ Total(size) \in Nat /\ Len(FlattenSeq(ss)) = Total(size)
      /\ \E end \in [0 .. n -> Nat] :
              /\ end[0] = 0 /\ end[n] = Len(FlattenSeq(ss))
              /\ \A k \in 1 .. n : end[k] = end[k - 1] + Len(ss[k]) /\ At(FlattenSeq(ss), end[k - 1], ss[k])
  BY <1>1, JoinedLength DEF Bytes
<1>3. PICK end \in [0 .. n -> Nat] :
              /\ end[0] = 0 /\ end[n] = Len(FlattenSeq(ss))
              /\ \A k \in 1 .. n : end[k] = end[k - 1] + Len(ss[k]) /\ At(FlattenSeq(ss), end[k - 1], ss[k])
  BY <1>2
<1>4. ASSUME NEW k \in 1 .. n
      PROVE  end[k] = end[k - 1] + 4 + Len(tlvs[k].value) /\ At(FlattenSeq(ss), end[k - 1], TlvBytes(tlvs[k]))
  <2>1. tlvs[k] \in Tlv /\ k - 1 \in 0 .. n
    OBVIOUS
  <2>2. Len(TlvBytes(tlvs[k])) = 4 + Len(tlvs[k].value) /\ Len(tlvs[k].value) \in Nat
    BY <2>1, TlvBytesIs, WordIs
  <2>3. end[k] = end[k - 1] + Len(TlvBytes(tlvs[k])) /\ end[k - 1] \in Nat
    BY <1>3, <2>1
  <2>4. PICK p \in Nat, l \in Nat, m \in Nat :
          p = end[k - 1] /\ l = Len(tlvs[k].value) /\ m = Len(TlvBytes(tlvs[k]))
    BY <2>2, <2>3
  <2>5. end[k] = end[k - 1] + 4 + Len(tlvs[k].value)
    <3>1. m = 4 + l
      BY <2>2, <2>4
    <3>2. p + m = p + 4 + l
      BY ONLY <3>1, p \in Nat, l \in Nat, m \in Nat
    <3> QED
      BY <2>3, <2>4, <3>2
  <2>6. At(FlattenSeq(ss), end[k - 1], TlvBytes(tlvs[k]))
    BY <1>3
  <2> QED
    BY <2>5, <2>6
<1> QED
  BY <1>2, <1>3, <1>4 DEF Consists

\* b consists of TLVs of different types, whose values are those of val.
HoldsBy(b, val, n) ==
  \E tlvs, end :
    /\ Consists(b, n, tlvs, end)
    /\ \A k \in 1 .. n : tlvs[k].type \in DOMAIN val
    /\ \A j, k \in 1 .. n : tlvs[j].type = tlvs[k].type => j = k
    /\ \A type \in DOMAIN val : val[type] = {tlvs[k].value : k \in {k \in 1 .. n : tlvs[k].type = type}}

Holds(b, val) == \E n \in Nat : HoldsBy(b, val, n)

LEMMA HoldsNothing ==
  ASSUME NEW known
  PROVE  Holds(<<>>, [type \in known |-> {}])
<1> DEFINE end == [k \in 0 .. 0 |-> 0]
           tlvs == [k \in 1 .. 0 |-> 0]
           val == [type \in known |-> {}]
<1>1. Consists(<<>>, 0, tlvs, end)
  BY DEF Consists
<1>2. \A type \in DOMAIN val : val[type] = {tlvs[k].value : k \in {k \in 1 .. 0 : tlvs[k].type = type}}
  OBVIOUS
<1> HIDE DEF tlvs, end
<1> QED
  BY <1>1, <1>2 DEF Holds, HoldsBy

LEMMA HoldsMore ==
  ASSUME NEW b \in Bytes, NEW val, Holds(b, val),
         NEW tlv \in Tlv, tlv.type \in DOMAIN val, val[tlv.type] = {}
  PROVE  Holds(b \o TlvBytes(tlv), [val EXCEPT ![tlv.type] = {tlv.value}])
<1>0. PICK n \in Nat : HoldsBy(b, val, n)
  BY DEF Holds
<1>1. PICK tlvs, end :
    /\ Consists(b, n, tlvs, end)
    /\ \A k \in 1 .. n : tlvs[k].type \in DOMAIN val
    /\ \A j, k \in 1 .. n : tlvs[j].type = tlvs[k].type => j = k
    /\ \A type \in DOMAIN val : val[type] = {tlvs[k].value : k \in {k \in 1 .. n : tlvs[k].type = type}}
  BY <1>0 DEF HoldsBy
<1> DEFINE c == TlvBytes(tlv)
           more == [k \in 1 .. n + 1 |-> IF k = n + 1 THEN tlv ELSE tlvs[k]]
           ends == [k \in 0 .. n + 1 |-> IF k = n + 1 THEN Len(b) + Len(c) ELSE end[k]]
           new == [val EXCEPT ![tlv.type] = {tlv.value}]
<1>2. /\ tlvs \in [1 .. n -> Tlv] /\ end \in [0 .. n -> Nat] /\ end[0] = 0 /\ end[n] = Len(b)
      /\ \A k \in 1 .. n : /\ end[k] = end[k - 1] + 4 + Len(tlvs[k].value)
                           /\ At(b, end[k - 1], TlvBytes(tlvs[k]))
  BY <1>1 DEF Consists
<1>3. /\ c \in Bytes /\ Len(c) = 4 + Len(tlv.value) /\ Len(tlv.value) \in Nat
      /\ b \o c \in Bytes /\ Len(b \o c) = Len(b) + Len(c) /\ Len(b) \in Nat /\ Len(c) \in Nat
  BY TlvBytesIs, WordIs, BytesJoin
<1>4. At(b \o c, Len(b), c)
  BY <1>3, AtConcat DEF Bytes
<1>5. ASSUME NEW k \in 1 .. n PROVE At(b \o c, end[k - 1], TlvBytes(tlvs[k]))
  <2>1. tlvs[k] \in Tlv /\ end[k - 1] \in Nat
    BY <1>2
  <2>2. TlvBytes(tlvs[k]) \in Bytes /\ At(b, end[k - 1], TlvBytes(tlvs[k]))
    BY <1>2, <2>1, TlvBytesIs
  <2> QED
    BY <1>3, <2>1, <2>2, AtMore DEF Bytes
<1>6. more \in [1 .. n + 1 -> Tlv] /\ more[n + 1] = tlv /\ \A k \in 1 .. n : more[k] = tlvs[k]
  BY <1>2
<1>7. ends \in [0 .. n + 1 -> Nat] /\ ends[n + 1] = Len(b) + Len(c) /\ \A k \in 0 .. n : ends[k] = end[k]
  BY <1>2, <1>3
<1> HIDE DEF c, more, ends
<1>8. ASSUME NEW k \in 1 .. n + 1
      PROVE  /\ ends[k] = ends[k - 1] + 4 + Len(more[k].value)
             /\ At(b \o c, ends[k - 1], TlvBytes(more[k]))
  <2>1. CASE k = n + 1
    <3>1. ends[k - 1] = Len(b) /\ more[k] = tlv
      <4>1. k - 1 = n /\ n \in 0 .. n
        BY <2>1
      <4> QED
        BY <1>2, <1>6, <1>7, <2>1, <4>1
    <3>2. ends[k] = Len(b) + Len(c)
      BY <1>7, <2>1
    <3>3. Len(b) + Len(c) = Len(b) + 4 + Len(tlv.value)
      <4>1. PICK l \in Nat, m \in Nat, o \in Nat : l = Len(b) /\ m = Len(c) /\ o = Len(tlv.value) /\ m = 4 + o
        BY <1>3
      <4>2. l + m = l + 4 + o
        BY <4>1, PlusFour
      <4> QED
        BY <4>1, <4>2
    <3> QED
      BY <1>4, <3>1, <3>2, <3>3 DEF c
  <2>2. CASE k # n + 1
    <3>1. k \in 1 .. n /\ k \in 0 .. n /\ k - 1 \in 0 .. n
      BY <2>2
    <3> QED
      BY <1>2, <1>5, <1>6, <1>7, <3>1
  <2> QED
    BY <2>1, <2>2
<1>9. ends[0] = 0 /\ ends[n + 1] = Len(b \o c)
  <2>1. 0 \in 0 .. n
    OBVIOUS
  <2> QED
    BY <1>2, <1>3, <1>7, <2>1
<1>10. Consists(b \o c, n + 1, more, ends)
  BY <1>6, <1>7, <1>8, <1>9 DEF Consists
<1>11. ASSUME NEW k \in 1 .. n, tlvs[k].type = tlv.type PROVE FALSE
  <2>1. val[tlv.type] = {tlvs[i].value : i \in {i \in 1 .. n : tlvs[i].type = tlv.type}}
    BY <1>1
  <2>2. tlvs[k].value \in val[tlv.type]
    BY <1>11, <2>1
  <2> QED
    BY <2>2
<1>12. DOMAIN new = DOMAIN val /\ new[tlv.type] = {tlv.value} /\ \A type \in DOMAIN val \ {tlv.type} : new[type] = val[type]
  OBVIOUS
<1> HIDE DEF new
<1>13. \A k \in 1 .. n + 1 : more[k].type \in DOMAIN new
  <2>1. ASSUME NEW k \in 1 .. n + 1, k # n + 1 PROVE k \in 1 .. n
    BY <2>1
  <2> QED
    BY <1>1, <1>6, <1>12, <2>1
<1>14. \A j, k \in 1 .. n + 1 : more[j].type = more[k].type => j = k
  <2>1. ASSUME NEW k \in 1 .. n + 1, k # n + 1 PROVE k \in 1 .. n
    BY <2>1
  <2> QED
    BY <1>1, <1>6, <1>11, <2>1
<1>15. ASSUME NEW type \in DOMAIN new
       PROVE  new[type] = {more[k].value : k \in {k \in 1 .. n + 1 : more[k].type = type}}
  <2>1. ASSUME NEW k \in 1 .. n + 1 PROVE k = n + 1 \/ k \in 1 .. n
    OBVIOUS
  <2>2. n + 1 \in 1 .. n + 1 /\ \A k \in 1 .. n : k \in 1 .. n + 1
    OBVIOUS
  <2>3. CASE type = tlv.type
    <3>1. {k \in 1 .. n + 1 : more[k].type = type} = {n + 1}
      BY <1>6, <1>11, <2>1, <2>2, <2>3
    <3> QED
      BY <1>6, <1>12, <2>3, <3>1
  <2>4. CASE type # tlv.type
    <3>1. {k \in 1 .. n + 1 : more[k].type = type} = {k \in 1 .. n : tlvs[k].type = type}
      BY <1>6, <2>1, <2>2, <2>4
    <3>2. \A k \in {k \in 1 .. n : tlvs[k].type = type} : more[k].value = tlvs[k].value
      BY <1>6
    <3>3. new[type] = val[type] /\ type \in DOMAIN val
      BY <1>12, <2>4
    <3> QED
      BY <1>1, <3>1, <3>2, <3>3
  <2> QED
    BY <2>3, <2>4
<1>16. n + 1 \in Nat
  OBVIOUS
<1>17. Holds(b \o c, new)
  BY <1>10, <1>13, <1>14, <1>15, <1>16 DEF Holds, HoldsBy
<1> QED
  BY <1>17 DEF c, new

\* What is read of bytes that hold values.
LEMMA HoldsRead ==
  ASSUME NEW b \in Bytes, NEW val, Holds(b, val)
  PROVE  /\ Tlvs(b, DOMAIN val).ok
         /\ \A type \in DOMAIN val : ValueOf(Tlvs(b, DOMAIN val).items, type) = val[type]
<1>0. PICK n \in Nat : HoldsBy(b, val, n)
  BY DEF Holds
<1>1. PICK tlvs, end :
    /\ Consists(b, n, tlvs, end)
    /\ \A k \in 1 .. n : tlvs[k].type \in DOMAIN val
    /\ \A j, k \in 1 .. n : tlvs[j].type = tlvs[k].type => j = k
    /\ \A type \in DOMAIN val : val[type] = {tlvs[k].value : k \in {k \in 1 .. n : tlvs[k].type = type}}
  BY <1>0 DEF HoldsBy
<1>2. Tlvs(b, DOMAIN val).ok /\ Tlvs(b, DOMAIN val).items = tlvs
  BY <1>1, TlvsAreRead
<1>3. Len(tlvs) = n
  BY <1>1, FunctionIsSequence DEF Consists
<1>4. ASSUME NEW type \in DOMAIN val PROVE ValueOf(tlvs, type) = val[type]
  <2> DEFINE all == {k \in 1 .. n : tlvs[k].type = type}
  <2>1. {i \in all : \A j \in all : j <= i} = all
    BY <1>1
  <2>2. ValueOf(tlvs, type) = {tlvs[i].value : i \in {i \in all : \A j \in all : j <= i}}
    BY <1>3 DEF ValueOf
  <2> QED
    BY <1>1, <2>1, <2>2
<1> QED
  BY <1>2, <1>4

-----------------------------------------------------------------------------
(* Integers *)

LEMMA BytesAreNaturals ==
  ASSUME NEW s \in Bytes
  PROVE  Len(s) \in Nat /\ \A i \in 1 .. Len(s) : s[i] \in Byte /\ s[i] \in Nat /\ s[i] <= 255
<1>1. s \in [1 .. Len(s) -> Byte] /\ Len(s) \in Nat
  BY ElementOfSeq DEF Bytes
<1>2. \A i \in 1 .. Len(s) : s[i] \in Byte
  <2> HIDE DEF Byte
  <2> QED BY <1>1
<1>3. \A v \in Byte : v \in Nat /\ v <= 255
  BY DEF Byte
<1> QED
  BY <1>1, <1>2, <1>3

\* The value of bytes in network order, and of all their beginnings.
LEMMA BigEndianIs ==
  ASSUME NEW s \in Bytes
  PROVE  \E t \in [0 .. Len(s) -> Nat] :
           t[0] = 0 /\ (\A k \in 1 .. Len(s) : t[k] = 256 * t[k - 1] + s[k]) /\ BigEndian(s) = t[Len(s)]
<1> DEFINE n == Len(s)
           step == [vk \in Nat \X (1 .. n) |-> 256 * vk[1] + s[vk[2]]]
<1>1. n \in Nat /\ \A k \in 1 .. n : s[k] \in Nat
  BY BytesAreNaturals
<1>2. step \in [Nat \X (1 .. n) -> Nat]
  BY <1>1
<1>3. PICK t : Makes(t, Nat, 0, n, step)
  <2> HIDE DEF n, step
  <2> QED BY <1>1, <1>2, Loop
<1>4. ASSUME NEW k \in 1 .. n PROVE t[k] = 256 * t[k - 1] + s[k]
  <2>1. k - 1 \in 0 .. n /\ t[k - 1] \in Nat
    <3> HIDE DEF step, n
    <3> QED BY <1>1, <1>3 DEF Makes
  <2>2. <<t[k - 1], k>> \in Nat \X (1 .. n)
    BY <2>1
  <2>3. step[<<t[k - 1], k>>] = 256 * t[k - 1] + s[k]
    BY <2>2
  <2> QED
    BY <1>3, <2>3 DEF Makes
<1>5. t \in [0 .. n -> Nat] /\ t[0] = 0
  BY <1>3 DEF Makes
<1> DEFINE Is(f) == f = [k \in 0 .. n |-> IF k = 0 THEN 0 ELSE 256 * f[k - 1] + s[k]]
<1>6. Is(t)
  BY <1>4, <1>5
<1> DEFINE c == CHOOSE f : Is(f)
<1>7. BigEndian(s) = c[n]
  BY DEF BigEndian
<1>8. Is(c)
  <2> HIDE DEF Is
  <2> QED BY <1>6
<1>9. c[0] = 0 /\ \A k \in 1 .. n : c[k] = 256 * c[k - 1] + s[k]
  <2> HIDE DEF c
  <2> QED BY <1>1, <1>8
<1>10. \A k \in 0 .. n : c[k] = t[k]
  <2> DEFINE T == {k \in 0 .. n : c[k] = t[k]}
  <2> HIDE DEF c
  <2>1. 0 \in T
    BY <1>1, <1>5, <1>9
  <2>2. \A k \in 1 .. n : k - 1 \in T => k \in T
    BY <1>1, <1>4, <1>9
  <2>3. \A k \in 0 .. n : k \in T
    <3> HIDE DEF T, n
    <3> QED BY <1>1, <2>1, <2>2, Induction
  <2> QED
    BY <2>3
<1>11. c[n] = t[n]
  <2> HIDE DEF c
  <2> QED BY <1>1, <1>10
<1> QED
  BY <1>4, <1>5, <1>7, <1>11

\* The values of four bytes or fewer, and of eight that begin with zeros.
Value4(a, b, c, d) == 256 * (256 * (256 * a + b) + c) + d

LEMMA FourBytes ==
  ASSUME NEW s \in Bytes, Len(s) \in 1 .. 4
  PROVE  BigEndian(s) = CASE Len(s) = 1 -> s[1]
                          [] Len(s) = 2 -> Value4(0, 0, s[1], s[2])
                          [] Len(s) = 3 -> Value4(0, s[1], s[2], s[3])
                          [] Len(s) = 4 -> Value4(s[1], s[2], s[3], s[4])
<1>1. PICK t \in [0 .. Len(s) -> Nat] :
        t[0] = 0 /\ (\A k \in 1 .. Len(s) : t[k] = 256 * t[k - 1] + s[k]) /\ BigEndian(s) = t[Len(s)]
  BY BigEndianIs
<1>2. \A k \in 1 .. Len(s) : s[k] \in Nat
  BY BytesAreNaturals
<1>3. t[1] = s[1]
  BY <1>1, <1>2
<1>4. Len(s) >= 2 => t[2] = 256 * s[1] + s[2]
  BY <1>1, <1>3
<1>5. Len(s) >= 3 => t[3] = 256 * (256 * s[1] + s[2]) + s[3]
  BY <1>1, <1>4
<1>6. Len(s) >= 4 => t[4] = 256 * (256 * (256 * s[1] + s[2]) + s[3]) + s[4]
  BY <1>1, <1>5
<1>7. CASE Len(s) = 1
  BY <1>1, <1>3, <1>7
<1>8. CASE Len(s) = 2
  <2>1. Value4(0, 0, s[1], s[2]) = 256 * s[1] + s[2]
    BY <1>2, <1>8 DEF Value4
  <2> QED
    BY <1>1, <1>4, <1>8, <2>1
<1>9. CASE Len(s) = 3
  <2>1. Value4(0, s[1], s[2], s[3]) = 256 * (256 * s[1] + s[2]) + s[3]
    BY <1>2, <1>9 DEF Value4
  <2> QED
    BY <1>1, <1>5, <1>9, <2>1
<1>10. CASE Len(s) = 4
  BY <1>1, <1>6, <1>10 DEF Value4
<1> QED
  BY <1>7, <1>8, <1>9, <1>10

LEMMA EightBytes ==
  ASSUME NEW s \in Bytes, Len(s) = 8, s[1] = 0, s[2] = 0, s[3] = 0, s[4] = 0
  PROVE  BigEndian(s) = Value4(s[5], s[6], s[7], s[8])
<1>1. PICK t \in [0 .. Len(s) -> Nat] :
        t[0] = 0 /\ (\A k \in 1 .. Len(s) : t[k] = 256 * t[k - 1] + s[k]) /\ BigEndian(s) = t[Len(s)]
  BY BigEndianIs
<1>2. \A k \in 1 .. 8 : s[k] \in Nat
  BY BytesAreNaturals
<1>3. t[1] = 0 /\ t[2] = 0 /\ t[3] = 0 /\ t[4] = 0
  BY <1>1
<1>4. t[5] = s[5]
  BY <1>1, <1>2, <1>3
<1>5. t[6] = 256 * s[5] + s[6]
  BY <1>1, <1>4
<1>6. t[7] = 256 * (256 * s[5] + s[6]) + s[7]
  BY <1>1, <1>5
<1>7. t[8] = 256 * (256 * (256 * s[5] + s[6]) + s[7]) + s[8]
  BY <1>1, <1>6
<1> QED
  BY <1>1, <1>7 DEF Value4

\* The bytes of a number, the highest first.
Digits(v, a, b, c, d) ==
  /\ a \in Byte /\ b \in Byte /\ c \in Byte /\ d \in Byte
  /\ v = Value4(a, b, c, d)
  /\ U64(v) = <<0, 0, 0, 0, a, b, c, d>> /\ U32(v) = <<a, b, c, d>>

LEMMA DigitsExist ==
  ASSUME NEW v \in Integer64
  PROVE  \E a, b, c, d : Digits(v, a, b, c, d)
<1>1. v \in Nat /\ v <= 2147483647
  <2>1. MaxInteger = 2147483647
    BY DEF MaxInteger
  <2>2. v \in Nat /\ v <= MaxInteger
    BY DEF Integer64
  <2> QED
    BY <2>1, <2>2
<1> DEFINE k == v \div 256
           h == v \div 65536
           a == v \div 16777216
           b == h % 256
           c == k % 256
           d == v % 256
<1>2. k \in Nat /\ d \in Nat /\ v = 256 * k + d /\ d <= 255
  BY <1>1
<1>3. h = k \div 256 /\ a = h \div 256
  BY <1>1
<1>4. h \in Nat /\ c \in Nat /\ k = 256 * h + c /\ c <= 255
  <2> HIDE DEF k, h
  <2> QED BY <1>2, <1>3
<1>5. a \in Nat /\ b \in Nat /\ h = 256 * a + b /\ b <= 255
  <2> HIDE DEF h, a
  <2> QED BY <1>3, <1>4
<1>6. U64(v) = <<0, 0, 0, 0, a, b, c, d>> /\ U32(v) = <<a, b, c, d>>
  BY DEF U64, U32
<1> HIDE DEF a, b, c, d, h, k
<1>7. v = Value4(a, b, c, d)
  BY <1>2, <1>4, <1>5 DEF Value4
<1>8. a <= 255
  BY <1>1, <1>2, <1>4, <1>5
<1>11. a \in Byte /\ b \in Byte /\ c \in Byte /\ d \in Byte
  BY <1>2, <1>4, <1>5, <1>8 DEF Byte
<1>12. Digits(v, a, b, c, d)
  BY <1>6, <1>7, <1>11 DEF Digits
<1> QED
  BY <1>12

\* Numbers of two, four and eight bytes.
LEMMA U64Is ==
  ASSUME NEW v \in Integer64
  PROVE  U64(v) \in Bytes /\ Len(U64(v)) = 8 /\ BigEndian(U64(v)) = v
<1>1. PICK a, b, c, d : Digits(v, a, b, c, d)
  BY DigitsExist
<1> DEFINE s == <<0, 0, 0, 0, a, b, c, d>>
<1>2. a \in Byte /\ b \in Byte /\ c \in Byte /\ d \in Byte /\ v = Value4(a, b, c, d) /\ U64(v) = s /\ 0 \in Byte
  BY <1>1 DEF Digits, Byte
<1>3. s \in Bytes /\ Len(s) = 8
  BY <1>2 DEF Bytes
<1>4. s[1] = 0 /\ s[2] = 0 /\ s[3] = 0 /\ s[4] = 0 /\ s[5] = a /\ s[6] = b /\ s[7] = c /\ s[8] = d
  OBVIOUS
<1> HIDE DEF s
<1> QED
  BY <1>2, <1>3, <1>4, EightBytes

LEMMA U32Is ==
  ASSUME NEW v \in Integer64
  PROVE  U32(v) \in Bytes /\ Len(U32(v)) = 4 /\ BigEndian(U32(v)) = v
<1>1. PICK a, b, c, d : Digits(v, a, b, c, d)
  BY DigitsExist
<1> DEFINE s == <<a, b, c, d>>
<1>2. a \in Byte /\ b \in Byte /\ c \in Byte /\ d \in Byte /\ v = Value4(a, b, c, d) /\ U32(v) = s
  BY <1>1 DEF Digits
<1>3. s \in Bytes /\ Len(s) = 4
  BY <1>2 DEF Bytes
<1>4. s[1] = a /\ s[2] = b /\ s[3] = c /\ s[4] = d
  OBVIOUS
<1> HIDE DEF s
<1>5. BigEndian(s) = Value4(s[1], s[2], s[3], s[4])
  BY <1>3, FourBytes
<1> QED
  BY <1>2, <1>3, <1>4, <1>5

\* As many bytes as a value needs.
LEMMA VarIntIs ==
  ASSUME NEW v \in Integer64
  PROVE  /\ VarInt(v) \in Bytes /\ Len(VarInt(v)) = ComputeVarIntLength(v)
         /\ Len(VarInt(v)) \in 1 .. 4 /\ BigEndian(VarInt(v)) = v
<1>1. PICK a, b, c, d : Digits(v, a, b, c, d)
  BY DigitsExist
<1> DEFINE s == <<0, 0, 0, 0, a, b, c, d>>
           First(i) == /\ s[i] # 0 \/ i = 8
                       /\ \A j \in 1 .. i - 1 : s[j] = 0
           first == CHOOSE i \in 1 .. 8 : First(i)
           r == SubSeq(s, first, 8)
<1>2. /\ a \in Nat /\ b \in Nat /\ c \in Nat /\ d \in Nat
      /\ a <= 255 /\ b <= 255 /\ c <= 255 /\ d <= 255
      /\ a \in Byte /\ b \in Byte /\ c \in Byte /\ d \in Byte
      /\ v = Value4(a, b, c, d) /\ U64(v) = s /\ 0 \in Byte
  BY <1>1 DEF Digits, Byte
<1>3. s \in Bytes /\ Len(s) = 8 /\ \A i \in 1 .. 8 : s[i] \in Byte
  BY <1>2 DEF Bytes
<1>4. s[1] = 0 /\ s[2] = 0 /\ s[3] = 0 /\ s[4] = 0 /\ s[5] = a /\ s[6] = b /\ s[7] = c /\ s[8] = d
  OBVIOUS
<1>5. VarInt(v) = r
  BY <1>2 DEF VarInt
<1> DEFINE i0 == IF a # 0 THEN 5 ELSE IF b # 0 THEN 6 ELSE IF c # 0 THEN 7 ELSE 8
<1>6. i0 \in 5 .. 8 /\ First(i0)
  <2> HIDE DEF s
  <2> QED BY <1>4
<1>7. \A i, k \in 1 .. 8 : First(i) /\ First(k) => i = k
  <2> SUFFICES ASSUME NEW i \in 1 .. 8, NEW k \in 1 .. 8, First(i), First(k), i < k PROVE FALSE
    <3> HIDE DEF First
    <3> QED OBVIOUS
  <2>1. s[i] = 0 /\ (s[i] # 0 \/ i = 8)
    <3> HIDE DEF s
    <3> QED OBVIOUS
  <2> QED
    BY <2>1
<1>8. first = i0
  <2> HIDE DEF First, i0
  <2> QED BY <1>6, <1>7
<1> HIDE DEF s, first, First
<1>9. /\ r \in Bytes /\ Len(r) = 9 - i0 /\ \A i \in 1 .. 9 - i0 : r[i] = s[i0 + i - 1]
  <2>1. \A i \in i0 .. 8 : s[i] \in Byte
    BY <1>3, <1>6
  <2>2. /\ SubSeq(s, i0, 8) \in Seq(Byte)
        /\ Len(SubSeq(s, i0, 8)) = IF i0 <= 8 THEN 8 - i0 + 1 ELSE 0
        /\ \A i \in 1 .. 8 - i0 + 1 : SubSeq(s, i0, 8)[i] = s[i0 + i - 1]
    <3>1. i0 \in Int /\ 8 \in Int
      BY <1>6
    <3> HIDE DEF i0
    <3> QED BY <2>1, <3>1, SubSeqProperties
  <2> QED
    BY <1>6, <1>8, <2>2 DEF Bytes
<1> HIDE DEF r
<1>10. BigEndian(r) = CASE Len(r) = 1 -> r[1]
                          [] Len(r) = 2 -> Value4(0, 0, r[1], r[2])
                          [] Len(r) = 3 -> Value4(0, r[1], r[2], r[3])
                          [] Len(r) = 4 -> Value4(r[1], r[2], r[3], r[4])
  <2>1. Len(r) \in 1 .. 4
    BY <1>6, <1>9
  <2> QED
    BY <1>9, <2>1, FourBytes
<1>15. r \in Bytes /\ VarInt(v) = r
  BY <1>5, <1>9
<1>11. CASE a # 0
  <2>1. Len(r) = 4 /\ r[1] = a /\ r[2] = b /\ r[3] = c /\ r[4] = d
    BY <1>4, <1>9, <1>11
  <2>2. v > 16777215
    BY <1>2, <1>11 DEF Value4
  <2>3. ComputeVarIntLength(v) = 4
    BY <2>2 DEF ComputeVarIntLength, Integer64
  <2>4. BigEndian(r) = v
    BY <1>2, <1>10, <2>1
  <2> QED
    BY <1>15, <2>1, <2>3, <2>4
<1>12. CASE a = 0 /\ b # 0
  <2>1. Len(r) = 3 /\ r[1] = b /\ r[2] = c /\ r[3] = d
    BY <1>4, <1>9, <1>12
  <2>2. v > 65535 /\ v <= 16777215
    BY <1>2, <1>12 DEF Value4
  <2>3. ComputeVarIntLength(v) = 3
    BY <2>2 DEF ComputeVarIntLength, Integer64
  <2>4. BigEndian(r) = v
    BY <1>2, <1>10, <1>12, <2>1
  <2> QED
    BY <1>15, <2>1, <2>3, <2>4
<1>13. CASE a = 0 /\ b = 0 /\ c # 0
  <2>1. Len(r) = 2 /\ r[1] = c /\ r[2] = d
    BY <1>4, <1>9, <1>13
  <2>2. v > 255 /\ v <= 65535
    BY <1>2, <1>13 DEF Value4
  <2>3. ComputeVarIntLength(v) = 2
    BY <2>2 DEF ComputeVarIntLength, Integer64
  <2>4. BigEndian(r) = v
    BY <1>2, <1>10, <1>13, <2>1
  <2> QED
    BY <1>15, <2>1, <2>3, <2>4
<1>14. CASE a = 0 /\ b = 0 /\ c = 0
  <2>1. Len(r) = 1 /\ r[1] = d
    BY <1>4, <1>9, <1>14
  <2>2. v = d
    BY <1>2, <1>14 DEF Value4
  <2>3. ComputeVarIntLength(v) = 1
    BY <1>2, <2>2 DEF ComputeVarIntLength
  <2>4. BigEndian(r) = v
    BY <1>10, <2>1, <2>2
  <2> QED
    BY <1>15, <2>1, <2>3, <2>4
<1> QED
  BY <1>11, <1>12, <1>13, <1>14

-----------------------------------------------------------------------------
(* Names *)

\* No number is more than the sum.
LEMMA PartOfTotal ==
  ASSUME NEW n \in Nat, NEW s \in [1 .. n -> Nat], NEW i \in 1 .. n
  PROVE  s[i] \in Nat /\ Total(s) \in Nat /\ s[i] <= Total(s)
<1>1. s \in Seq(Nat) /\ Len(s) = n
  BY FunctionIsSequence
<1>2. PICK t \in [0 .. n -> Nat] : t[0] = 0 /\ (\A k \in 1 .. n : t[k] = t[k - 1] + s[k]) /\ Total(s) = t[n]
  BY <1>1, TotalIs
<1> DEFINE T == {k \in 0 .. n : i <= k => s[i] <= t[k]}
<1>3. 0 \in T
  OBVIOUS
<1>4. ASSUME NEW k \in 1 .. n, k - 1 \in T PROVE k \in T
  <2>1. s[k] \in Nat /\ s[i] \in Nat /\ t[k - 1] \in Nat /\ t[k] = t[k - 1] + s[k]
    BY <1>2
  <2>2. CASE i = k
    BY <2>1, <2>2
  <2>3. CASE i # k
    BY <1>4, <2>1, <2>3
  <2> QED
    BY <2>2, <2>3
<1>5. \A k \in 0 .. n : k \in T
  <2> HIDE DEF T
  <2> QED BY <1>3, <1>4, Induction
<1>6. n \in T
  BY <1>5
<1> QED
  BY <1>2, <1>6

\* The type values of the segments differ.
LEMMA SegmentTypesDiffer ==
  ASSUME NEW type \in SegmentTypes
  PROVE  /\ NameSegmentTypeToSchemaValue(type) \in Word
         /\ SchemaValueToNameSegmentType(NameSegmentTypeToSchemaValue(type)) = {type}
<1>1. \A t \in SegmentTypes :
        NameSegmentTypeToSchemaValue(t) = CASE t = 0 -> 1 [] t = 1 -> 19 [] t = 2 -> 16 [] t = 3 -> 4096
          [] t = 4 -> 4097 [] t = 5 -> 4098 [] t = 6 -> 4099 [] t = 7 -> 4100
  BY DEF NameSegmentTypeToSchemaValue, SegmentTypes
<1>2. \A t \in SegmentTypes : NameSegmentTypeToSchemaValue(t) = NameSegmentTypeToSchemaValue(type) => t = type
  BY <1>1 DEF SegmentTypes
<1>3. NameSegmentTypeToSchemaValue(type) \in Nat /\ NameSegmentTypeToSchemaValue(type) <= 4100
  BY <1>1 DEF SegmentTypes
<1>4. NameSegmentTypeToSchemaValue(type) \in Word
  BY <1>3, WordIs
<1> QED
  BY <1>2, <1>4 DEF SchemaValueToNameSegmentType

\* The TLVs of the segments, and that of the name.
SegmentTlvs(name) ==
  [i \in 1 .. Len(name) |-> [type |-> NameSegmentTypeToSchemaValue(name[i].type), value |-> name[i].value]]
NameTlv(name) == [type |-> T_NAME, value |-> WriteAll(SegmentBytes, name)]

\* Deserialize reads what it can of the TLVs.
LEMMA NameOfTlvs ==
  ASSUME NEW b, NEW name \in Name, SegmentsFilled(name),
         Tlvs(b, Word).ok, Tlvs(b, Word).items = SegmentTlvs(name)
  PROVE  NameOf(b) = {name}
<1> DEFINE n == Len(name)
           tlvs == SegmentTlvs(name)
           Made(i) == [type |-> CHOOSE t \in SchemaValueToNameSegmentType(tlvs[i].type) : TRUE,
                       value |-> tlvs[i].value]
           known == \A i \in 1 .. Len(tlvs) :
                      tlvs[i].value # <<>> /\ SchemaValueToNameSegmentType(tlvs[i].type) # {}
<1>1. n \in Nat /\ name \in [1 .. n -> Segment]
  BY ElementOfSeq DEF Name
<1>2. Len(tlvs) = n
  <2>1. tlvs \in [1 .. n -> {tlvs[i] : i \in 1 .. n}]
    BY DEF SegmentTlvs
  <2> HIDE DEF tlvs, n
  <2> QED BY <1>1, <2>1, FunctionIsSequence
<1>3. NameOf(b) = IF ~known THEN {} ELSE {[i \in 1 .. Len(tlvs) |-> Made(i)]}
  BY DEF NameOf
<1>4. ASSUME NEW i \in 1 .. n
      PROVE  /\ name[i] \in Segment /\ tlvs[i].value = name[i].value
             /\ SchemaValueToNameSegmentType(tlvs[i].type) = {name[i].type}
  <2>1. name[i] \in Segment
    BY <1>1
  <2>2. name[i].type \in SegmentTypes
    BY <2>1 DEF Segment
  <2>3. tlvs[i].type = NameSegmentTypeToSchemaValue(name[i].type) /\ tlvs[i].value = name[i].value
    BY DEF SegmentTlvs
  <2> QED
    BY <2>1, <2>2, <2>3, SegmentTypesDiffer
<1>5. ASSUME NEW i \in 1 .. n PROVE Made(i) = name[i]
  <2>1. \A x : (CHOOSE t \in {x} : TRUE) = x
    OBVIOUS
  <2>2. Made(i) = [type |-> name[i].type, value |-> name[i].value]
    BY <1>4, <2>1
  <2> QED
    BY <1>4, <2>2 DEF Segment
<1>6. known
  BY <1>2, <1>4 DEF SegmentsFilled
<1>7. [i \in 1 .. n |-> Made(i)] = name
  <2> HIDE DEF Made, n
  <2> QED BY <1>1, <1>5
<1> QED
  <2> HIDE DEF Made, known, tlvs
  <2> QED BY <1>2, <1>3, <1>6, <1>7

\* Serialize writes a TLV of the size computed, and Deserialize finds the name in it.
LEMMA NameIs ==
  ASSUME NEW name \in Name
  PROVE  /\ NameSize(name) \in Nat /\ NameSize(name) >= 4
         /\ NameSize(name) \in Word =>
              /\ NameTlv(name) \in Tlv /\ NameBytes(name) = TlvBytes(NameTlv(name))
              /\ NameBytes(name) \in Bytes /\ Len(NameBytes(name)) = NameSize(name)
              /\ SegmentsFilled(name) => NameOf(NameTlv(name).value) = {name}
<1> DEFINE n == Len(name)
           tlvs == SegmentTlvs(name)
           ss == [i \in 1 .. n |-> SegmentBytes(name[i])]
           size == [i \in 1 .. n |-> TLSize + Len(name[i].value)]
           b == FlattenSeq(ss)
<1>1. n \in Nat /\ \A i \in 1 .. n : name[i] \in Segment
  BY ElementOfSeq DEF Name
<1>2. ASSUME NEW i \in 1 .. n
      PROVE  name[i].type \in SegmentTypes /\ name[i].value \in Bytes /\ Len(name[i].value) \in Nat
  BY <1>1 DEF Segment, Bytes
<1>3. size \in [1 .. n -> Nat]
  BY <1>2 DEF TLSize
<1>4. NameSize(name) = 4 + Total(size)
  BY DEF NameSize, SumOver, TLSize
<1>5. Total(size) \in Nat
  <2> HIDE DEF size, n
  <2>1. size \in Seq(Nat) /\ Len(size) = n
    BY <1>1, <1>3, FunctionIsSequence
  <2>2. PICK t \in [0 .. n -> Nat] : Total(size) = t[n]
    BY <2>1, TotalIs
  <2> QED
    BY <1>1, <2>2
<1>6. ASSUME NameSize(name) \in Word
      PROVE  /\ NameTlv(name) \in Tlv /\ NameBytes(name) = TlvBytes(NameTlv(name))
             /\ NameBytes(name) \in Bytes /\ Len(NameBytes(name)) = NameSize(name)
             /\ SegmentsFilled(name) => NameOf(NameTlv(name).value) = {name}
  <2>1. ASSUME NEW i \in 1 .. n
        PROVE  /\ tlvs[i] \in Tlv /\ ss[i] = TlvBytes(tlvs[i]) /\ size[i] = Len(ss[i]) /\ ss[i] \in Bytes
    <3>1. size[i] \in Nat /\ size[i] <= Total(size)
      <4> HIDE DEF size, n
      <4> QED BY <1>1, <1>3, PartOfTotal
    <3>2. size[i] = 4 + Len(name[i].value)
      BY DEF TLSize
    <3>3. Len(name[i].value) <= 65535
      <4>1. NameSize(name) <= 65535
        BY <1>6, WordIs
      <4> HIDE DEF size, n
      <4> QED BY <1>2, <1>4, <1>5, <4>1, <3>1, <3>2
    <3>4. Len(name[i].value) \in Word
      BY <1>2, <3>3, WordIs
    <3>5. tlvs[i] = [type |-> NameSegmentTypeToSchemaValue(name[i].type), value |-> name[i].value]
      BY DEF SegmentTlvs
    <3>6. tlvs[i] \in Tlv
      BY <1>2, <3>4, <3>5, SegmentTypesDiffer DEF Tlv
    <3>7. ss[i] = TlvBytes(tlvs[i])
      <4>1. ss[i] = SegmentBytes(name[i])
        OBVIOUS
      <4>2. tlvs[i].type = NameSegmentTypeToSchemaValue(name[i].type) /\ tlvs[i].value = name[i].value
        BY <3>5
      <4> HIDE DEF ss, tlvs
      <4> QED BY <4>1, <4>2 DEF SegmentBytes, TlvBytes
    <3>8. Len(TlvBytes(tlvs[i])) = 4 + Len(name[i].value) /\ TlvBytes(tlvs[i]) \in Bytes
      BY <3>5, <3>6, TlvBytesIs
    <3> QED
      BY <3>2, <3>6, <3>7, <3>8
  <2>2. tlvs \in [1 .. n -> Tlv] /\ ss \in [1 .. n -> Bytes]
    <3>1. tlvs = [i \in 1 .. n |-> tlvs[i]] /\ ss = [i \in 1 .. n |-> ss[i]]
      BY DEF SegmentTlvs
    <3> HIDE DEF tlvs, ss, n
    <3> QED BY <2>1, <3>1
  <2>3. /\ b \in Bytes /\ Total(size) \in Nat /\ Len(b) = Total(size)
        /\ \E end : Consists(b, n, tlvs, end)
    <3> HIDE DEF tlvs, ss, size, n
    <3> QED BY <1>1, <1>3, <2>1, <2>2, JoinedTlvs
  <2>4. WriteAll(SegmentBytes, name) = b
    BY DEF WriteAll
  <2> HIDE DEF b, tlvs, ss, size, n
  <2>5. NameSize(name) - TLSize = Len(b) /\ Len(b) <= 65535
    <3>1. NameSize(name) <= 65535
      BY <1>6, WordIs
    <3> QED
      BY <1>4, <1>5, <2>3, <3>1 DEF TLSize
  <2>6. NameTlv(name) = [type |-> 0, value |-> b]
    BY <2>4 DEF NameTlv, T_NAME
  <2>7. Len(b) \in Word /\ 0 \in Word
    BY <1>5, <2>3, <2>5, WordIs
  <2>8. NameTlv(name) \in Tlv
    BY <2>3, <2>6, <2>7 DEF Tlv
  <2>9. NameBytes(name) = TlvBytes(NameTlv(name))
    BY <2>4, <2>5, <2>6 DEF NameBytes, TlvBytes, T_NAME
  <2>10. TlvBytes(NameTlv(name)) \in Bytes /\ Len(TlvBytes(NameTlv(name))) = 4 + Len(b)
    BY <2>6, <2>8, TlvBytesIs
  <2>11. ASSUME SegmentsFilled(name)
         PROVE  NameOf(b) = {name}
    <3>1. PICK end : Consists(b, n, tlvs, end)
      BY <2>3
    <3>2. \A k \in 1 .. n : tlvs[k].type \in Word
      BY <2>1, TlvBytesIs
    <3>4. Tlvs(b, Word).ok /\ Tlvs(b, Word).items = tlvs
      BY <1>1, <2>3, <3>1, <3>2, TlvsAreRead
    <3> QED
      BY <2>11, <3>4, NameOfTlvs DEF tlvs, n
  <2> QED
    BY <1>4, <2>3, <2>6, <2>8, <2>9, <2>10, <2>11
<1> QED
  <2>1. NameSize(name) \in Nat /\ NameSize(name) >= 4
    <3> HIDE DEF size
    <3> QED BY <1>4, <1>5
  <2> QED
    BY <2>1, <1>6

-----------------------------------------------------------------------------
(* The parts of a container *)

\* o is what is written of an optional part of a type, whose value is that of values.
Part(type, o, values) ==
  \/ values = {} /\ o = <<>>
  \/ \E tlv \in Tlv : tlv.type = type /\ values = {tlv.value} /\ o = TlvBytes(tlv)

LEMMA EmptyJoined ==
  ASSUME NEW b \in Bytes
  PROVE  <<>> \in Bytes /\ Len(<<>>) = 0 /\ <<>> \o b = b /\ b \o <<>> = b
BY ConcatEmptySeq DEF Bytes

LEMMA HoldsPart ==
  ASSUME NEW b \in Bytes, NEW val, Holds(b, val), NEW type \in DOMAIN val, val[type] = {},
         NEW o, NEW values, Part(type, o, values)
  PROVE  o \in Bytes /\ b \o o \in Bytes /\ Holds(b \o o, [val EXCEPT ![type] = values])
<1>1. CASE values = {} /\ o = <<>>
  <2>1. b \o o = b /\ o \in Bytes
    BY <1>1, EmptyJoined
  <2>2. [val EXCEPT ![type] = values] = [t \in DOMAIN val |-> val[t]]
    BY <1>1
  <2>3. Holds(b, [t \in DOMAIN val |-> val[t]])
    BY DEF Holds, HoldsBy
  <2> QED
    BY <2>1, <2>2, <2>3
<1>2. CASE \E tlv \in Tlv : tlv.type = type /\ values = {tlv.value} /\ o = TlvBytes(tlv)
  <2>1. PICK tlv \in Tlv : tlv.type = type /\ values = {tlv.value} /\ o = TlvBytes(tlv)
    BY <1>2
  <2>2. o \in Bytes
    BY <2>1, TlvBytesIs
  <2>3. b \o o \in Bytes
    BY <2>2, BytesJoin
  <2>4. Holds(b \o TlvBytes(tlv), [val EXCEPT ![tlv.type] = {tlv.value}])
    BY <2>1, HoldsMore
  <2> QED
    BY <2>1, <2>2, <2>3, <2>4
<1> QED
  BY <1>1, <1>2 DEF Part

\* A container is written piece by piece.
Join(s, t) == s \o t

LEMMA JoinsTo ==
  ASSUME NEW a \in Bytes, NEW b \in Bytes
  PROVE  Join(a, b) \in Bytes
BY BytesJoin DEF Join

LEMMA JoinAssociates ==
  ASSUME NEW a \in Bytes, NEW b \in Bytes, NEW c \in Bytes
  PROVE  Join(Join(a, b), c) = Join(a, Join(b, c))
BY ConcatAssociative DEF Bytes, Join

LEMMA JoinsInOrder ==
  ASSUME NEW a \in Bytes, NEW b \in Bytes, NEW c \in Bytes, NEW d \in Bytes, NEW e \in Bytes
  PROVE  Join(Join(Join(Join(a, b), c), d), e) = Join(a, Join(Join(Join(b, c), d), e))
<1>1. Join(b, c) \in Bytes /\ Join(Join(b, c), d) \in Bytes
  BY JoinsTo
<1>2. /\ Join(Join(a, b), c) = Join(a, Join(b, c))
      /\ Join(Join(a, Join(b, c)), d) = Join(a, Join(Join(b, c), d))
      /\ Join(Join(a, Join(Join(b, c), d)), e) = Join(a, Join(Join(Join(b, c), d), e))
  BY <1>1, JoinAssociates
<1> QED
  BY <1>2

\* A container of a TLV and three optional parts, and what is read of it.
FourParts(tlv, o1, v1, o2, v2, o3, v3, t1, t2, t3, types, b) ==
  /\ tlv \in Tlv /\ tlv.type # t1 /\ tlv.type # t2 /\ tlv.type # t3 /\ t1 # t2 /\ t1 # t3 /\ t2 # t3
  /\ Part(t1, o1, v1) /\ Part(t2, o2, v2) /\ Part(t3, o3, v3)
  /\ b = Join(Join(Join(TlvBytes(tlv), o1), o2), o3) /\ types = {tlv.type, t1, t2, t3}
FourRead(tlv, o1, v1, o2, v2, o3, v3, t1, t2, t3, b, nested) ==
  /\ o1 \in Bytes /\ o2 \in Bytes /\ o3 \in Bytes
  /\ b \in Bytes /\ Len(b) = 4 + Len(tlv.value) + Len(o1) + Len(o2) + Len(o3)
  /\ nested.ok
  /\ ValueOf(nested.items, tlv.type) = {tlv.value} /\ ValueOf(nested.items, t1) = v1
  /\ ValueOf(nested.items, t2) = v2 /\ ValueOf(nested.items, t3) = v3

LEMMA FourPartsAreRead ==
  ASSUME NEW tlv, NEW t1, NEW t2, NEW t3, NEW o1, NEW v1, NEW o2, NEW v2, NEW o3, NEW v3, NEW types, NEW b,
         FourParts(tlv, o1, v1, o2, v2, o3, v3, t1, t2, t3, types, b)
  PROVE  FourRead(tlv, o1, v1, o2, v2, o3, v3, t1, t2, t3, b, Tlvs(b, types))
<1> DEFINE t0 == tlv.type
           nested == Tlvs(b, types)
<1>0. /\ tlv \in Tlv /\ t0 # t1 /\ t0 # t2 /\ t0 # t3 /\ t1 # t2 /\ t1 # t3 /\ t2 # t3
      /\ Part(t1, o1, v1) /\ Part(t2, o2, v2) /\ Part(t3, o3, v3)
      /\ b = TlvBytes(tlv) \o o1 \o o2 \o o3 /\ types = {t0, t1, t2, t3}
  BY DEF FourParts, Join
<1> DEFINE known == {t0, t1, t2, t3}
           val0 == [type \in known |-> {}]
           val1 == [val0 EXCEPT ![t0] = {tlv.value}]
           val2 == [val1 EXCEPT ![t1] = v1]
           val3 == [val2 EXCEPT ![t2] = v2]
           val4 == [val3 EXCEPT ![t3] = v3]
           b1 == TlvBytes(tlv)
           b2 == b1 \o o1
           b3 == b2 \o o2
<1>1. b1 \in Bytes /\ Len(b1) = 4 + Len(tlv.value) /\ <<>> \o b1 = b1 /\ <<>> \in Bytes
  BY <1>0, TlvBytesIs, EmptyJoined
<1>2. /\ DOMAIN val0 = known /\ DOMAIN val1 = known /\ DOMAIN val2 = known /\ DOMAIN val3 = known /\ DOMAIN val4 = known
      /\ val0[t0] = {} /\ val1[t1] = {} /\ val2[t2] = {} /\ val3[t3] = {}
      /\ val4[t0] = {tlv.value} /\ val4[t1] = v1 /\ val4[t2] = v2 /\ val4[t3] = v3
      /\ t0 \in known /\ t1 \in known /\ t2 \in known /\ t3 \in known
  BY <1>0
<1>3. Holds(<<>>, val0)
  BY HoldsNothing
<1> HIDE DEF known, val0, b1
<1>4. Holds(<<>> \o TlvBytes(tlv), val1)
  BY <1>0, <1>1, <1>2, <1>3, HoldsMore
<1>5. Holds(b1, val1)
  BY <1>1, <1>4 DEF b1
<1> HIDE DEF val1
<1>6. o1 \in Bytes /\ b2 \in Bytes /\ Holds(b2, val2)
  BY <1>0, <1>1, <1>2, <1>5, HoldsPart
<1> HIDE DEF val2, b2
<1>7. o2 \in Bytes /\ b3 \in Bytes /\ Holds(b3, val3)
  BY <1>0, <1>2, <1>6, HoldsPart
<1> HIDE DEF val3, b3
<1>8. b = b3 \o o3
  BY <1>0 DEF b1, b2, b3
<1>9. o3 \in Bytes /\ b \in Bytes /\ Holds(b, val4)
  <2>1. o3 \in Bytes /\ b3 \o o3 \in Bytes /\ Holds(b3 \o o3, val4)
    BY <1>0, <1>2, <1>7, HoldsPart
  <2> HIDE DEF val4
  <2> QED BY <1>8, <2>1
<1> HIDE DEF val4
<1>10. /\ nested.ok
       /\ \A type \in known : ValueOf(nested.items, type) = val4[type]
  <2>1. nested = Tlvs(b, DOMAIN val4)
    BY <1>0, <1>2 DEF known
  <2>2. /\ Tlvs(b, DOMAIN val4).ok
        /\ \A type \in DOMAIN val4 : ValueOf(Tlvs(b, DOMAIN val4).items, type) = val4[type]
    BY <1>9, HoldsRead
  <2> QED
    BY <1>2, <2>1, <2>2
<1>11. Len(b) = 4 + Len(tlv.value) + Len(o1) + Len(o2) + Len(o3)
  <2>1. Len(b2) = Len(b1) + Len(o1) /\ Len(b1) \in Nat /\ Len(o1) \in Nat
    BY <1>1, <1>6, BytesJoin DEF b2
  <2>2. Len(b3) = Len(b2) + Len(o2) /\ Len(o2) \in Nat
    BY <1>6, <1>7, BytesJoin DEF b3
  <2>3. Len(b) = Len(b3) + Len(o3) /\ Len(o3) \in Nat
    BY <1>7, <1>8, <1>9, BytesJoin
  <2> QED
    BY <1>1, <2>1, <2>2, <2>3
<1> QED
  BY <1>2, <1>6, <1>7, <1>9, <1>10, <1>11 DEF FourRead

\* Reading a container, whatever follows it.
LEMMA ContainerIsRead ==
  ASSUME NEW tlv \in Tlv, NEW rest \in Bytes, NEW b, b = TlvBytes(tlv) \o rest
  PROVE  /\ b \in Bytes /\ Len(b) = 4 + Len(tlv.value) + Len(rest) /\ TLSize + Len(tlv.value) <= Len(b)
         /\ ReadU16(b, 0) = tlv.type /\ ReadU16(b, 2) = Len(tlv.value)
         /\ Read(b, TLSize, Len(tlv.value)) = tlv.value
<1>1. TlvBytes(tlv) \in Bytes /\ Len(TlvBytes(tlv)) = 4 + Len(tlv.value) /\ Len(tlv.value) \in Nat
  BY TlvBytesIs, WordIs
<1>2. b \in Bytes /\ Len(b) = Len(TlvBytes(tlv)) + Len(rest) /\ Len(rest) \in Nat
  BY <1>1, BytesJoin
<1>3. At(b, 0, TlvBytes(tlv))
  BY <1>1, AtConcat DEF Bytes
<1>4. /\ ReadU16(b, 0) = tlv.type /\ ReadU16(b, 0 + 2) = Len(tlv.value)
      /\ Read(b, 0 + 4, Len(tlv.value)) = tlv.value
  BY <1>2, <1>3, TlvIsRead
<1>5. 0 + 2 = 2 /\ 0 + 4 = 4
  OBVIOUS
<1> QED
  BY <1>1, <1>2, <1>4, <1>5 DEF TLSize


-----------------------------------------------------------------------------
(* Interests *)

LEMMA ChooseOnly ==
  ASSUME NEW x
  PROVE  (CHOOSE y \in {x} : TRUE) = x
OBVIOUS

\* A number read from the first eight of the bytes.
LEMMA U64IsRead ==
  ASSUME NEW v \in Integer64, NEW rest \in Bytes
  PROVE  U64(v) \o rest \in Bytes /\ Len(U64(v) \o rest) = 8 + Len(rest) /\ ReadU64(U64(v) \o rest, 0) = v
<1>1. U64(v) \in Bytes /\ Len(U64(v)) = 8 /\ BigEndian(U64(v)) = v
  BY U64Is
<1>2. U64(v) \o rest \in Bytes /\ Len(U64(v) \o rest) = 8 + Len(rest) /\ At(U64(v) \o rest, 0, U64(v))
  BY <1>1, BytesJoin, AtConcat DEF Bytes
<1>3. Read(U64(v) \o rest, 0, Len(U64(v))) = U64(v)
  BY <1>1, <1>2, AtRead DEF Bytes
<1> QED
  BY <1>1, <1>2, <1>3 DEF ReadU64

\* A restriction is found in front of its padding.
LEMMA HashIs ==
  ASSUME NEW k \in Integer64
  PROVE  HashBytes(k) \in Bytes /\ Len(HashBytes(k)) = 32 /\ HashOf(HashBytes(k)) = k
<1> DEFINE zeros == [i \in 1 .. 24 |-> 0]
<1>1. zeros \in Bytes /\ Len(zeros) = 24
  <2>1. zeros \in [1 .. 24 -> Byte]
    BY DEF Byte
  <2> HIDE DEF zeros
  <2> QED BY <2>1, FunctionIsSequence DEF Bytes
<1>2. HashBytes(k) = U64(k) \o zeros
  BY DEF HashBytes, HashLength
<1> HIDE DEF zeros
<1>3. /\ U64(k) \o zeros \in Bytes /\ Len(U64(k) \o zeros) = 8 + Len(zeros)
      /\ ReadU64(U64(k) \o zeros, 0) = k
  BY <1>1, U64IsRead
<1> QED
  BY <1>1, <1>2, <1>3 DEF HashOf

\* The parts of messages, and the values that are read of them.
RestrictionBytes(type, part) ==
  WriteOptional(LAMBDA k : WriteTypeLength(type, HashLength) \o HashBytes(k), part)
RestrictionSize(part) == SizeOptional(LAMBDA k : HashLength, part)
HashValues(part) == {HashBytes(k) : k \in part}

LEMMA RestrictionIs ==
  ASSUME NEW type \in Word, NEW part \in SUBSET Integer64, AtMostOne(part)
  PROVE  /\ Part(type, RestrictionBytes(type, part), HashValues(part))
         /\ RestrictionSize(part) = Len(RestrictionBytes(type, part))
         /\ {HashOf(v) : v \in HashValues(part)} = part
         /\ \A v \in HashValues(part) : Len(v) >= 8
<1>1. ASSUME NEW k \in part PROVE Len(HashBytes(k)) >= 8 /\ HashOf(HashBytes(k)) = k
  <2>1. k \in Integer64
    OBVIOUS
  <2>2. Len(HashBytes(k)) = 32 /\ HashOf(HashBytes(k)) = k
    BY <2>1, HashIs
  <2> QED
    BY <2>2
<1>2. {HashOf(v) : v \in HashValues(part)} = part /\ \A v \in HashValues(part) : Len(v) >= 8
  BY <1>1 DEF HashValues
<1>3. CASE part = {}
  <2>1. RestrictionBytes(type, part) = <<>> /\ RestrictionSize(part) = 0 /\ HashValues(part) = {} /\ Len(<<>>) = 0
    BY <1>3 DEF RestrictionBytes, RestrictionSize, HashValues, WriteOptional, SizeOptional
  <2> QED
    BY <1>2, <2>1 DEF Part
<1>4. CASE part # {}
  <2>1. PICK k \in Integer64 : part = {k}
    BY <1>4 DEF AtMostOne
  <2> DEFINE tlv == [type |-> type, value |-> HashBytes(k)]
  <2>2. HashBytes(k) \in Bytes /\ Len(HashBytes(k)) = 32 /\ 32 \in Word
    BY HashIs, WordIs
  <2>3. tlv \in Tlv /\ Len(TlvBytes(tlv)) = 4 + 32
    <3>1. tlv \in Tlv
      BY <2>2 DEF Tlv
    <3> QED
      BY <2>2, <3>1, TlvBytesIs
  <2>4. RestrictionBytes(type, part) = WriteTypeLength(type, 32) \o HashBytes(k)
    BY <1>4, <2>1, ChooseOnly DEF RestrictionBytes, WriteOptional, HashLength
  <2>5. RestrictionSize(part) = 4 + 32
    BY <1>4 DEF RestrictionSize, SizeOptional, HashLength, TLSize
  <2>6. HashValues(part) = {HashBytes(k)}
    BY <2>1 DEF HashValues
  <2>7. RestrictionBytes(type, part) = TlvBytes(tlv)
    BY <2>2, <2>4 DEF TlvBytes
  <2>8. Part(type, RestrictionBytes(type, part), HashValues(part))
    BY <2>3, <2>6, <2>7 DEF Part
  <2> QED
    BY <1>2, <2>3, <2>5, <2>7, <2>8
<1> QED
  BY <1>3, <1>4

PayloadPart(part) == WriteOptional(PayloadBytes, part)
PayloadSize(part) == SizeOptional(Len, part)

LEMMA PayloadIs ==
  ASSUME NEW part \in SUBSET Bytes, AtMostOne(part), PayloadSize(part) \in Word
  PROVE  /\ Part(T_PAYLOAD, PayloadPart(part), part)
         /\ PayloadSize(part) = Len(PayloadPart(part))
<1>1. CASE part = {}
  <2>1. PayloadPart(part) = <<>> /\ PayloadSize(part) = 0 /\ Len(<<>>) = 0
    BY <1>1 DEF PayloadPart, PayloadSize, WriteOptional, SizeOptional
  <2> QED
    BY <1>1, <2>1 DEF Part
<1>2. CASE part # {}
  <2>1. PICK x \in Bytes : part = {x}
    BY <1>2 DEF AtMostOne
  <2> DEFINE tlv == [type |-> T_PAYLOAD, value |-> x]
  <2>2. PayloadSize(part) = 4 + Len(x)
    BY <1>2, <2>1, ChooseOnly DEF PayloadSize, SizeOptional, TLSize
  <2>3. PayloadPart(part) = WriteTypeLength(T_PAYLOAD, Len(x)) \o x
    BY <1>2, <2>1, ChooseOnly DEF PayloadPart, WriteOptional, PayloadBytes
  <2>4. Len(x) \in Nat /\ Len(x) <= 65535
    BY <2>2, BytesAreNaturals, WordIs
  <2>5. Len(x) \in Word /\ T_PAYLOAD \in Word
    BY <2>4, WordIs DEF T_PAYLOAD
  <2>6. tlv \in Tlv
    BY <2>5 DEF Tlv
  <2>7. Len(TlvBytes(tlv)) = 4 + Len(x)
    BY <2>6, TlvBytesIs
  <2>8. PayloadPart(part) = TlvBytes(tlv)
    BY <2>3 DEF TlvBytes
  <2>9. Part(T_PAYLOAD, PayloadPart(part), part)
    BY <2>1, <2>6, <2>8 DEF Part
  <2> QED
    BY <2>2, <2>7, <2>8, <2>9
<1> QED
  BY <1>1, <1>2

\* Four pieces that fit together fit one by one.
Sized(a, b, c, d) == 4 + a + b + c + d \in Word

LEMMA EachFits ==
  ASSUME NEW a \in Nat, NEW b \in Nat, NEW c \in Nat, NEW d \in Nat, Sized(a, b, c, d)
  PROVE  /\ a \in Word /\ d \in Word /\ a + b + c + d \in Word
         /\ ((4 + a + b + c + d) % 65536) - 4 = a + b + c + d
<1>1. 4 + a + b + c + d <= 65535
  BY WordIs DEF Sized
<1>2. a <= 65535 /\ d <= 65535 /\ ((4 + a + b + c + d) % 65536) - 4 = a + b + c + d
  BY <1>1
<1>3. PICK v \in Nat : v = a + b + c + d
  OBVIOUS
<1>4. v <= 65535
  BY <1>1, <1>3
<1> QED
  BY <1>2, <1>3, <1>4, WordIs

LEMMA OptionalSizes ==
  /\ \A part \in SUBSET Integer64 : RestrictionSize(part) \in Nat
  /\ \A part \in SUBSET Bytes : PayloadSize(part) \in Nat
<1>1. ASSUME NEW part \in SUBSET Integer64 PROVE RestrictionSize(part) \in Nat
  BY DEF RestrictionSize, SizeOptional, TLSize, HashLength
<1>2. ASSUME NEW part \in SUBSET Bytes PROVE PayloadSize(part) \in Nat
  <2>1. CASE part = {}
    BY <2>1 DEF PayloadSize, SizeOptional
  <2>2. CASE part # {}
    <3>1. Len(CHOOSE x \in part : TRUE) \in Nat
      <4>1. (CHOOSE x \in part : TRUE) \in Bytes
        BY <2>2
      <4> QED
        BY <4>1, BytesAreNaturals
    <3> QED
      BY <2>2, <3>1 DEF PayloadSize, SizeOptional, TLSize
  <2> QED
    BY <2>1, <2>2
<1> QED
  BY <1>1, <1>2

LEMMA InterestSizeIs ==
  ASSUME NEW m \in Interest
  PROVE  /\ m.name \in Name /\ m.keyid \in SUBSET Integer64 /\ m.hash \in SUBSET Integer64 /\ m.payload \in SUBSET Bytes
         /\ NameSize(m.name) \in Nat /\ RestrictionSize(m.keyid) \in Nat
         /\ RestrictionSize(m.hash) \in Nat /\ PayloadSize(m.payload) \in Nat
         /\ InterestSize(m) = 4 + NameSize(m.name) + RestrictionSize(m.keyid) + RestrictionSize(m.hash)
                                + PayloadSize(m.payload)
         /\ InterestSize(m) \in Nat
<1>1. /\ m.name \in Name /\ m.keyid \in SUBSET Integer64 /\ m.hash \in SUBSET Integer64
      /\ m.payload \in SUBSET Bytes
  BY DEF Interest
<1>2. /\ NameSize(m.name) \in Nat /\ RestrictionSize(m.keyid) \in Nat
      /\ RestrictionSize(m.hash) \in Nat /\ PayloadSize(m.payload) \in Nat
  BY <1>1, NameIs, OptionalSizes
<1>3. InterestSize(m) = 4 + NameSize(m.name) + RestrictionSize(m.keyid) + RestrictionSize(m.hash)
                          + PayloadSize(m.payload)
  BY DEF InterestSize, RestrictionSize, PayloadSize, SizeOptional, TLSize
<1> QED
  BY <1>1, <1>2, <1>3

InterestParts(m) ==
  NameBytes(m.name) \o RestrictionBytes(T_KEYID_REST, m.keyid) \o RestrictionBytes(T_HASH_REST, m.hash)
    \o PayloadPart(m.payload)
InterestTypes == {T_NAME, T_KEYID_REST, T_HASH_REST, T_PAYLOAD}
InterestTlv(m) == [type |-> T_INTEREST, value |-> InterestParts(m)]

LEMMA TypesDiffer ==
  /\ T_NAME = 0 /\ T_PAYLOAD = 1 /\ T_KEYID_REST = 2 /\ T_HASH_REST = 3 /\ T_PAYLDTYPE = 5 /\ T_EXPIRY = 6
  /\ T_NAME \in Word /\ T_PAYLOAD \in Word /\ T_KEYID_REST \in Word /\ T_HASH_REST \in Word
  /\ T_PAYLDTYPE \in Word /\ T_EXPIRY \in Word /\ T_INTEREST = 1 /\ T_OBJECT = 2
  /\ T_INTEREST \in Word /\ T_OBJECT \in Word
BY WordIs DEF T_NAME, T_PAYLOAD, T_KEYID_REST, T_HASH_REST, T_PAYLDTYPE, T_EXPIRY, T_INTEREST, T_OBJECT

\* An Interest is a TLV of its size, within which every part is found again.
LEMMA InterestIsWritten ==
  ASSUME NEW m, InterestFits(m)
  PROVE  /\ InterestBytes(m) = TlvBytes(InterestTlv(m)) /\ InterestTlv(m) \in Tlv
         /\ InterestBytes(m) \in Bytes /\ Len(InterestBytes(m)) = InterestSize(m)
         /\ NameOf(NameTlv(m.name).value) = {m.name}
         /\ FourRead(NameTlv(m.name), RestrictionBytes(T_KEYID_REST, m.keyid), HashValues(m.keyid),
                     RestrictionBytes(T_HASH_REST, m.hash), HashValues(m.hash), PayloadPart(m.payload), m.payload,
                     T_KEYID_REST, T_HASH_REST, T_PAYLOAD, InterestParts(m), Tlvs(InterestParts(m), InterestTypes))
<1> DEFINE size == InterestSize(m)
           n == NameSize(m.name)
           k == RestrictionSize(m.keyid)
           h == RestrictionSize(m.hash)
           p == PayloadSize(m.payload)
           V == InterestParts(m)
           tlv == InterestTlv(m)
<1>1. /\ m \in Interest /\ size \in Word /\ SegmentsFilled(m.name)
      /\ AtMostOne(m.keyid) /\ AtMostOne(m.hash) /\ AtMostOne(m.payload)
  BY DEF InterestFits
<1>2. /\ m.name \in Name /\ m.keyid \in SUBSET Integer64 /\ m.hash \in SUBSET Integer64 /\ m.payload \in SUBSET Bytes
      /\ n \in Nat /\ k \in Nat /\ h \in Nat /\ p \in Nat /\ size = 4 + n + k + h + p
  BY <1>1, InterestSizeIs
<1>3. n \in Word /\ p \in Word /\ n + k + h + p \in Word /\ (size % 65536) - 4 = n + k + h + p
  <2>1. Sized(n, k, h, p)
    BY <1>1, <1>2 DEF Sized
  <2>2. /\ n \in Word /\ p \in Word /\ n + k + h + p \in Word
        /\ ((4 + n + k + h + p) % 65536) - 4 = n + k + h + p
    <3> HIDE DEF n, k, h, p
    <3> QED BY <1>2, <2>1, EachFits
  <2> QED
    BY <1>2, <2>2
<1>4. /\ NameTlv(m.name) \in Tlv /\ NameBytes(m.name) = TlvBytes(NameTlv(m.name))
      /\ NameBytes(m.name) \in Bytes /\ Len(NameBytes(m.name)) = n /\ NameOf(NameTlv(m.name).value) = {m.name}
  <2>1. NameSize(m.name) \in Word
    BY <1>3
  <2> QED
    BY <1>1, <1>2, <2>1, NameIs
<1>5. /\ Part(T_KEYID_REST, RestrictionBytes(T_KEYID_REST, m.keyid), HashValues(m.keyid))
      /\ k = Len(RestrictionBytes(T_KEYID_REST, m.keyid))
      /\ Part(T_HASH_REST, RestrictionBytes(T_HASH_REST, m.hash), HashValues(m.hash))
      /\ h = Len(RestrictionBytes(T_HASH_REST, m.hash))
  BY <1>1, <1>2, TypesDiffer, RestrictionIs
<1>6. Part(T_PAYLOAD, PayloadPart(m.payload), m.payload) /\ p = Len(PayloadPart(m.payload))
  <2>1. PayloadSize(m.payload) \in Word
    BY <1>3
  <2> QED
    BY <1>1, <1>2, <2>1, PayloadIs
<1>7. /\ NameTlv(m.name).type = T_NAME
      /\ T_NAME # T_KEYID_REST /\ T_NAME # T_HASH_REST /\ T_NAME # T_PAYLOAD
      /\ T_KEYID_REST # T_HASH_REST /\ T_KEYID_REST # T_PAYLOAD /\ T_HASH_REST # T_PAYLOAD
  BY TypesDiffer DEF NameTlv
<1>8. V = Join(Join(Join(NameBytes(m.name), RestrictionBytes(T_KEYID_REST, m.keyid)),
                    RestrictionBytes(T_HASH_REST, m.hash)), PayloadPart(m.payload))
  BY DEF InterestParts, Join
<1> HIDE DEF V
<1>9. FourParts(NameTlv(m.name), RestrictionBytes(T_KEYID_REST, m.keyid), HashValues(m.keyid),
                RestrictionBytes(T_HASH_REST, m.hash), HashValues(m.hash), PayloadPart(m.payload), m.payload,
                T_KEYID_REST, T_HASH_REST, T_PAYLOAD, InterestTypes, V)
  BY <1>4, <1>5, <1>6, <1>7, <1>8 DEF FourParts, InterestTypes
<1>10. FourRead(NameTlv(m.name), RestrictionBytes(T_KEYID_REST, m.keyid), HashValues(m.keyid),
                RestrictionBytes(T_HASH_REST, m.hash), HashValues(m.hash), PayloadPart(m.payload), m.payload,
                T_KEYID_REST, T_HASH_REST, T_PAYLOAD, V, Tlvs(V, InterestTypes))
  BY <1>9, FourPartsAreRead
<1>a. /\ RestrictionBytes(T_KEYID_REST, m.keyid) \in Bytes /\ RestrictionBytes(T_HASH_REST, m.hash) \in Bytes
      /\ PayloadPart(m.payload) \in Bytes
      /\ V \in Bytes /\ Len(V) = 4 + Len(NameTlv(m.name).value) + Len(RestrictionBytes(T_KEYID_REST, m.keyid))
                                  + Len(RestrictionBytes(T_HASH_REST, m.hash)) + Len(PayloadPart(m.payload))
  BY <1>10 DEF FourRead
<1>11. Len(V) = n + k + h + p
  <2>1. n = 4 + Len(NameTlv(m.name).value)
    BY <1>4, TlvBytesIs
  <2> HIDE DEF n, k, h, p
  <2> QED BY <1>5, <1>6, <1>a, <2>1
<1>12. tlv \in Tlv /\ tlv.value = V /\ tlv.type = T_INTEREST
  <2>1. tlv = [type |-> T_INTEREST, value |-> V]
    BY DEF InterestTlv, V
  <2>2. Len(V) \in Word
    BY <1>3, <1>11
  <2> HIDE DEF tlv
  <2> QED BY <1>a, <2>1, <2>2, TypesDiffer DEF Tlv
<1> DEFINE a == WriteTypeLength(T_INTEREST, (size % 65536) - 4)
<1>13. InterestBytes(m) = Join(Join(Join(Join(a, NameBytes(m.name)), RestrictionBytes(T_KEYID_REST, m.keyid)),
                                    RestrictionBytes(T_HASH_REST, m.hash)), PayloadPart(m.payload))
  BY DEF InterestBytes, RestrictionBytes, PayloadPart, WriteOptional, TLSize, Join
<1>14. a = WriteTypeLength(T_INTEREST, Len(V))
  BY <1>3, <1>11
<1>15. a \in Bytes
  BY <1>12, <1>14, TypesDiffer, TlvBytesIs, WriteTypeLengthIs
<1> HIDE DEF a
<1>16. InterestBytes(m) = Join(a, V)
  BY <1>4, <1>8, <1>a, <1>13, <1>15, JoinsInOrder
<1>17. InterestBytes(m) = TlvBytes(tlv)
  BY <1>12, <1>14, <1>16 DEF TlvBytes, Join
<1>18. TlvBytes(tlv) \in Bytes /\ Len(TlvBytes(tlv)) = 4 + Len(V)
  BY <1>12, TlvBytesIs
<1>19. Len(InterestBytes(m)) = size
  <2> HIDE DEF n, k, h, p, tlv
  <2> QED BY <1>2, <1>11, <1>17, <1>18
<1> QED
  BY <1>4, <1>10, <1>12, <1>17, <1>18, <1>19 DEF V

\* Deserialize finds the Interest that Serialize wrote, whatever follows it.
LEMMA InterestIsRead ==
  ASSUME NEW m, InterestFits(m), NEW rest \in Bytes
  PROVE  InterestOf(InterestBytes(m) \o rest) = {m}
<1> DEFINE V == InterestParts(m)
           b == InterestBytes(m) \o rest
           types == {T_NAME, T_KEYID_REST, T_HASH_REST, T_PAYLOAD}
<1>1. /\ InterestBytes(m) = TlvBytes(InterestTlv(m)) /\ InterestTlv(m) \in Tlv
      /\ NameOf(NameTlv(m.name).value) = {m.name}
  BY InterestIsWritten
<1>2. PICK nested : /\ nested = Tlvs(V, InterestTypes) /\ nested.ok
                    /\ ValueOf(nested.items, T_NAME) = {NameTlv(m.name).value}
                    /\ ValueOf(nested.items, T_KEYID_REST) = HashValues(m.keyid)
                    /\ ValueOf(nested.items, T_HASH_REST) = HashValues(m.hash)
                    /\ ValueOf(nested.items, T_PAYLOAD) = m.payload
  <2>1. NameTlv(m.name).type = T_NAME
    BY DEF NameTlv
  <2> QED
    BY <2>1, InterestIsWritten DEF FourRead
<1>3. InterestTlv(m).value = V /\ InterestTlv(m).type = T_INTEREST /\ InterestTypes = types
  BY DEF InterestTlv, InterestTypes
<1> HIDE DEF V
<1>4. b = TlvBytes(InterestTlv(m)) \o rest
  BY <1>1
<1> HIDE DEF b
<1>5. /\ b \in Bytes /\ TLSize + Len(V) <= Len(b)
      /\ ReadU16(b, 0) = T_INTEREST /\ ReadU16(b, 2) = Len(V) /\ Read(b, TLSize, Len(V)) = V
  BY <1>1, <1>3, <1>4, ContainerIsRead
<1> DEFINE length == ReadU16(b, 2)
           inner == Tlvs(Read(b, TLSize, length), types)
           hashes == ValueOf(inner.items, T_KEYID_REST) \cup ValueOf(inner.items, T_HASH_REST)
           whole == ReadU16(b, 0) = T_INTEREST /\ TLSize + length <= Len(b) /\ inner.ok /\ \A v \in hashes : Len(v) >= 8
           Made(name) == [kind |-> "Interest", name |-> name,
                          keyid |-> {HashOf(v) : v \in ValueOf(inner.items, T_KEYID_REST)},
                          hash |-> {HashOf(v) : v \in ValueOf(inner.items, T_HASH_REST)},
                          payload |-> ValueOf(inner.items, T_PAYLOAD)]
<1>6. InterestOf(b) = {Made(name) : name \in UNION {NameOf(v) : v \in
                         IF whole THEN ValueOf(inner.items, T_NAME) ELSE {}}}
  BY DEF InterestOf
<1>7. inner = nested
  BY <1>2, <1>3, <1>5
<1>8. /\ m \in Interest /\ AtMostOne(m.keyid) /\ AtMostOne(m.hash) /\ m.keyid \in SUBSET Integer64
      /\ m.hash \in SUBSET Integer64
  BY InterestSizeIs DEF InterestFits
<1>9. /\ {HashOf(v) : v \in HashValues(m.keyid)} = m.keyid /\ \A v \in HashValues(m.keyid) : Len(v) >= 8
      /\ {HashOf(v) : v \in HashValues(m.hash)} = m.hash /\ \A v \in HashValues(m.hash) : Len(v) >= 8
  BY <1>8, TypesDiffer, RestrictionIs
<1> HIDE DEF inner
<1>10. whole
  BY <1>2, <1>5, <1>7, <1>9
<1>11. Made(m.name) = m
  <2>1. Made(m.name) = [kind |-> "Interest", name |-> m.name, keyid |-> m.keyid, hash |-> m.hash, payload |-> m.payload]
    BY <1>2, <1>7, <1>9
  <2> QED
    BY <1>8, <2>1 DEF Interest
<1>12. (IF whole THEN ValueOf(inner.items, T_NAME) ELSE {}) = {NameTlv(m.name).value}
  BY <1>2, <1>7, <1>10
<1>13. UNION {NameOf(v) : v \in {NameTlv(m.name).value}} = {m.name}
  BY <1>1
<1> HIDE DEF Made, whole
<1>14. InterestOf(b) = {m}
  BY <1>6, <1>11, <1>12, <1>13
<1> QED
  BY <1>14 DEF b

-----------------------------------------------------------------------------
(* Content Objects *)

PayloadTypeBytes(type) ==
  IF type = 0 THEN <<>> ELSE WriteTypeLength(T_PAYLDTYPE, 1) \o <<type>>
PayloadTypeSize(type) == IF type = 0 THEN 0 ELSE TLSize + 1
PayloadTypeValues(type) == IF type = 0 THEN {} ELSE {<<type>>}
ExpiryBytes(part) == WriteOptional(LAMBDA time : WriteTypeLength(T_EXPIRY, 8) \o U64(time), part)
ExpirySize(part) == SizeOptional(LAMBDA time : 8, part)
ExpiryValues(part) == {U64(time) : time \in part}

LEMMA PayloadTypeIs ==
  ASSUME NEW type \in PayloadTypes
  PROVE  /\ Part(T_PAYLDTYPE, PayloadTypeBytes(type), PayloadTypeValues(type))
         /\ PayloadTypeSize(type) = Len(PayloadTypeBytes(type))
         /\ PayloadTypeValues(type) \subseteq {<<t>> : t \in PayloadTypes}
         /\ (IF PayloadTypeValues(type) = {} THEN 0
             ELSE CHOOSE t \in PayloadTypes : <<t>> \in PayloadTypeValues(type)) = type
<1>1. CASE type = 0
  <2>1. PayloadTypeBytes(type) = <<>> /\ PayloadTypeSize(type) = 0 /\ PayloadTypeValues(type) = {} /\ Len(<<>>) = 0
    BY <1>1 DEF PayloadTypeBytes, PayloadTypeSize, PayloadTypeValues
  <2> QED
    BY <1>1, <2>1 DEF Part
<1>2. CASE type # 0
  <2> DEFINE tlv == [type |-> T_PAYLDTYPE, value |-> <<type>>]
  <2>1. /\ PayloadTypeBytes(type) = WriteTypeLength(T_PAYLDTYPE, 1) \o <<type>>
        /\ PayloadTypeSize(type) = 4 + 1 /\ PayloadTypeValues(type) = {<<type>>}
    BY <1>2 DEF PayloadTypeBytes, PayloadTypeSize, PayloadTypeValues, TLSize
  <2>2. <<type>> \in Bytes /\ Len(<<type>>) = 1
    BY DEF PayloadTypes, Bytes, Byte
  <2>3. tlv \in Tlv /\ tlv.value = <<type>> /\ tlv.type = T_PAYLDTYPE
    <3>1. 1 \in Word /\ T_PAYLDTYPE \in Word
      BY WordIs, TypesDiffer
    <3> QED
      BY <2>2, <3>1 DEF Tlv
  <2>4. PayloadTypeBytes(type) = TlvBytes(tlv)
    BY <2>1, <2>2, <2>3 DEF TlvBytes
  <2>5. Len(TlvBytes(tlv)) = 4 + 1
    BY <2>2, <2>3, TlvBytesIs
  <2> HIDE DEF tlv
  <2>6. Part(T_PAYLDTYPE, PayloadTypeBytes(type), PayloadTypeValues(type))
    BY <2>1, <2>3, <2>4 DEF Part
  <2>7. (CHOOSE t \in PayloadTypes : <<t>> \in {<<type>>}) = type
    OBVIOUS
  <2> QED
    BY <2>1, <2>4, <2>5, <2>6, <2>7
<1> QED
  BY <1>1, <1>2

LEMMA ExpiryIs ==
  ASSUME NEW part \in SUBSET Integer64, AtMostOne(part)
  PROVE  /\ Part(T_EXPIRY, ExpiryBytes(part), ExpiryValues(part))
         /\ ExpirySize(part) = Len(ExpiryBytes(part))
         /\ {ReadU64(v, 0) : v \in ExpiryValues(part)} = part
         /\ \A v \in ExpiryValues(part) : Len(v) = 8
<1>1. ASSUME NEW k \in part PROVE Len(U64(k)) = 8 /\ ReadU64(U64(k), 0) = k /\ U64(k) \in Bytes
  <2>1. k \in Integer64
    OBVIOUS
  <2>2. U64(k) \in Bytes /\ U64(k) \o <<>> = U64(k) /\ <<>> \in Bytes /\ Len(U64(k)) = 8
    BY <2>1, U64Is, EmptyJoined
  <2>3. ReadU64(U64(k) \o <<>>, 0) = k
    BY <2>1, <2>2, U64IsRead
  <2> QED
    BY <2>2, <2>3
<1>2. {ReadU64(v, 0) : v \in ExpiryValues(part)} = part /\ \A v \in ExpiryValues(part) : Len(v) = 8
  BY <1>1 DEF ExpiryValues
<1>3. CASE part = {}
  <2>1. ExpiryBytes(part) = <<>> /\ ExpirySize(part) = 0 /\ ExpiryValues(part) = {} /\ Len(<<>>) = 0
    BY <1>3 DEF ExpiryBytes, ExpirySize, ExpiryValues, WriteOptional, SizeOptional
  <2> QED
    BY <1>2, <2>1 DEF Part
<1>4. CASE part # {}
  <2>1. PICK k \in Integer64 : part = {k}
    BY <1>4 DEF AtMostOne
  <2> DEFINE tlv == [type |-> T_EXPIRY, value |-> U64(k)]
  <2>2. U64(k) \in Bytes /\ Len(U64(k)) = 8 /\ 8 \in Word /\ T_EXPIRY \in Word
    BY <1>1, <2>1, WordIs, TypesDiffer
  <2>3. tlv \in Tlv /\ Len(TlvBytes(tlv)) = 4 + 8
    <3>1. tlv \in Tlv
      BY <2>2 DEF Tlv
    <3> QED
      BY <2>2, <3>1, TlvBytesIs
  <2>4. ExpiryBytes(part) = WriteTypeLength(T_EXPIRY, 8) \o U64(k)
    BY <1>4, <2>1, ChooseOnly DEF ExpiryBytes, WriteOptional
  <2>5. ExpirySize(part) = 4 + 8
    BY <1>4 DEF ExpirySize, SizeOptional, TLSize
  <2>6. ExpiryValues(part) = {U64(k)}
    BY <2>1 DEF ExpiryValues
  <2>7. ExpiryBytes(part) = TlvBytes(tlv)
    BY <2>2, <2>4 DEF TlvBytes
  <2>8. Part(T_EXPIRY, ExpiryBytes(part), ExpiryValues(part))
    BY <2>3, <2>6, <2>7 DEF Part
  <2> QED
    BY <1>2, <2>3, <2>5, <2>7, <2>8
<1> QED
  BY <1>3, <1>4

LEMMA ContentSizeIs ==
  ASSUME NEW m \in ContentObject
  PROVE  /\ m.name \in Name /\ m.payloadType \in PayloadTypes /\ m.expiryTime \in SUBSET Integer64
         /\ m.payload \in SUBSET Bytes
         /\ NameSize(m.name) \in Nat /\ PayloadTypeSize(m.payloadType) \in Nat
         /\ ExpirySize(m.expiryTime) \in Nat /\ PayloadSize(m.payload) \in Nat
         /\ ContentObjectSize(m) = 4 + NameSize(m.name) + PayloadTypeSize(m.payloadType) + ExpirySize(m.expiryTime)
                                     + PayloadSize(m.payload)
         /\ ContentObjectSize(m) \in Nat
<1>1. /\ m.name \in Name /\ m.payloadType \in PayloadTypes /\ m.expiryTime \in SUBSET Integer64
      /\ m.payload \in SUBSET Bytes
  BY DEF ContentObject
<1>2. NameSize(m.name) \in Nat /\ PayloadSize(m.payload) \in Nat
  BY <1>1, NameIs, OptionalSizes
<1>3. PayloadTypeSize(m.payloadType) \in Nat /\ ExpirySize(m.expiryTime) \in Nat
  BY DEF PayloadTypeSize, ExpirySize, SizeOptional, TLSize
<1>4. ContentObjectSize(m) = 4 + NameSize(m.name) + PayloadTypeSize(m.payloadType) + ExpirySize(m.expiryTime)
                              + PayloadSize(m.payload)
  BY DEF ContentObjectSize, PayloadTypeSize, ExpirySize, PayloadSize, SizeOptional, TLSize
<1> QED
  BY <1>1, <1>2, <1>3, <1>4

ContentParts(m) ==
  NameBytes(m.name) \o PayloadTypeBytes(m.payloadType) \o ExpiryBytes(m.expiryTime) \o PayloadPart(m.payload)
ContentTypes == {T_NAME, T_PAYLDTYPE, T_EXPIRY, T_PAYLOAD}
ContentTlv(m) == [type |-> T_OBJECT, value |-> ContentParts(m)]

\* A Content Object is a TLV of its size, within which every part is found again.
LEMMA ContentIsWritten ==
  ASSUME NEW m, ContentObjectFits(m)
  PROVE  /\ ContentObjectBytes(m) = TlvBytes(ContentTlv(m)) /\ ContentTlv(m) \in Tlv
         /\ ContentObjectBytes(m) \in Bytes /\ Len(ContentObjectBytes(m)) = ContentObjectSize(m)
         /\ NameOf(NameTlv(m.name).value) = {m.name}
         /\ FourRead(NameTlv(m.name), PayloadTypeBytes(m.payloadType), PayloadTypeValues(m.payloadType),
                     ExpiryBytes(m.expiryTime), ExpiryValues(m.expiryTime), PayloadPart(m.payload), m.payload,
                     T_PAYLDTYPE, T_EXPIRY, T_PAYLOAD, ContentParts(m), Tlvs(ContentParts(m), ContentTypes))
<1> DEFINE size == ContentObjectSize(m)
           n == NameSize(m.name)
           k == PayloadTypeSize(m.payloadType)
           h == ExpirySize(m.expiryTime)
           p == PayloadSize(m.payload)
           V == ContentParts(m)
           tlv == ContentTlv(m)
<1>1. /\ m \in ContentObject /\ size \in Word /\ SegmentsFilled(m.name)
      /\ AtMostOne(m.expiryTime) /\ AtMostOne(m.payload)
  BY DEF ContentObjectFits
<1>2. /\ m.name \in Name /\ m.payloadType \in PayloadTypes /\ m.expiryTime \in SUBSET Integer64 /\ m.payload \in SUBSET Bytes
      /\ n \in Nat /\ k \in Nat /\ h \in Nat /\ p \in Nat /\ size = 4 + n + k + h + p
  BY <1>1, ContentSizeIs
<1>3. n \in Word /\ p \in Word /\ n + k + h + p \in Word /\ (size % 65536) - 4 = n + k + h + p
  <2>1. Sized(n, k, h, p)
    BY <1>1, <1>2 DEF Sized
  <2>2. /\ n \in Word /\ p \in Word /\ n + k + h + p \in Word
        /\ ((4 + n + k + h + p) % 65536) - 4 = n + k + h + p
    <3> HIDE DEF n, k, h, p
    <3> QED BY <1>2, <2>1, EachFits
  <2> QED
    BY <1>2, <2>2
<1>4. /\ NameTlv(m.name) \in Tlv /\ NameBytes(m.name) = TlvBytes(NameTlv(m.name))
      /\ NameBytes(m.name) \in Bytes /\ Len(NameBytes(m.name)) = n /\ NameOf(NameTlv(m.name).value) = {m.name}
  <2>1. NameSize(m.name) \in Word
    BY <1>3
  <2> QED
    BY <1>1, <1>2, <2>1, NameIs
<1>5. /\ Part(T_PAYLDTYPE, PayloadTypeBytes(m.payloadType), PayloadTypeValues(m.payloadType))
      /\ k = Len(PayloadTypeBytes(m.payloadType))
      /\ Part(T_EXPIRY, ExpiryBytes(m.expiryTime), ExpiryValues(m.expiryTime))
      /\ h = Len(ExpiryBytes(m.expiryTime))
  BY <1>1, <1>2, PayloadTypeIs, ExpiryIs
<1>6. Part(T_PAYLOAD, PayloadPart(m.payload), m.payload) /\ p = Len(PayloadPart(m.payload))
  <2>1. PayloadSize(m.payload) \in Word
    BY <1>3
  <2> QED
    BY <1>1, <1>2, <2>1, PayloadIs
<1>7. /\ NameTlv(m.name).type = T_NAME
      /\ T_NAME # T_PAYLDTYPE /\ T_NAME # T_EXPIRY /\ T_NAME # T_PAYLOAD
      /\ T_PAYLDTYPE # T_EXPIRY /\ T_PAYLDTYPE # T_PAYLOAD /\ T_EXPIRY # T_PAYLOAD
  BY TypesDiffer DEF NameTlv
<1>8. V = Join(Join(Join(NameBytes(m.name), PayloadTypeBytes(m.payloadType)),
                    ExpiryBytes(m.expiryTime)), PayloadPart(m.payload))
  BY DEF ContentParts, Join
<1> HIDE DEF V
<1>9. FourParts(NameTlv(m.name), PayloadTypeBytes(m.payloadType), PayloadTypeValues(m.payloadType),
                ExpiryBytes(m.expiryTime), ExpiryValues(m.expiryTime), PayloadPart(m.payload), m.payload,
                T_PAYLDTYPE, T_EXPIRY, T_PAYLOAD, ContentTypes, V)
  BY <1>4, <1>5, <1>6, <1>7, <1>8 DEF FourParts, ContentTypes
<1>10. FourRead(NameTlv(m.name), PayloadTypeBytes(m.payloadType), PayloadTypeValues(m.payloadType),
                ExpiryBytes(m.expiryTime), ExpiryValues(m.expiryTime), PayloadPart(m.payload), m.payload,
                T_PAYLDTYPE, T_EXPIRY, T_PAYLOAD, V, Tlvs(V, ContentTypes))
  BY <1>9, FourPartsAreRead
<1>a. /\ PayloadTypeBytes(m.payloadType) \in Bytes /\ ExpiryBytes(m.expiryTime) \in Bytes
      /\ PayloadPart(m.payload) \in Bytes
      /\ V \in Bytes /\ Len(V) = 4 + Len(NameTlv(m.name).value) + Len(PayloadTypeBytes(m.payloadType))
                                  + Len(ExpiryBytes(m.expiryTime)) + Len(PayloadPart(m.payload))
  BY <1>10 DEF FourRead
<1>11. Len(V) = n + k + h + p
  <2>1. n = 4 + Len(NameTlv(m.name).value)
    BY <1>4, TlvBytesIs
  <2> HIDE DEF n, k, h, p
  <2> QED BY <1>5, <1>6, <1>a, <2>1
<1>12. tlv \in Tlv /\ tlv.value = V /\ tlv.type = T_OBJECT
  <2>1. tlv = [type |-> T_OBJECT, value |-> V]
    BY DEF ContentTlv, V
  <2>2. Len(V) \in Word
    BY <1>3, <1>11
  <2> HIDE DEF tlv
  <2> QED BY <1>a, <2>1, <2>2, TypesDiffer DEF Tlv
<1> DEFINE a == WriteTypeLength(T_OBJECT, (size % 65536) - 4)
<1>13. ContentObjectBytes(m) = Join(Join(Join(Join(a, NameBytes(m.name)), PayloadTypeBytes(m.payloadType)),
                                    ExpiryBytes(m.expiryTime)), PayloadPart(m.payload))
  BY DEF ContentObjectBytes, PayloadTypeBytes, ExpiryBytes, PayloadPart, WriteOptional, TLSize, Join
<1>14. a = WriteTypeLength(T_OBJECT, Len(V))
  BY <1>3, <1>11
<1>15. a \in Bytes
  BY <1>12, <1>14, TypesDiffer, TlvBytesIs, WriteTypeLengthIs
<1> HIDE DEF a
<1>16. ContentObjectBytes(m) = Join(a, V)
  BY <1>4, <1>8, <1>a, <1>13, <1>15, JoinsInOrder
<1>17. ContentObjectBytes(m) = TlvBytes(tlv)
  BY <1>12, <1>14, <1>16 DEF TlvBytes, Join
<1>18. TlvBytes(tlv) \in Bytes /\ Len(TlvBytes(tlv)) = 4 + Len(V)
  BY <1>12, TlvBytesIs
<1>19. Len(ContentObjectBytes(m)) = size
  <2> HIDE DEF n, k, h, p, tlv
  <2> QED BY <1>2, <1>11, <1>17, <1>18
<1> QED
  BY <1>4, <1>10, <1>12, <1>17, <1>18, <1>19 DEF V

\* Deserialize finds the Content Object that Serialize wrote, whatever follows it.
LEMMA ContentIsRead ==
  ASSUME NEW m, ContentObjectFits(m), NEW rest \in Bytes
  PROVE  ContentObjectOf(ContentObjectBytes(m) \o rest) = {m}
<1> DEFINE V == ContentParts(m)
           b == ContentObjectBytes(m) \o rest
           types == {T_NAME, T_PAYLDTYPE, T_EXPIRY, T_PAYLOAD}
<1>1. /\ ContentObjectBytes(m) = TlvBytes(ContentTlv(m)) /\ ContentTlv(m) \in Tlv
      /\ NameOf(NameTlv(m.name).value) = {m.name}
  BY ContentIsWritten
<1>2. PICK nested : /\ nested = Tlvs(V, ContentTypes) /\ nested.ok
                    /\ ValueOf(nested.items, T_NAME) = {NameTlv(m.name).value}
                    /\ ValueOf(nested.items, T_PAYLDTYPE) = PayloadTypeValues(m.payloadType)
                    /\ ValueOf(nested.items, T_EXPIRY) = ExpiryValues(m.expiryTime)
                    /\ ValueOf(nested.items, T_PAYLOAD) = m.payload
  <2>1. NameTlv(m.name).type = T_NAME
    BY DEF NameTlv
  <2> QED
    BY <2>1, ContentIsWritten DEF FourRead
<1>3. ContentTlv(m).value = V /\ ContentTlv(m).type = T_OBJECT /\ ContentTypes = types
  BY DEF ContentTlv, ContentTypes
<1> HIDE DEF V
<1>4. b = TlvBytes(ContentTlv(m)) \o rest
  BY <1>1
<1> HIDE DEF b
<1>5. /\ b \in Bytes /\ TLSize + Len(V) <= Len(b)
      /\ ReadU16(b, 0) = T_OBJECT /\ ReadU16(b, 2) = Len(V) /\ Read(b, TLSize, Len(V)) = V
  BY <1>1, <1>3, <1>4, ContainerIsRead
<1> DEFINE length == ReadU16(b, 2)
           inner == Tlvs(Read(b, TLSize, length), types)
           payloadType == ValueOf(inner.items, T_PAYLDTYPE)
           expiry == ValueOf(inner.items, T_EXPIRY)
           whole == /\ ReadU16(b, 0) = T_OBJECT /\ TLSize + length <= Len(b) /\ inner.ok
                    /\ payloadType \subseteq {<<t>> : t \in PayloadTypes} /\ \A v \in expiry : Len(v) = 8
           Made(name) == [kind |-> "ContentObject", name |-> name,
                          payloadType |-> IF payloadType = {} THEN 0
                                          ELSE CHOOSE t \in PayloadTypes : <<t>> \in payloadType,
                          expiryTime |-> {ReadU64(v, 0) : v \in expiry},
                          payload |-> ValueOf(inner.items, T_PAYLOAD)]
<1>6. ContentObjectOf(b) = {Made(name) : name \in UNION {NameOf(v) : v \in
                         IF whole THEN ValueOf(inner.items, T_NAME) ELSE {}}}
  BY DEF ContentObjectOf
<1>7. inner = nested
  BY <1>2, <1>3, <1>5
<1>8. /\ m \in ContentObject /\ AtMostOne(m.expiryTime) /\ m.payloadType \in PayloadTypes
      /\ m.expiryTime \in SUBSET Integer64
  BY ContentSizeIs DEF ContentObjectFits
<1>9. /\ PayloadTypeValues(m.payloadType) \subseteq {<<t>> : t \in PayloadTypes}
      /\ (IF PayloadTypeValues(m.payloadType) = {} THEN 0
          ELSE CHOOSE t \in PayloadTypes : <<t>> \in PayloadTypeValues(m.payloadType)) = m.payloadType
      /\ {ReadU64(v, 0) : v \in ExpiryValues(m.expiryTime)} = m.expiryTime
      /\ \A v \in ExpiryValues(m.expiryTime) : Len(v) = 8
  BY <1>8, PayloadTypeIs, ExpiryIs
<1> HIDE DEF inner
<1>10. whole
  BY <1>2, <1>5, <1>7, <1>9
<1>11. Made(m.name) = m
  <2>1. Made(m.name) = [kind |-> "ContentObject", name |-> m.name, payloadType |-> m.payloadType,
                     expiryTime |-> m.expiryTime, payload |-> m.payload]
    BY <1>2, <1>7, <1>9
  <2> QED
    BY <1>8, <2>1 DEF ContentObject
<1>12. (IF whole THEN ValueOf(inner.items, T_NAME) ELSE {}) = {NameTlv(m.name).value}
  BY <1>2, <1>7, <1>10
<1>13. UNION {NameOf(v) : v \in {NameTlv(m.name).value}} = {m.name}
  BY <1>1
<1> HIDE DEF Made, whole
<1>14. ContentObjectOf(b) = {m}
  BY <1>6, <1>11, <1>12, <1>13
<1> QED
  BY <1>14 DEF b

-----------------------------------------------------------------------------
(* The fixed header and the per hop headers *)

EntryTlv(entry) ==
  [type |-> entry.type, value |-> IF entry.type = T_INT_LIFE THEN VarInt(entry.time) ELSE U64(entry.time)]

LEMMA EntryOfIs ==
  ASSUME NEW item
  PROVE  /\ item.type = T_INT_LIFE => EntryOf(item) = {[type |-> T_INT_LIFE, time |-> BigEndian(item.value)]}
         /\ item.type = T_CACHE_TIME /\ Len(item.value) >= 8
              => EntryOf(item) = {[type |-> T_CACHE_TIME, time |-> ReadU64(item.value, 0)]}
BY DEF EntryOf, T_INT_LIFE, T_CACHE_TIME

LEMMA EntryIs ==
  ASSUME NEW e \in PerHopHeaderEntry
  PROVE  /\ EntryTlv(e) \in Tlv /\ EntryBytes(e) = TlvBytes(EntryTlv(e)) /\ EntryBytes(e) \in Bytes
         /\ EntrySize(e) = Len(EntryBytes(e)) /\ EntrySize(e) \in Nat /\ EntryOf(EntryTlv(e)) = {e}
<1> DEFINE value == IF e.type = T_INT_LIFE THEN VarInt(e.time) ELSE U64(e.time)
           size == IF e.type = T_INT_LIFE THEN ComputeVarIntLength(e.time) ELSE 8
           tlv == EntryTlv(e)
<1>1. /\ e.time \in Integer64 /\ e = [type |-> e.type, time |-> e.time]
      /\ T_INT_LIFE = 1 /\ T_CACHE_TIME = 2 /\ e.type \in {1, 2}
  BY DEF PerHopHeaderEntry, InterestLifetime, CacheTime, T_INT_LIFE, T_CACHE_TIME
<1>2. value \in Bytes /\ Len(value) = size /\ Len(value) \in 1 .. 8
  <2>1. CASE e.type = T_INT_LIFE
    BY <1>1, <2>1, VarIntIs
  <2>2. CASE e.type # T_INT_LIFE
    BY <1>1, <2>2, U64Is
  <2> QED
    BY <2>1, <2>2
<1>3. EntryOf([type |-> e.type, value |-> value]) = {e}
  <2>1. CASE e.type = T_INT_LIFE
    <3>1. BigEndian(VarInt(e.time)) = e.time
      BY <1>1, VarIntIs
    <3>2. EntryOf([type |-> e.type, value |-> value]) = {[type |-> T_INT_LIFE, time |-> BigEndian(VarInt(e.time))]}
      BY <2>1, EntryOfIs
    <3> QED
      BY <1>1, <2>1, <3>1, <3>2
  <2>2. CASE e.type # T_INT_LIFE
    <3>1. U64(e.time) \in Bytes /\ Len(U64(e.time)) = 8
      BY <1>1, U64Is
    <3>2. U64(e.time) \o <<>> = U64(e.time) /\ <<>> \in Bytes
      BY <3>1, EmptyJoined
    <3>3. ReadU64(U64(e.time) \o <<>>, 0) = e.time
      BY <1>1, <3>2, U64IsRead
    <3>4. EntryOf([type |-> e.type, value |-> U64(e.time)]) = {[type |-> T_CACHE_TIME, time |-> ReadU64(U64(e.time), 0)]}
      <4> DEFINE item == [type |-> e.type, value |-> U64(e.time)]
      <4>0. item.type = e.type /\ item.value = U64(e.time)
        OBVIOUS
      <4>a. e.type = T_CACHE_TIME
        BY <1>1, <2>2
      <4>1. item.type = T_CACHE_TIME /\ item.value = U64(e.time) /\ Len(item.value) >= 8
        <5> HIDE DEF item
        <5>1. Len(item.value) = 8
          BY <3>1, <4>0
        <5> QED BY <4>0, <4>a, <5>1
      <4> HIDE DEF item
      <4>2. EntryOf(item) = {[type |-> T_CACHE_TIME, time |-> ReadU64(U64(e.time), 0)]}
        BY <4>1, EntryOfIs
      <4> QED BY <4>2 DEF item
    <3> QED
      BY <1>1, <2>2, <3>2, <3>3, <3>4
  <2> QED
    BY <2>1, <2>2
<1>4. EntryBytes(e) = WriteTypeLength(e.type, EntrySize(e) - TLSize) \o value /\ EntrySize(e) = 4 + size
  BY DEF EntryBytes, EntrySize, TLSize
<1>5. tlv = [type |-> e.type, value |-> value]
  BY DEF EntryTlv
<1> HIDE DEF value, tlv, size
<1>6. Len(value) \in Word /\ e.type \in Word
  BY <1>1, <1>2, WordIs
<1>7. tlv \in Tlv
  BY <1>2, <1>5, <1>6 DEF Tlv
<1>8. EntrySize(e) - TLSize = Len(value)
  BY <1>2, <1>4 DEF TLSize
<1>9. EntryBytes(e) = TlvBytes(tlv)
  BY <1>4, <1>5, <1>8 DEF TlvBytes
<1>10. TlvBytes(tlv) \in Bytes /\ Len(TlvBytes(tlv)) = 4 + Len(value)
  BY <1>5, <1>7, TlvBytesIs
<1>11. EntrySize(e) = Len(EntryBytes(e)) /\ EntrySize(e) \in Nat
  BY <1>2, <1>4, <1>9, <1>10
<1>12. EntryOf(tlv) = {e}
  BY <1>3, <1>5
<1> QED
  BY <1>7, <1>9, <1>10, <1>11, <1>12 DEF tlv

EntryTlvs(perHop) == [i \in 1 .. Len(perHop) |-> EntryTlv(perHop[i])]
EntriesBytes(perHop) == WriteAll(EntryBytes, perHop)

LEMMA EntriesAre ==
  ASSUME NEW perHop \in Seq(PerHopHeaderEntry)
  PROVE  /\ EntriesBytes(perHop) \in Bytes /\ HeaderSize(perHop) \in Nat
         /\ HeaderSize(perHop) = 8 + Len(EntriesBytes(perHop))
         /\ Tlvs(EntriesBytes(perHop), Word).ok /\ Tlvs(EntriesBytes(perHop), Word).items = EntryTlvs(perHop)
         /\ Len(EntryTlvs(perHop)) = Len(perHop)
         /\ [i \in 1 .. Len(perHop) |-> CHOOSE e \in EntryOf(EntryTlvs(perHop)[i]) : TRUE] = perHop
         /\ {i \in 1 .. Len(perHop) : EntryOf(EntryTlvs(perHop)[i]) # {}} = 1 .. Len(perHop)
<1> DEFINE n == Len(perHop)
           tlvs == EntryTlvs(perHop)
           ss == [i \in 1 .. n |-> EntryBytes(perHop[i])]
           size == [i \in 1 .. n |-> EntrySize(perHop[i])]
           b == FlattenSeq(ss)
<1>1. n \in Nat /\ perHop \in [1 .. n -> PerHopHeaderEntry]
  BY ElementOfSeq
<1>2. ASSUME NEW i \in 1 .. n
      PROVE  /\ tlvs[i] \in Tlv /\ ss[i] = TlvBytes(tlvs[i]) /\ size[i] = Len(ss[i]) /\ size[i] \in Nat
             /\ ss[i] \in Bytes /\ EntryOf(tlvs[i]) = {perHop[i]}
  <2>1. perHop[i] \in PerHopHeaderEntry
    BY <1>1
  <2>2. tlvs[i] = EntryTlv(perHop[i]) /\ ss[i] = EntryBytes(perHop[i]) /\ size[i] = EntrySize(perHop[i])
    BY DEF EntryTlvs
  <2> HIDE DEF tlvs, ss, size
  <2> QED BY <2>1, <2>2, EntryIs
<1>3. tlvs \in [1 .. n -> Tlv] /\ ss \in [1 .. n -> Bytes] /\ size \in [1 .. n -> Nat]
  <2>1. /\ tlvs = [i \in 1 .. n |-> tlvs[i]] /\ ss = [i \in 1 .. n |-> ss[i]]
        /\ size = [i \in 1 .. n |-> size[i]]
    BY DEF EntryTlvs
  <2> HIDE DEF tlvs, ss, size, n
  <2> QED BY <1>2, <2>1
<1>4. EntriesBytes(perHop) = b /\ HeaderSize(perHop) = 8 + Total(size)
  BY DEF EntriesBytes, WriteAll, HeaderSize, SumOver, FixedSize
<1>5. EntryOf(EntryTlvs(perHop)[1]) = EntryOf(tlvs[1])
  OBVIOUS
<1>6. [i \in 1 .. n |-> CHOOSE e \in EntryOf(tlvs[i]) : TRUE] = perHop
  <2>1. \A i \in 1 .. n : (CHOOSE e \in EntryOf(tlvs[i]) : TRUE) = perHop[i]
    BY <1>2, ChooseOnly
  <2> HIDE DEF tlvs, n
  <2> QED BY <1>1, <2>1
<1>7. {i \in 1 .. n : EntryOf(tlvs[i]) # {}} = 1 .. n
  BY <1>2
<1> HIDE DEF b, ss, size, tlvs, n
<1>8. /\ b \in Bytes /\ Total(size) \in Nat /\ Len(b) = Total(size)
      /\ \E end : Consists(b, n, tlvs, end)
  BY <1>1, <1>2, <1>3, JoinedTlvs DEF b
<1>9. Tlvs(b, Word).ok /\ Tlvs(b, Word).items = tlvs
  <2>1. PICK end : Consists(b, n, tlvs, end)
    BY <1>8
  <2>2. \A k \in 1 .. n : tlvs[k].type \in Word
    BY <1>2, TlvBytesIs
  <2> QED
    BY <1>1, <1>8, <2>1, <2>2, TlvsAreRead
<1>10. Len(tlvs) = n
  BY <1>1, <1>3, FunctionIsSequence
<1>11. HeaderSize(perHop) \in Nat /\ HeaderSize(perHop) = 8 + Len(b)
  BY <1>4, <1>8
<1> QED
  BY <1>4, <1>6, <1>7, <1>8, <1>9, <1>10, <1>11 DEF tlvs, n

HeaderStart(fixed, perHop) ==
  <<1, fixed.packetType>> \o U16(fixed.packetLength)
    \o <<fixed.hopLimit, fixed.returnCode, 0, HeaderSize(perHop) % 256>>

LEMMA ByteIs ==
  ASSUME NEW v \in Byte
  PROVE  v \in Nat /\ v <= 255 /\ v % 256 = v
BY DEF Byte

\* The eight bytes of the fixed header.
LEMMA HeaderStartIs ==
  ASSUME NEW fixed \in FixedHeader, NEW perHop \in Seq(PerHopHeaderEntry), HeaderSize(perHop) \in Byte
  PROVE  LET s == HeaderStart(fixed, perHop)
         IN /\ s \in Bytes /\ Len(s) = 8
            /\ s[2] = fixed.packetType /\ ReadU16(s, 2) = fixed.packetLength
            /\ s[5] = fixed.hopLimit /\ s[6] = fixed.returnCode /\ s[8] = HeaderSize(perHop)
<1> DEFINE u == <<1, fixed.packetType>>
           v == U16(fixed.packetLength)
           w == <<fixed.hopLimit, fixed.returnCode, 0, HeaderSize(perHop) % 256>>
           uv == u \o v
           s == uv \o w
<1>1. /\ fixed.packetType \in 1 .. 3 /\ fixed.packetLength \in Word
      /\ fixed.hopLimit \in Byte /\ fixed.returnCode \in Byte
  BY DEF FixedHeader
<1>2. HeaderSize(perHop) % 256 = HeaderSize(perHop)
  BY ByteIs
<1>3. u \in Bytes /\ Len(u) = 2 /\ u[1] = 1 /\ u[2] = fixed.packetType
  BY <1>1 DEF Bytes, Byte
<1>4. v \in Bytes /\ Len(v) = 2 /\ 256 * v[1] + v[2] = fixed.packetLength
  BY <1>1, U16Is
<1>5. /\ w \in Bytes /\ Len(w) = 4 /\ w[1] = fixed.hopLimit /\ w[2] = fixed.returnCode
      /\ w[4] = HeaderSize(perHop)
  BY <1>1, <1>2 DEF Bytes, Byte
<1> HIDE DEF u, v, w
<1>6. /\ uv \in Bytes /\ Len(uv) = 4
      /\ \A i \in 1 .. 4 : uv[i] = IF i <= 2 THEN u[i] ELSE v[i - 2]
  <2>1. /\ u \o v \in Bytes /\ Len(u \o v) = Len(u) + Len(v)
        /\ \A i \in 1 .. Len(u) + Len(v) : (u \o v)[i] = IF i <= Len(u) THEN u[i] ELSE v[i - Len(u)]
    BY <1>3, <1>4, BytesJoin
  <2>2. Len(u) + Len(v) = 4
    BY <1>3, <1>4
  <2> QED
    BY <1>3, <2>1, <2>2
<1> HIDE DEF uv
<1>7. /\ s \in Bytes /\ Len(s) = 8
      /\ \A i \in 1 .. 8 : s[i] = IF i <= 4 THEN uv[i] ELSE w[i - 4]
  <2>1. /\ uv \o w \in Bytes /\ Len(uv \o w) = Len(uv) + Len(w)
        /\ \A i \in 1 .. Len(uv) + Len(w) : (uv \o w)[i] = IF i <= Len(uv) THEN uv[i] ELSE w[i - Len(uv)]
    BY <1>5, <1>6, BytesJoin
  <2>2. Len(uv) + Len(w) = 8
    BY <1>5, <1>6
  <2> QED
    BY <1>6, <2>1, <2>2
<1> HIDE DEF s
<1>8. uv[2] = u[2] /\ uv[3] = v[1] /\ uv[4] = v[2]
  BY <1>6
<1>9. s[2] = uv[2] /\ s[3] = uv[3] /\ s[4] = uv[4] /\ s[5] = w[1] /\ s[6] = w[2] /\ s[8] = w[4]
  BY <1>7
<1>10. ReadU16(s, 2) = 256 * s[3] + s[4]
  BY DEF ReadU16
<1> QED
  BY <1>3, <1>4, <1>5, <1>7, <1>8, <1>9, <1>10 DEF HeaderStart, u, v, w, uv, s

\* Deserialize finds the header that Serialize wrote, whatever follows it.
LEMMA HeaderIs ==
  ASSUME NEW fixed \in FixedHeader, NEW perHop \in Seq(PerHopHeaderEntry), HeaderSize(perHop) \in Byte,
         fixed.headerLength = HeaderSize(perHop), NEW rest \in Bytes
  PROVE  /\ HeaderBytes(fixed, perHop) \in Bytes /\ Len(HeaderBytes(fixed, perHop)) = HeaderSize(perHop)
         /\ HeaderOf(HeaderBytes(fixed, perHop) \o rest)
              = {[fixed |-> fixed, perHop |-> perHop, size |-> HeaderSize(perHop)]}
<1> DEFINE n == Len(perHop)
           size == HeaderSize(perHop)
           s == HeaderStart(fixed, perHop)
           e == EntriesBytes(perHop)
           h == HeaderBytes(fixed, perHop)
           b == h \o rest
           tlvs == EntryTlvs(perHop)
<1>1. /\ s \in Bytes /\ Len(s) = 8
      /\ s[2] = fixed.packetType /\ ReadU16(s, 2) = fixed.packetLength
      /\ s[5] = fixed.hopLimit /\ s[6] = fixed.returnCode /\ s[8] = size
  BY HeaderStartIs
<1>2. /\ e \in Bytes /\ size \in Nat /\ size = 8 + Len(e)
      /\ Tlvs(e, Word).ok /\ Tlvs(e, Word).items = tlvs /\ Len(tlvs) = n
      /\ [i \in 1 .. n |-> CHOOSE x \in EntryOf(tlvs[i]) : TRUE] = perHop
      /\ {i \in 1 .. n : EntryOf(tlvs[i]) # {}} = 1 .. n
  BY EntriesAre
<1>3. h = s \o e
  BY DEF HeaderBytes, HeaderStart, EntriesBytes
<1> HIDE DEF s, e, h, tlvs, n
<1>4. h \in Bytes /\ Len(h) = size /\ At(h, 0, s) /\ At(h, 8, e)
  <2>1. h \in Bytes /\ Len(h) = Len(s) + Len(e)
    BY <1>1, <1>2, <1>3, BytesJoin
  <2>2. At(s \o e, 0, s) /\ At(s \o e, Len(s), e)
    BY <1>1, <1>2, AtConcat DEF Bytes
  <2> QED
    BY <1>1, <1>2, <1>3, <2>1, <2>2
<1>5. b \in Bytes /\ Len(b) = size + Len(rest) /\ At(b, 0, s) /\ At(b, 8, e)
  <2>1. b \in Bytes /\ Len(b) = Len(h) + Len(rest)
    BY <1>4, BytesJoin
  <2>2. At(h \o rest, 0, s) /\ At(h \o rest, 8, e)
    BY <1>1, <1>2, <1>4, AtMore DEF Bytes
  <2> QED
    BY <1>4, <2>1, <2>2
<1> HIDE DEF b
<1>6. \A i \in 1 .. 8 : b[i] = s[i]
  BY <1>1, <1>5 DEF At
<1>7. ReadU16(b, 2) = fixed.packetLength /\ b[2] = fixed.packetType /\ b[5] = fixed.hopLimit
        /\ b[6] = fixed.returnCode /\ b[8] = size
  <2>1. ReadU16(b, 2) = ReadU16(s, 2)
    BY <1>6 DEF ReadU16
  <2> QED
    BY <1>1, <1>6, <2>1
<1>8. Read(b, 8, size - 8) = e
  <2>1. Read(b, 8, Len(e)) = e
    BY <1>2, <1>5, AtRead DEF Bytes
  <2>2. Len(e) \in Nat
    BY <1>2, BytesAreNaturals
  <2>3. size - 8 = Len(e)
    <3> HIDE DEF size
    <3> QED BY <1>2, <2>2
  <2> QED
    BY <2>1, <2>3
<1>9. Len(b) >= 8 /\ size \in 8 .. Len(b)
  <2>1. Len(e) \in Nat /\ Len(rest) \in Nat /\ Len(b) \in Nat
    BY <1>2, <1>5, BytesAreNaturals
  <2> HIDE DEF size
  <2> QED BY <1>2, <1>5, <2>1
<1> DEFINE entries == Tlvs(Read(b, FixedSize, b[8] - FixedSize), Word)
           decoded == {i \in 1 .. Len(entries.items) : EntryOf(entries.items[i]) # {}}
           read == [i \in 1 .. Len(entries.items) |-> CHOOSE x \in EntryOf(entries.items[i]) : TRUE]
           whole == /\ Len(b) >= FixedSize /\ b[8] \in FixedSize .. Len(b) /\ b[2] \in 1 .. 3
                    /\ entries.ok /\ decoded = 1 .. Len(entries.items)
<1>10. HeaderOf(b) = IF whole
                     THEN {[fixed |-> [packetType |-> b[2], packetLength |-> ReadU16(b, 2),
                                       hopLimit |-> b[5], returnCode |-> b[6], headerLength |-> b[8]],
                            perHop |-> read, size |-> HeaderSize(read)]}
                     ELSE {}
  BY DEF HeaderOf
<1>11. entries = Tlvs(e, Word)
  BY <1>7, <1>8 DEF FixedSize
<1>12. entries.ok /\ entries.items = tlvs
  BY <1>2, <1>11
<1> HIDE DEF entries
<1>13. decoded = 1 .. Len(entries.items) /\ read = perHop
  BY <1>2, <1>12
<1> HIDE DEF decoded, read
<1>14. fixed.packetType \in 1 .. 3 /\ fixed = [packetType |-> fixed.packetType, packetLength |-> fixed.packetLength,
         hopLimit |-> fixed.hopLimit, returnCode |-> fixed.returnCode, headerLength |-> size]
  BY DEF FixedHeader
<1>15. whole
  BY <1>7, <1>9, <1>12, <1>13, <1>14 DEF FixedSize
<1> HIDE DEF whole
<1>16. HeaderOf(b) = {[fixed |-> fixed, perHop |-> perHop, size |-> size]}
  BY <1>7, <1>10, <1>13, <1>14, <1>15
<1> QED
  BY <1>4, <1>16 DEF b, h

-----------------------------------------------------------------------------
(* Packets *)

\* The message of a packet type in the bytes behind the headers.
MessageOf(type, rest) ==
  CASE type = 1 -> InterestOf(rest)
    [] type = 2 -> ContentObjectOf(rest)
    [] OTHER -> {}

LEMMA MessageIsRead ==
  ASSUME NEW m, InterestFits(m) \/ ContentObjectFits(m), NEW rest \in Bytes
  PROVE  /\ m \in Message /\ GetMessageTypeAsPacketType(m) \in 1 .. 2
         /\ MessageBytes(m) \in Bytes /\ Len(MessageBytes(m)) = MessageSize(m) /\ MessageSize(m) \in Nat
         /\ MessageOf(GetMessageTypeAsPacketType(m), MessageBytes(m) \o rest) = {m}
<1>1. CASE InterestFits(m)
  <2>1. m \in Interest /\ m.kind = "Interest"
    BY <1>1 DEF InterestFits, Interest
  <2>2. /\ MessageBytes(m) = InterestBytes(m) /\ MessageSize(m) = InterestSize(m)
        /\ GetMessageTypeAsPacketType(m) = 1
    BY <2>1 DEF MessageBytes, MessageSize, GetMessageTypeAsPacketType
  <2>3. InterestBytes(m) \in Bytes /\ Len(InterestBytes(m)) = InterestSize(m) /\ InterestSize(m) \in Nat
    BY <1>1, <2>1, InterestIsWritten, InterestSizeIs
  <2>4. MessageOf(1, InterestBytes(m) \o rest) = InterestOf(InterestBytes(m) \o rest)
    BY DEF MessageOf
  <2>5. InterestOf(InterestBytes(m) \o rest) = {m}
    BY <1>1, InterestIsRead
  <2> QED
    BY <2>1, <2>2, <2>3, <2>4, <2>5 DEF Message
<1>2. CASE ContentObjectFits(m)
  <2>1. m \in ContentObject /\ m.kind = "ContentObject"
    BY <1>2 DEF ContentObjectFits, ContentObject
  <2>2. /\ MessageBytes(m) = ContentObjectBytes(m) /\ MessageSize(m) = ContentObjectSize(m)
        /\ GetMessageTypeAsPacketType(m) = 2
    BY <2>1 DEF MessageBytes, MessageSize, GetMessageTypeAsPacketType
  <2>3. /\ ContentObjectBytes(m) \in Bytes /\ Len(ContentObjectBytes(m)) = ContentObjectSize(m)
        /\ ContentObjectSize(m) \in Nat
    BY <1>2, <2>1, ContentIsWritten, ContentSizeIs
  <2>4. MessageOf(2, ContentObjectBytes(m) \o rest) = ContentObjectOf(ContentObjectBytes(m) \o rest)
    BY DEF MessageOf
  <2>5. ContentObjectOf(ContentObjectBytes(m) \o rest) = {m}
    BY <1>2, ContentIsRead
  <2> QED
    BY <2>1, <2>2, <2>3, <2>4, <2>5 DEF Message
<1> QED
  BY <1>1, <1>2

\* The packet that is made of a message and its headers, and its bytes.
Packed(made) == WithNs3Packet(CreateFromMessage(made))
FixedOf(made) ==
  [packetType |-> GetMessageTypeAsPacketType(made.message),
   packetLength |-> HeaderSize(made.perHop) + MessageSize(made.message),
   hopLimit |-> 0, returnCode |-> 0, headerLength |-> HeaderSize(made.perHop)]
Written(made) == HeaderBytes(FixedOf(made), made.perHop) \o MessageBytes(made.message)

LEMMA PackedIs ==
  ASSUME NEW made
  PROVE  /\ Packed(made) = [message |-> made.message, perHop |-> made.perHop, fixed |-> FixedOf(made),
                            ns3Packet |-> {Written(made)}]
         /\ BytesOf(Packed(made)) = Written(made)
         /\ WithNs3Packet(Packed(made)) = Packed(made)
<1> DEFINE created == CreateFromMessage(made)
<1>1. /\ created.message = made.message /\ created.perHop = made.perHop /\ created.ns3Packet = {}
      /\ created = [message |-> created.message, perHop |-> created.perHop, fixed |-> created.fixed,
                    ns3Packet |-> created.ns3Packet]
  BY DEF CreateFromMessage
<1> HIDE DEF created
<1>2. GenerateFixedHeader(created) = FixedOf(made)
  BY <1>1 DEF GenerateFixedHeader, ComputePacketSize, FixedOf
<1>3. Packed(made) = GenerateNs3Packet(created)
  BY <1>1 DEF Packed, WithNs3Packet, created
<1>4. GenerateNs3Packet(created) =
        [message |-> made.message, perHop |-> made.perHop, fixed |-> FixedOf(made), ns3Packet |-> {Written(made)}]
  <2>1. GenerateNs3Packet(created) =
          [created EXCEPT !.fixed = FixedOf(made), !.ns3Packet = {Written(made)}]
    BY <1>1, <1>2 DEF GenerateNs3Packet, Written
  <2> QED
    BY <1>1, <2>1
<1>5. Packed(made).ns3Packet = {Written(made)}
  BY <1>3, <1>4
<1>6. BytesOf(Packed(made)) = Written(made)
  BY <1>5, ChooseOnly DEF BytesOf
<1>7. WithNs3Packet(Packed(made)) = Packed(made)
  BY <1>5 DEF WithNs3Packet
<1> QED
  BY <1>3, <1>4, <1>6, <1>7

LEMMA FixedIs ==
  ASSUME NEW made, Encodable(made)
  PROVE  /\ FixedOf(made) \in FixedHeader
         /\ FixedOf(made).headerLength = HeaderSize(made.perHop)
         /\ FixedOf(made).packetType = GetMessageTypeAsPacketType(made.message)
         /\ FixedOf(made).packetLength = HeaderSize(made.perHop) + MessageSize(made.message)
<1>1. GetMessageTypeAsPacketType(made.message) \in 1 .. 3
  BY DEF GetMessageTypeAsPacketType
<1>2. HeaderSize(made.perHop) \in Byte /\ HeaderSize(made.perHop) + MessageSize(made.message) \in Word /\ 0 \in Byte
  BY DEF Encodable, Byte
<1> QED
  BY <1>1, <1>2 DEF FixedOf, FixedHeader

\* The bytes of a packet, and what is behind the headers.
LEMMA WrittenIs ==
  ASSUME NEW made, Encodable(made), NEW rest \in Bytes
  PROVE  /\ Written(made) \in Bytes /\ Written(made) \o rest \in Bytes
         /\ Len(Written(made)) = HeaderSize(made.perHop) + MessageSize(made.message)
         /\ Len(Written(made) \o rest) = Len(Written(made)) + Len(rest)
         /\ Read(Written(made) \o rest, 0, Len(Written(made))) = Written(made)
         /\ HeaderOf(Written(made) \o rest)
              = {[fixed |-> FixedOf(made), perHop |-> made.perHop, size |-> HeaderSize(made.perHop)]}
         /\ Read(Written(made) \o rest, HeaderSize(made.perHop),
                 Len(Written(made) \o rest) - HeaderSize(made.perHop)) = MessageBytes(made.message) \o rest
<1> DEFINE h == HeaderBytes(FixedOf(made), made.perHop)
           m == MessageBytes(made.message)
           b == Written(made)
           size == HeaderSize(made.perHop)
           mr == m \o rest
           all == b \o rest
<1>1. made.perHop \in Seq(PerHopHeaderEntry) /\ size \in Byte /\ (InterestFits(made.message) \/ ContentObjectFits(made.message))
  BY DEF Encodable
<1>2. m \in Bytes /\ Len(m) = MessageSize(made.message) /\ Len(m) \in Nat
  BY <1>1, MessageIsRead
<1>3. mr \in Bytes /\ Len(mr) = Len(m) + Len(rest) /\ Len(rest) \in Nat
  BY <1>2, BytesJoin
<1>4. /\ h \in Bytes /\ Len(h) = size
      /\ HeaderOf(h \o mr) = {[fixed |-> FixedOf(made), perHop |-> made.perHop, size |-> size]}
  BY <1>1, <1>3, FixedIs, HeaderIs
<1>5. size \in Nat
  BY <1>1, ByteIs
<1>6. b = h \o m
  BY DEF Written
<1> HIDE DEF h, m, b, size
<1>7. b \in Bytes /\ Len(b) = size + Len(m)
  BY <1>2, <1>4, <1>6, BytesJoin
<1>8. all \in Bytes /\ Len(all) = Len(b) + Len(rest)
  BY <1>7, BytesJoin
<1>9. all = h \o mr
  <2>1. Join(Join(h, m), rest) = Join(h, Join(m, rest))
    BY <1>2, <1>4, JoinAssociates
  <2> QED
    BY <1>6, <2>1 DEF Join
<1>10. Read(all, 0, Len(b)) = b
  <2>1. At(all, 0, b)
    BY <1>7, AtConcat DEF Bytes
  <2> QED
    BY <1>7, <1>8, <2>1, AtRead DEF Bytes
<1>11. Read(all, size, Len(mr)) = mr
  <2>1. At(h \o mr, Len(h), mr)
    BY <1>3, <1>4, AtConcat DEF Bytes
  <2>2. At(all, size, mr)
    BY <1>4, <1>9, <2>1
  <2> QED
    BY <1>3, <1>5, <1>8, <2>2, AtRead DEF Bytes
<1> HIDE DEF mr, all
<1>12. Len(all) - size = Len(mr)
  BY <1>2, <1>3, <1>5, <1>7, <1>8
<1> QED
  BY <1>2, <1>4, <1>7, <1>8, <1>9, <1>10, <1>11, <1>12 DEF h, m, b, size, mr, all

\* The assertions about the sizes of a packet hold.
LEMMA PackedHasRightSize ==
  ASSUME NEW made, Encodable(made)
  PROVE  RightSize(Packed(made))
<1> DEFINE p == Packed(made)
           total == HeaderSize(made.perHop) + MessageSize(made.message)
<1>1. /\ p.message = made.message /\ p.perHop = made.perHop /\ p.fixed = FixedOf(made)
      /\ BytesOf(p) = Written(made)
  BY PackedIs
<1>2. <<>> \in Bytes
  BY EmptySeq DEF Bytes
<1>3. Len(Written(made)) = total
  BY <1>2, WrittenIs
<1>4. FixedOf(made).packetLength = total
  BY FixedIs
<1>5. HeaderSize(made.perHop) \in Byte /\ total \in Word
  BY DEF Encodable
<1>6. HeaderSize(made.perHop) <= 255 /\ total <= 65535
  BY <1>5, ByteIs, WordIs
<1> HIDE DEF p
<1>7. ComputePacketSize(p) = total
  BY <1>1 DEF ComputePacketSize
<1> HIDE DEF total
<1> QED
  BY <1>1, <1>3, <1>4, <1>6, <1>7 DEF RightSize, Fits, p

\* A packet of bytes that are followed by a layer 2 trailer is the packet that was made.
LEMMA PackedIsRead ==
  ASSUME NEW made, Encodable(made), NEW rest \in Bytes
  PROVE  /\ Packed(made) \in Packets
         /\ CreateFromNs3Packet(BytesOf(Packed(made)) \o rest) = {Packed(made)}
<1> DEFINE b == Written(made)
           all == b \o rest
           size == HeaderSize(made.perHop)
           header == [fixed |-> FixedOf(made), perHop |-> made.perHop, size |-> size]
           p == [message |-> made.message, perHop |-> made.perHop, fixed |-> FixedOf(made), ns3Packet |-> {b}]
<1>1. /\ b \in Bytes /\ all \in Bytes /\ Len(b) = size + MessageSize(made.message)
      /\ Len(all) = Len(b) + Len(rest) /\ Read(all, 0, Len(b)) = b
      /\ HeaderOf(all) = {header}
      /\ Read(all, size, Len(all) - size) = MessageBytes(made.message) \o rest
  BY WrittenIs
<1>2. InterestFits(made.message) \/ ContentObjectFits(made.message)
  BY DEF Encodable
<1>3. /\ made.message \in Message
      /\ MessageOf(GetMessageTypeAsPacketType(made.message), MessageBytes(made.message) \o rest) = {made.message}
  BY <1>2, MessageIsRead
<1>4. /\ FixedOf(made) \in FixedHeader /\ FixedOf(made).packetLength = Len(b)
      /\ FixedOf(made).packetType = GetMessageTypeAsPacketType(made.message)
  BY <1>1, FixedIs
<1>5. Packed(made) = p /\ BytesOf(Packed(made)) = b
  BY PackedIs
<1>6. p \in Packets
  <2>1. made.perHop \in Seq(PerHopHeaderEntry)
    BY DEF Encodable
  <2>2. {b} \in SUBSET Bytes
    BY <1>1
  <2> HIDE DEF b
  <2> QED BY <1>3, <1>4, <2>1, <2>2 DEF Packets
<1>7. TrimNs3Packet(all, FixedOf(made)) = b
  <2>1. CASE FixedOf(made).packetLength < Len(all)
    BY <1>1, <1>4, <2>1 DEF TrimNs3Packet
  <2>2. CASE ~(FixedOf(made).packetLength < Len(all))
    <3>1. Len(rest) \in Nat /\ Len(b) \in Nat
      BY <1>1, BytesAreNaturals
    <3>2. Len(rest) = 0
      <4> HIDE DEF b, all
      <4> QED BY <1>1, <1>4, <2>2, <3>1
    <3>3. rest = <<>>
      BY <3>2, EmptySeq DEF Bytes
    <3>4. all = b
      BY <1>1, <3>3, EmptyJoined
    <3> QED
      BY <2>2, <3>4 DEF TrimNs3Packet
  <2> QED
    BY <2>1, <2>2
<1> HIDE DEF all, b
<1>8. header.fixed = FixedOf(made) /\ header.perHop = made.perHop /\ header.size = size
  OBVIOUS
<1>9. CreateFromNs3Packet(all) =
        UNION {LET r == Read(all, h.size, Len(all) - h.size)
               IN {[message |-> message, perHop |-> h.perHop, fixed |-> h.fixed,
                    ns3Packet |-> {TrimNs3Packet(all, h.fixed)}] : message \in MessageOf(h.fixed.packetType, r)} :
               h \in HeaderOf(all)}
  BY DEF CreateFromNs3Packet, MessageOf
<1> HIDE DEF header
<1>10. CreateFromNs3Packet(all) =
        {[message |-> message, perHop |-> header.perHop, fixed |-> header.fixed,
          ns3Packet |-> {TrimNs3Packet(all, header.fixed)}] :
          message \in MessageOf(header.fixed.packetType, Read(all, header.size, Len(all) - header.size))}
  BY <1>1, <1>9
<1>11. MessageOf(header.fixed.packetType, Read(all, header.size, Len(all) - header.size)) = {made.message}
  BY <1>1, <1>3, <1>4, <1>8
<1>12. CreateFromNs3Packet(all) = {p}
  BY <1>7, <1>8, <1>10, <1>11
<1> QED
  BY <1>5, <1>6, <1>12 DEF all

-----------------------------------------------------------------------------
(* Payloads of NFP: messages are read where they are. *)

\* The TLV at a position.
LEMMA TlvAtIs ==
  ASSUME NEW b \in Bytes, NEW p \in Nat, NEW tlv \in Tlv, At(b, p, TlvBytes(tlv))
  PROVE  /\ TypeAt(b, p) = tlv.type /\ TlvSize(b, p) = Len(TlvBytes(tlv)) /\ ValueAt(b, p) = tlv.value
         /\ At(b, p + 4, tlv.value)
<1>1. /\ ReadU16(b, p) = tlv.type /\ ReadU16(b, p + 2) = Len(tlv.value)
      /\ Read(b, p + 4, Len(tlv.value)) = tlv.value /\ At(b, p + 4, tlv.value)
  BY TlvIsRead
<1>2. tlv.value \in Bytes /\ Len(TlvBytes(tlv)) = 4 + Len(tlv.value)
  BY TlvBytesIs
<1>3. Len(tlv.value) \in Nat
  BY <1>2, BytesAreNaturals
<1>4. TlvSize(b, p) = 4 + Len(tlv.value)
  BY <1>1 DEF TlvSize, TLSize
<1>5. TlvSize(b, p) - TLSize = Len(tlv.value)
  BY <1>3, <1>4 DEF TLSize
<1>6. ValueAt(b, p) = tlv.value
  BY <1>1, <1>5 DEF ValueAt, TLSize
<1> QED
  BY <1>1, <1>2, <1>4, <1>6 DEF TypeAt

\* The name at a position.
LEMMA NameAtIs ==
  ASSUME NEW name \in Name, NameSize(name) \in Word, SegmentsFilled(name),
         NEW b \in Bytes, NEW p \in Nat, At(b, p, NameBytes(name))
  PROVE  NameAt(b, p) = {name} /\ TlvSize(b, p) = NameSize(name)
<1>1. /\ NameTlv(name) \in Tlv /\ NameBytes(name) = TlvBytes(NameTlv(name))
      /\ Len(NameBytes(name)) = NameSize(name) /\ NameOf(NameTlv(name).value) = {name}
  BY NameIs
<1>2. NameTlv(name).type = T_NAME
  BY DEF NameTlv
<1>3. /\ TypeAt(b, p) = NameTlv(name).type /\ TlvSize(b, p) = Len(TlvBytes(NameTlv(name)))
      /\ ValueAt(b, p) = NameTlv(name).value
  BY <1>1, TlvAtIs
<1> QED
  BY <1>1, <1>2, <1>3 DEF NameAt

\* What an advertisement has behind its names.
DataTlv(m) == [type |-> T_ADV_DATA, value |-> U32(m.seqnum) \o U16(m.distance)]
DataOf(m) == IF m.kind = "Advertise" THEN TlvBytes(DataTlv(m)) ELSE <<>>

LEMMA DataIs ==
  ASSUME NEW m \in NfpAdvertise
  PROVE  /\ DataTlv(m) \in Tlv /\ Len(DataTlv(m).value) = 6
         /\ TlvBytes(DataTlv(m)) = WriteTypeLength(T_ADV_DATA, 6) \o U32(m.seqnum) \o U16(m.distance)
         /\ TlvBytes(DataTlv(m)) \in Bytes /\ Len(TlvBytes(DataTlv(m))) = 10
         /\ \A b \in Bytes, p \in Nat : At(b, p, DataTlv(m).value) =>
              BigEndian(Read(b, p, 4)) = m.seqnum /\ ReadU16(b, p + 4) = m.distance
<1> DEFINE s == U32(m.seqnum)
           d == U16(m.distance)
           v == s \o d
           tlv == DataTlv(m)
           w == WriteTypeLength(T_ADV_DATA, 6)
<1>1. m.seqnum \in Integer64 /\ m.distance \in Word
  BY DEF NfpAdvertise
<1>2. s \in Bytes /\ Len(s) = 4 /\ BigEndian(s) = m.seqnum
  BY <1>1, U32Is
<1>3. d \in Bytes /\ Len(d) = 2 /\ 256 * d[1] + d[2] = m.distance
  BY <1>1, U16Is
<1>4. tlv = [type |-> T_ADV_DATA, value |-> v]
  BY DEF DataTlv
<1>5. T_ADV_DATA \in Word /\ 6 \in Word
  BY WordIs DEF T_ADV_DATA
<1>6. w \in Bytes
  BY <1>5, WriteTypeLengthIs
<1> HIDE DEF s, d, tlv, w
<1>7. v \in Bytes /\ Len(v) = 6
  <2>1. v \in Bytes /\ Len(v) = Len(s) + Len(d)
    BY <1>2, <1>3, BytesJoin
  <2> HIDE DEF v
  <2> QED BY <1>2, <1>3, <2>1
<1>8. At(v, 0, s) /\ At(v, 4, d)
  <2>1. At(s \o d, 0, s) /\ At(s \o d, Len(s), d)
    BY <1>2, <1>3, AtConcat DEF Bytes
  <2> QED
    BY <1>2, <2>1
<1>9. TlvBytes(tlv) = w \o s \o d
  <2>1. Join(Join(w, s), d) = Join(w, Join(s, d))
    BY <1>2, <1>3, <1>6, JoinAssociates
  <2>2. TlvBytes(tlv) = w \o v
    BY <1>4, <1>7 DEF TlvBytes, w
  <2> QED
    BY <2>1, <2>2 DEF Join
<1> HIDE DEF v
<1>10. tlv \in Tlv /\ tlv.value = v
  BY <1>4, <1>5, <1>7 DEF Tlv
<1>11. TlvBytes(tlv) \in Bytes /\ Len(TlvBytes(tlv)) = 10
  <2>1. Len(TlvBytes(tlv)) = 4 + 6 /\ TlvBytes(tlv) \in Bytes
    BY <1>7, <1>10, TlvBytesIs
  <2> QED
    BY <2>1
<1>12. ASSUME NEW b \in Bytes, NEW p \in Nat, At(b, p, v)
       PROVE  BigEndian(Read(b, p, 4)) = m.seqnum /\ ReadU16(b, p + 4) = m.distance
  <2>1. At(b, p + 0, s) /\ At(b, p + 4, d)
    BY <1>2, <1>3, <1>7, <1>8, <1>12, AtTransitive DEF Bytes
  <2>2. p + 0 = p /\ (p + 4) + 0 = p + 4 /\ p + 4 \in Nat
    OBVIOUS
  <2>3. Read(b, p, 4) = s
    BY <1>2, <2>1, <2>2, AtRead DEF Bytes
  <2>4. b[(p + 4) + 1] = d[1] /\ b[(p + 4) + 2] = d[2]
    BY <1>3, <2>1 DEF At
  <2>5. ReadU16(b, p + 4) = 256 * d[1] + d[2]
    BY <2>4 DEF ReadU16
  <2> QED
    BY <1>2, <1>3, <2>3, <2>5
<1> QED
  BY <1>7, <1>9, <1>10, <1>11, <1>12 DEF s, d, v, tlv, w

\* A message: a TLV of two names and the data.
MessageParts(m) == NameBytes(m.anchor) \o NameBytes(m.prefix) \o DataOf(m)
MessageTlv(m) == [type |-> IF m.kind = "Advertise" THEN T_ADV ELSE T_WITHDRAW, value |-> MessageParts(m)]

LEMMA NfpTypesDiffer ==
  /\ T_ADV \in Word /\ T_WITHDRAW \in Word /\ T_MSG \in Word /\ T_MSG_SEQNUM \in Word /\ T_ADV_DATA \in Word
  /\ T_ADV # T_WITHDRAW /\ TLSize = 4
BY WordIs DEF T_ADV, T_WITHDRAW, T_MSG, T_MSG_SEQNUM, T_ADV_DATA, TLSize

LEMMA MessageFields ==
  ASSUME NEW m, NfpMessageFits(m)
  PROVE  /\ m.anchor \in Name /\ m.prefix \in Name /\ SegmentsFilled(m.anchor) /\ SegmentsFilled(m.prefix)
         /\ m.kind = "Advertise" => m \in NfpAdvertise
         /\ m.kind # "Advertise" => m \in NfpWithdraw
         /\ NameSize(m.anchor) \in Nat /\ NameSize(m.prefix) \in Nat /\ NameSize(m.anchor) >= 4
         /\ NfpMessageSize(m) \in Nat /\ NfpMessageSize(m) >= 4
         /\ NfpMessageSize(m) = 4 + NameSize(m.anchor) + NameSize(m.prefix)
                                  + (IF m.kind = "Advertise" THEN 10 ELSE 0)
<1>1. m \in NfpAdvertise \cup NfpWithdraw /\ SegmentsFilled(m.anchor) /\ SegmentsFilled(m.prefix)
  BY DEF NfpMessageFits
<1>2. /\ m.anchor \in Name /\ m.prefix \in Name
      /\ m.kind = "Advertise" => m \in NfpAdvertise
      /\ m.kind # "Advertise" => m \in NfpWithdraw
  BY <1>1 DEF NfpAdvertise, NfpWithdraw
<1>3. NameSize(m.anchor) \in Nat /\ NameSize(m.prefix) \in Nat /\ NameSize(m.anchor) >= 4
  BY <1>2, NameIs
<1>4. NfpMessageSize(m) = 4 + NameSize(m.anchor) + NameSize(m.prefix)
                                  + (IF m.kind = "Advertise" THEN 10 ELSE 0)
  BY DEF NfpMessageSize, TLSize
<1> QED
  BY <1>1, <1>2, <1>3, <1>4

\* A TLV of three parts.
Adds(n, a, b, c) == n = 4 + a + b + c

LEMMA PartsFit ==
  ASSUME NEW a \in Nat, NEW b \in Nat, NEW c \in Nat, NEW n \in Word, Adds(n, a, b, c)
  PROVE  a \in Word /\ b \in Word /\ a + b + c \in Word /\ n - 4 = a + b + c
<1>1. n \in Nat /\ n <= 65535
  BY WordIs
<1>2. a <= 65535 /\ b <= 65535 /\ a + b + c <= 65535
  BY <1>1 DEF Adds
<1> QED
  BY <1>1, <1>2, WordIs DEF Adds

LEMMA MessageIsWritten ==
  ASSUME NEW m, NfpMessageFits(m), NfpMessageSize(m) \in Word
  PROVE  /\ MessageTlv(m) \in Tlv /\ NfpMessageBytes(m) = TlvBytes(MessageTlv(m))
         /\ NfpMessageBytes(m) \in Bytes /\ Len(NfpMessageBytes(m)) = NfpMessageSize(m)
         /\ NameSize(m.anchor) \in Word /\ NameSize(m.prefix) \in Word
         /\ NameBytes(m.anchor) \in Bytes /\ Len(NameBytes(m.anchor)) = NameSize(m.anchor)
         /\ NameBytes(m.prefix) \in Bytes /\ Len(NameBytes(m.prefix)) = NameSize(m.prefix)
         /\ DataOf(m) \in Bytes
         /\ (m.kind = "Advertise" => Len(DataOf(m)) = 10) /\ (m.kind # "Advertise" => Len(DataOf(m)) = 0)
<1> DEFINE type == IF m.kind = "Advertise" THEN T_ADV ELSE T_WITHDRAW
           x == NameBytes(m.anchor)
           y == NameBytes(m.prefix)
           d == DataOf(m)
           v == MessageParts(m)
           tlv == MessageTlv(m)
           n == NameSize(m.anchor)
           k == NameSize(m.prefix)
           l == IF m.kind = "Advertise" THEN 10 ELSE 0
           w == WriteTypeLength(type, NfpMessageSize(m) - 4)
<1>1. /\ m.anchor \in Name /\ m.prefix \in Name /\ n \in Nat /\ k \in Nat /\ l \in Nat
      /\ NfpMessageSize(m) = 4 + n + k + l
  BY MessageFields
<1>2. n \in Word /\ k \in Word /\ n + k + l \in Word /\ NfpMessageSize(m) - 4 = n + k + l
  <2>1. Adds(NfpMessageSize(m), n, k, l)
    BY <1>1 DEF Adds
  <2> HIDE DEF n, k, l
  <2> QED BY <1>1, <2>1, PartsFit
<1>3. x \in Bytes /\ Len(x) = n /\ y \in Bytes /\ Len(y) = k
  BY <1>1, <1>2, NameIs
<1>4. d \in Bytes /\ Len(d) = l
  <2>1. CASE m.kind = "Advertise"
    <3>1. TlvBytes(DataTlv(m)) \in Bytes /\ Len(TlvBytes(DataTlv(m))) = 10
      BY <2>1, MessageFields, DataIs
    <3> QED
      BY <2>1, <3>1 DEF DataOf
  <2>2. CASE m.kind # "Advertise"
    BY <2>2, EmptySeq DEF DataOf, Bytes
  <2> QED
    BY <2>1, <2>2
<1>5. v = Join(Join(x, y), d)
  BY DEF MessageParts, Join
<1>6. NfpMessageBytes(m) = Join(Join(Join(w, x), y), d)
  <2>1. NfpMessageBytes(m) =
          w \o x \o y \o (IF m.kind = "Advertise"
                          THEN WriteTypeLength(T_ADV_DATA, 6) \o U32(m.seqnum) \o U16(m.distance) ELSE <<>>)
    BY NfpTypesDiffer DEF NfpMessageBytes
  <2>2. d = IF m.kind = "Advertise"
            THEN WriteTypeLength(T_ADV_DATA, 6) \o U32(m.seqnum) \o U16(m.distance) ELSE <<>>
    <3>1. CASE m.kind = "Advertise"
      <4>1. TlvBytes(DataTlv(m)) = WriteTypeLength(T_ADV_DATA, 6) \o U32(m.seqnum) \o U16(m.distance)
        BY <3>1, MessageFields, DataIs
      <4> QED
        BY <3>1, <4>1 DEF DataOf
    <3>2. CASE m.kind # "Advertise"
      BY <3>2 DEF DataOf
    <3> QED
      BY <3>1, <3>2
  <2> HIDE DEF w, x, y, d
  <2> QED BY <2>1, <2>2 DEF Join
<1>7. type \in Word
  BY NfpTypesDiffer
<1>8. w = WriteTypeLength(type, n + k + l) /\ w \in Bytes
  <2>1. w = WriteTypeLength(type, n + k + l)
    BY <1>2
  <2> HIDE DEF n, k, l, type, w
  <2> QED BY <1>2, <1>7, <2>1, WriteTypeLengthIs
<1>9. tlv = [type |-> type, value |-> v]
  BY DEF MessageTlv
<1> HIDE DEF type, x, y, d, v, tlv, n, k, l, w
<1>10. v \in Bytes /\ Len(v) = n + k + l
  <2>1. Join(x, y) \in Bytes /\ Len(Join(x, y)) = n + k
    BY <1>3, BytesJoin DEF Join
  <2>2. v \in Bytes /\ Len(v) = Len(Join(x, y)) + Len(d)
    BY <1>4, <1>5, <2>1, BytesJoin DEF Join
  <2> QED
    BY <1>1, <1>4, <2>1, <2>2
<1>11. tlv \in Tlv
  BY <1>2, <1>7, <1>9, <1>10 DEF Tlv
<1>12. NfpMessageBytes(m) = TlvBytes(tlv)
  <2>1. Join(Join(Join(w, x), y), d) = Join(w, Join(Join(x, y), d))
    <3>1. Join(Join(w, x), y) = Join(w, Join(x, y)) /\ Join(x, y) \in Bytes
      BY <1>3, <1>8, JoinAssociates, JoinsTo
    <3>2. Join(Join(w, Join(x, y)), d) = Join(w, Join(Join(x, y), d))
      BY <1>4, <1>8, <3>1, JoinAssociates
    <3> QED
      BY <3>1, <3>2
  <2>2. TlvBytes(tlv) = Join(w, v)
    BY <1>8, <1>9, <1>10 DEF TlvBytes, Join
  <2> QED
    BY <1>5, <1>6, <2>1, <2>2
<1>13. TlvBytes(tlv) \in Bytes /\ Len(TlvBytes(tlv)) = NfpMessageSize(m)
  <2>1. Len(TlvBytes(tlv)) = 4 + Len(v) /\ TlvBytes(tlv) \in Bytes
    BY <1>9, <1>11, TlvBytesIs
  <2> QED
    BY <1>1, <1>10, <2>1
<1> QED
  BY <1>2, <1>3, <1>4, <1>11, <1>12, <1>13 DEF x, y, d, tlv, n, k, l

AdvertisesOf(names, seqnum, distance) ==
  {[kind |-> "Advertise", anchor |-> name[1], prefix |-> name[2], seqnum |-> seqnum,
    distance |-> distance] : name \in names}
WithdrawsOf(names) == {[kind |-> "Withdraw", anchor |-> name[1], prefix |-> name[2]] : name \in names}

\* Deserialize finds the message that Serialize wrote, wherever it is.
LEMMA MessageAtIsRead ==
  ASSUME NEW m, NfpMessageFits(m), NfpMessageSize(m) \in Word,
         NEW b \in Bytes, NEW p \in Nat, At(b, p, NfpMessageBytes(m))
  PROVE  NfpMessageAt(b, p) = {m} /\ TlvSize(b, p) = NfpMessageSize(m)
<1> DEFINE x == NameBytes(m.anchor)
           y == NameBytes(m.prefix)
           d == DataOf(m)
           xy == x \o y
           n == NameSize(m.anchor)
           k == NameSize(m.prefix)
<1>1. /\ m.anchor \in Name /\ m.prefix \in Name /\ SegmentsFilled(m.anchor) /\ SegmentsFilled(m.prefix)
      /\ m.kind = "Advertise" => m \in NfpAdvertise
      /\ m.kind # "Advertise" => m \in NfpWithdraw
      /\ n \in Nat /\ k \in Nat /\ NfpMessageSize(m) \in Nat
      /\ NfpMessageSize(m) = 4 + n + k + (IF m.kind = "Advertise" THEN 10 ELSE 0)
  BY MessageFields
<1>2. /\ MessageTlv(m) \in Tlv /\ NfpMessageBytes(m) = TlvBytes(MessageTlv(m))
      /\ Len(NfpMessageBytes(m)) = NfpMessageSize(m) /\ n \in Word /\ k \in Word
      /\ x \in Bytes /\ Len(x) = n /\ y \in Bytes /\ Len(y) = k /\ d \in Bytes
  BY MessageIsWritten
<1>3. /\ MessageTlv(m).value = xy \o d
      /\ MessageTlv(m).type = IF m.kind = "Advertise" THEN T_ADV ELSE T_WITHDRAW
  BY DEF MessageTlv, MessageParts
<1>4. /\ TypeAt(b, p) = MessageTlv(m).type /\ TlvSize(b, p) = NfpMessageSize(m)
      /\ At(b, p + 4, MessageTlv(m).value)
  BY <1>2, TlvAtIs
<1>5. xy \in Bytes /\ Len(xy) = n + k
  <2>1. xy \in Bytes /\ Len(xy) = Len(x) + Len(y)
    BY <1>2, BytesJoin
  <2> QED
    BY <1>2, <2>1
<1> HIDE DEF x, y, d, xy, n, k
<1>6. PICK q \in Nat : q = p + 4
  OBVIOUS
<1>7. PICK r \in Nat : r = q + n
  BY <1>1
<1>8. PICK s \in Nat : s = q + (n + k)
  BY <1>1
<1>9. At(b, q, xy) /\ At(b, s, d)
  <2>1. At(b, q, xy \o d)
    BY <1>3, <1>4, <1>6
  <2>2. At(b, q, xy) /\ At(b, q + Len(xy), d)
    BY <1>2, <1>5, <2>1, AtParts DEF Bytes
  <2> QED
    BY <1>5, <1>8, <2>2
<1>10. At(b, q, x) /\ At(b, r, y)
  <2>1. At(b, q, x \o y)
    BY <1>9 DEF xy
  <2>2. At(b, q, x) /\ At(b, q + Len(x), y)
    BY <1>2, <2>1, AtParts DEF Bytes
  <2> QED
    BY <1>2, <1>7, <2>2
<1>11. NameAt(b, q) = {m.anchor} /\ TlvSize(b, q) = n
  BY <1>1, <1>2, <1>10, NameAtIs DEF x, n
<1>12. NameAt(b, r) = {m.prefix} /\ TlvSize(b, r) = k
  BY <1>1, <1>2, <1>10, NameAtIs DEF y, k
<1> DEFINE anchorAt == p + TLSize
           prefixAt == p + TLSize + TlvSize(b, p + TLSize)
           dataAt == prefixAt + TlvSize(b, prefixAt)
           end == p + TlvSize(b, p)
           names == NameAt(b, p + TLSize) \X NameAt(b, prefixAt)
           isAdvertise == /\ TypeAt(b, p) = T_ADV
                          /\ TypeAt(b, dataAt) = T_ADV_DATA
                          /\ TlvSize(b, dataAt) = TLSize + 6
                          /\ dataAt + TLSize + 6 = end
           isWithdraw == TypeAt(b, p) = T_WITHDRAW /\ dataAt = end
<1>13. NfpMessageAt(b, p) =
         CASE isAdvertise ->
                AdvertisesOf(names, BigEndian(Read(b, dataAt + TLSize, 4)), ReadU16(b, dataAt + TLSize + 4))
           [] isWithdraw -> WithdrawsOf(names)
           [] OTHER -> {}
  BY DEF NfpMessageAt, AdvertisesOf, WithdrawsOf
<1>14. anchorAt = q /\ prefixAt = r /\ dataAt = s
  <2>1. anchorAt = q
    BY <1>6, NfpTypesDiffer
  <2>2. prefixAt = q + n
    BY <1>11, <2>1
  <2>3. prefixAt = r
    BY <1>7, <2>2
  <2> HIDE DEF prefixAt
  <2>4. dataAt = r + k
    BY <1>12, <2>3
  <2> QED
    BY <1>1, <1>7, <1>8, <2>1, <2>3, <2>4
<1>15. names = {<<m.anchor, m.prefix>>}
  BY <1>11, <1>12, <1>14
<1>16. end = p + NfpMessageSize(m)
  BY <1>4
<1> HIDE DEF anchorAt, prefixAt, dataAt, end, names
<1>17. CASE m.kind = "Advertise"
  <2>1. /\ DataTlv(m) \in Tlv /\ Len(TlvBytes(DataTlv(m))) = 10
        /\ \A c \in Bytes, i \in Nat : At(c, i, DataTlv(m).value) =>
             BigEndian(Read(c, i, 4)) = m.seqnum /\ ReadU16(c, i + 4) = m.distance
    BY <1>1, <1>17, DataIs
  <2>2. At(b, s, TlvBytes(DataTlv(m)))
    BY <1>9, <1>17 DEF d, DataOf
  <2>3. TypeAt(b, s) = DataTlv(m).type /\ TlvSize(b, s) = 10 /\ At(b, s + 4, DataTlv(m).value)
    BY <2>1, <2>2, TlvAtIs
  <2>4. DataTlv(m).type = T_ADV_DATA
    BY DEF DataTlv
  <2>5. BigEndian(Read(b, s + 4, 4)) = m.seqnum /\ ReadU16(b, s + 4 + 4) = m.distance
    <3>1. s + 4 \in Nat
      OBVIOUS
    <3> QED
      BY <2>1, <2>3, <3>1
  <2>6. dataAt + TLSize + 6 = end
    <3>1. NfpMessageSize(m) = 4 + n + k + 10
      BY <1>1, <1>17
    <3>2. s + 4 + 6 = p + NfpMessageSize(m)
      BY <1>1, <1>6, <1>8, <3>1
    <3> QED
      BY <1>14, <1>16, <3>2, NfpTypesDiffer
  <2>7. isAdvertise /\ ~isWithdraw
    <3>1. TLSize + 6 = 10
      BY NfpTypesDiffer
    <3> QED
      BY <1>3, <1>4, <1>14, <1>17, <2>3, <2>4, <2>6, <3>1, NfpTypesDiffer
  <2>8. NfpMessageAt(b, p) = AdvertisesOf(names, m.seqnum, m.distance)
    <3>1. BigEndian(Read(b, dataAt + TLSize, 4)) = m.seqnum /\ ReadU16(b, dataAt + TLSize + 4) = m.distance
      BY <1>14, <2>5, NfpTypesDiffer
    <3> HIDE DEF isAdvertise, isWithdraw
    <3>2. NfpMessageAt(b, p) =
            AdvertisesOf(names, BigEndian(Read(b, dataAt + TLSize, 4)), ReadU16(b, dataAt + TLSize + 4))
      BY <1>13, <2>7
    <3> QED
      BY <3>1, <3>2
  <2>9. m = [kind |-> "Advertise", anchor |-> m.anchor, prefix |-> m.prefix, seqnum |-> m.seqnum,
             distance |-> m.distance]
    BY <1>1, <1>17 DEF NfpAdvertise
  <2>10. AdvertisesOf({<<m.anchor, m.prefix>>}, m.seqnum, m.distance)
         = {[kind |-> "Advertise", anchor |-> m.anchor, prefix |-> m.prefix, seqnum |-> m.seqnum,
             distance |-> m.distance]}
    BY DEF AdvertisesOf
  <2> QED
    BY <1>4, <1>15, <2>8, <2>9, <2>10
<1>18. CASE m.kind # "Advertise"
  <2>1. ~isAdvertise /\ isWithdraw
    <3>1. s = p + NfpMessageSize(m)
      <4>1. NfpMessageSize(m) = 4 + n + k + 0
        BY <1>1, <1>18
      <4> QED
        BY <1>1, <1>6, <1>8, <4>1
    <3> QED
      BY <1>3, <1>4, <1>14, <1>16, <1>18, <3>1, NfpTypesDiffer
  <2>2. NfpMessageAt(b, p) = WithdrawsOf(names)
    <3> HIDE DEF isAdvertise, isWithdraw
    <3> QED
      BY <1>13, <2>1
  <2>3. m = [kind |-> "Withdraw", anchor |-> m.anchor, prefix |-> m.prefix]
    BY <1>1, <1>18 DEF NfpWithdraw
  <2>4. WithdrawsOf({<<m.anchor, m.prefix>>}) = {[kind |-> "Withdraw", anchor |-> m.anchor, prefix |-> m.prefix]}
    BY DEF WithdrawsOf
  <2> QED
    BY <1>4, <1>15, <2>2, <2>3, <2>4
<1> QED
  BY <1>17, <1>18

\* Messages one behind the other, from a position on; the k-th ends at end[k].
Follow(b, start, n, messages, end) ==
  /\ end \in [0 .. n -> Nat] /\ end[0] = start
  /\ \A k \in 1 .. n : /\ NfpMessageFits(messages[k]) /\ NfpMessageSize(messages[k]) \in Word
                       /\ end[k] = end[k - 1] + NfpMessageSize(messages[k])
                       /\ At(b, end[k - 1], NfpMessageBytes(messages[k]))

Following(b, start, n, messages, end) ==
  /\ b \in Bytes /\ start \in Nat
  /\ messages \in Seq(NfpAdvertise \cup NfpWithdraw) /\ n = Len(messages)
  /\ Follow(b, start, n, messages, end)
Appended(A, B) == {Append(read, m) : read \in A, m \in B}

\* The loop reads the messages.
LEMMA MessagesAreRead ==
  ASSUME NEW b, NEW start, NEW n, NEW messages, NEW end, Following(b, start, n, messages, end)
  PROVE  NfpMessagesAt(b, start, end[n]) = {messages}
<1> DEFINE N == end[n]
           M == Turns(end[n])
           S == NfpAdvertise \cup NfpWithdraw
           Begin(k) == [i \in 1 .. k |-> messages[i]]
           state(k) == [p |-> end[k], messages |-> {Begin(k)}]
           z == [p |-> start, messages |-> {<<>>}]
<1>1. /\ b \in Bytes /\ start \in Nat
      /\ n \in Nat /\ end \in [0 .. n -> Nat] /\ end[0] = start
      /\ messages = Begin(n) /\ \A k \in 1 .. n : messages[k] \in S
  <2>1. b \in Bytes /\ start \in Nat /\ messages \in Seq(S) /\ n = Len(messages) /\ Follow(b, start, n, messages, end)
    BY DEF Following
  <2>2. messages \in [1 .. n -> S] /\ n \in Nat
    BY <2>1, ElementOfSeq
  <2> QED
    BY <2>1, <2>2 DEF Follow
<1> HIDE DEF S
<1>2. ASSUME NEW k \in 1 .. n
      PROVE  /\ k - 1 \in 0 .. n /\ k \in 0 .. n /\ end[k] \in Nat /\ end[k - 1] \in Nat
             /\ end[k] = end[k - 1] + TlvSize(b, end[k - 1]) /\ end[k - 1] + 4 <= end[k] /\ end[k - 1] < end[k]
             /\ NfpMessageAt(b, end[k - 1]) = {messages[k]}
  <2>1. k - 1 \in 0 .. n /\ k \in 0 .. n
    BY <1>1
  <2>2. end[k] \in Nat /\ end[k - 1] \in Nat
    BY <1>1, <2>1
  <2>3. /\ NfpMessageFits(messages[k]) /\ NfpMessageSize(messages[k]) \in Word
        /\ end[k] = end[k - 1] + NfpMessageSize(messages[k])
        /\ At(b, end[k - 1], NfpMessageBytes(messages[k]))
    BY DEF Following, Follow
  <2>4. NfpMessageAt(b, end[k - 1]) = {messages[k]} /\ TlvSize(b, end[k - 1]) = NfpMessageSize(messages[k])
    BY <1>1, <2>2, <2>3, MessageAtIsRead
  <2>5. NfpMessageSize(messages[k]) \in Nat /\ NfpMessageSize(messages[k]) >= 4
    BY <2>3, MessageFields
  <2> QED
    BY <2>1, <2>2, <2>3, <2>4, <2>5
<1>3. \A k \in 0 .. n : 4 * k <= end[k]
  <2> DEFINE T == {k \in 0 .. n : 4 * k <= end[k]}
  <2>1. 0 \in T
    BY <1>1
  <2>2. \A k \in 1 .. n : k - 1 \in T => k \in T
    BY <1>2
  <2>3. \A k \in 0 .. n : k \in T
    <3> HIDE DEF T
    <3> QED BY <1>1, <2>1, <2>2, Induction
  <2> QED
    BY <2>3
<1>4. \A k \in 0 .. n : end[k] <= N
  <2> DEFINE T == {j \in 0 .. n : end[n - j] <= N}
  <2>1. 0 \in T
    BY <1>1
  <2>2. ASSUME NEW j \in 1 .. n, j - 1 \in T PROVE j \in T
    <3>1. PICK i \in 1 .. n : i = n - (j - 1)
      BY <1>1
    <3>a. end[i] <= N
      BY <2>2, <3>1
    <3>b. end[i - 1] < end[i] /\ end[i - 1] \in Nat /\ end[i] \in Nat
      BY <1>2
    <3>c. N \in Nat
      BY <1>1
    <3>3. n - j = i - 1
      BY <1>1, <3>1
    <3>d. j \in 0 .. n
      BY <1>1
    <3> HIDE DEF N
    <3>e. end[i - 1] <= N
      BY <3>a, <3>b, <3>c
    <3> QED
      BY <3>3, <3>d, <3>e
  <2>3. \A j \in 0 .. n : j \in T
    <3> HIDE DEF T
    <3> QED BY <1>1, <2>1, <2>2, Induction
  <2>4. \A k \in 0 .. n : n - k \in 0 .. n /\ n - (n - k) = k
    BY <1>1
  <2> QED
    BY <2>3, <2>4
<1>5. N \in Nat /\ M \in Nat /\ n <= M
  <2>1. N \in Nat /\ 4 * n <= N
    BY <1>1, <1>3
  <2>2. M = N \div 4 + 1
    BY DEF Turns, TLSize
  <2> HIDE DEF M, N
  <2> QED
    BY <1>1, <2>1, <2>2
<1>6. ASSUME NEW k \in 1 .. n PROVE NextMessage(b, N, state(k - 1)) = state(k)
  <2> DEFINE w == state(k - 1)
  <2>1. w.p = end[k - 1] /\ w.messages = {Begin(k - 1)} /\ w.messages # {}
    OBVIOUS
  <2>2. ~(w.p >= N)
    <3>1. end[k] <= N /\ end[k - 1] < end[k] /\ end[k] \in Nat /\ end[k - 1] \in Nat
      BY <1>2, <1>4
    <3> HIDE DEF N
    <3> QED BY <1>5, <2>1, <3>1
  <2>3. Append(Begin(k - 1), messages[k]) = Begin(k)
    <3>1. Begin(k - 1) \in [1 .. k - 1 -> S] /\ Begin(k) \in [1 .. k -> S] /\ k - 1 \in Nat /\ k \in Nat
      BY <1>1
    <3>2. /\ Begin(k - 1) \in Seq(S) /\ Len(Begin(k - 1)) = k - 1
          /\ Begin(k) \in Seq(S) /\ Len(Begin(k)) = k
      <4> HIDE DEF Begin
      <4> QED BY <3>1, FunctionIsSequence
    <3>3. \A i \in 1 .. k : Begin(k)[i] = messages[i]
      OBVIOUS
    <3>4. \A i \in 1 .. k - 1 : Begin(k - 1)[i] = messages[i]
      OBVIOUS
    <3> HIDE DEF Begin
    <3>5. /\ Append(Begin(k - 1), messages[k]) \in Seq(S) /\ Len(Append(Begin(k - 1), messages[k])) = k
          /\ \A i \in 1 .. k - 1 : Append(Begin(k - 1), messages[k])[i] = Begin(k - 1)[i]
          /\ Append(Begin(k - 1), messages[k])[k] = messages[k]
      BY <1>1, <3>2, AppendProperties
    <3>6. ASSUME NEW i \in 1 .. k PROVE Append(Begin(k - 1), messages[k])[i] = Begin(k)[i]
      BY <3>3, <3>4, <3>5
    <3> QED
      BY <3>2, <3>5, <3>6, SeqEqual
  <2>4. Appended({Begin(k - 1)}, {messages[k]}) = {Append(Begin(k - 1), messages[k])}
    BY DEF Appended
  <2>5. end[k] = end[k - 1] + TlvSize(b, end[k - 1]) /\ NfpMessageAt(b, end[k - 1]) = {messages[k]}
    BY <1>2
  <2> HIDE DEF w, Begin, N
  <2>6. NextMessage(b, N, w) =
          [p |-> w.p + TlvSize(b, w.p), messages |-> Appended(w.messages, NfpMessageAt(b, w.p))]
    BY <2>1, <2>2 DEF NextMessage, Appended
  <2>7. NextMessage(b, N, w) = [p |-> end[k], messages |-> Appended({Begin(k - 1)}, {messages[k]})]
    BY <2>1, <2>5, <2>6
  <2>8. NextMessage(b, N, w) = state(k)
    BY <2>3, <2>4, <2>7
  <2> QED
    BY <2>8 DEF w
<1>7. NextMessage(b, N, state(n)) = state(n)
  BY <1>5 DEF NextMessage
<1>8. state(0) = z
  <2>1. Begin(0) = <<>>
    OBVIOUS
  <2> HIDE DEF Begin
  <2> QED BY <1>1, <2>1
<1>9. state(n).p = N /\ state(n).messages = {messages}
  BY <1>1
<1> HIDE DEF state, z, Begin, N, M
<1> DEFINE g == [k \in 0 .. M |-> IF k <= n THEN state(k) ELSE state(n)]
           Is(f) == f = [k \in 0 .. M |-> IF k = 0 THEN z ELSE NextMessage(b, N, f[k - 1])]
           c == CHOOSE f : Is(f)
<1>10. Is(g)
  <2> SUFFICES ASSUME NEW k \in 0 .. M
               PROVE  g[k] = IF k = 0 THEN z ELSE NextMessage(b, N, g[k - 1])
    OBVIOUS
  <2>1. CASE k = 0
    BY <1>1, <1>8, <2>1
  <2>2. CASE k \in 1 .. n
    <3>1. g[k] = state(k) /\ g[k - 1] = state(k - 1)
      BY <1>1, <1>5, <2>2
    <3> QED
      BY <1>6, <2>2, <3>1
  <2>3. CASE k > n /\ k # 0
    <3>1. g[k] = state(n)
      <4>1. ~(k <= n)
        BY <1>1, <1>5, <2>3
      <4> QED BY <4>1
    <3>2. g[k - 1] = state(n)
      <4>1. k - 1 \in 0 .. M /\ (k - 1 <= n => k - 1 = n)
        BY <1>1, <1>5, <2>3
      <4> QED BY <4>1
    <3> HIDE DEF g
    <3> QED
      BY <1>7, <2>3, <3>1, <3>2
  <2> QED
    BY <1>1, <2>1, <2>2, <2>3
<1>11. Is(c)
  <2> HIDE DEF Is, g
  <2> QED BY <1>10
<1>12. NfpMessagesAt(b, start, N) = IF c[M].p = N THEN c[M].messages ELSE {}
  BY DEF NfpMessagesAt, z, M, N
<1> HIDE DEF c, g
<1>13. \A k \in 0 .. M : c[k] = g[k]
  <2> DEFINE T == {k \in 0 .. M : c[k] = g[k]}
  <2>1. 0 \in T
    BY <1>5, <1>10, <1>11
  <2>2. ASSUME NEW k \in 1 .. M, k - 1 \in T PROVE k \in T
    <3>1. c[k] = NextMessage(b, N, c[k - 1])
      BY <1>5, <1>11
    <3>2. g[k] = NextMessage(b, N, g[k - 1])
      BY <1>5, <1>10
    <3> QED
      BY <2>2, <3>1, <3>2
  <2>3. \A k \in 0 .. M : k \in T
    <3> HIDE DEF T, M
    <3> QED BY <1>5, <2>1, <2>2, Induction
  <2> QED
    BY <2>3
<1>14. c[M] = state(n)
  <2>1. M \in 0 .. M
    BY <1>5
  <2>2. g[M] = state(n)
    BY <1>1, <1>5, <2>1 DEF g
  <2> QED
    BY <1>13, <2>1, <2>2
<1>15. NfpMessagesAt(b, start, N) = {messages}
  BY <1>9, <1>12, <1>14
<1> QED
  BY <1>15 DEF N

\* The messages of a payload.
MessagesSize(messages) == SumOver(NfpMessageSize, messages)
MessagesBytes(messages) == WriteAll(NfpMessageBytes, messages)
MessagesFit(messages) == \A i \in 1 .. Len(messages) : NfpMessageFits(messages[i])
Joins(b, n, messages, end) ==
  /\ end \in [0 .. n -> Nat] /\ end[0] = 0 /\ end[n] = Len(b)
  /\ \A k \in 1 .. n : /\ NfpMessageSize(messages[k]) \in Word
                       /\ end[k] = end[k - 1] + NfpMessageSize(messages[k])
                       /\ At(b, end[k - 1], NfpMessageBytes(messages[k]))

LEMMA MessagesAre ==
  ASSUME NEW S, NEW messages \in Seq(S), MessagesFit(messages)
  PROVE  /\ MessagesSize(messages) \in Nat
         /\ MessagesSize(messages) \in Word =>
              /\ MessagesBytes(messages) \in Bytes /\ Len(MessagesBytes(messages)) = MessagesSize(messages)
              /\ \E end : Joins(MessagesBytes(messages), Len(messages), messages, end)
<1> DEFINE n == Len(messages)
           ss == [i \in 1 .. n |-> NfpMessageBytes(messages[i])]
           size == [i \in 1 .. n |-> NfpMessageSize(messages[i])]
<1>1. n \in Nat
  BY ElementOfSeq
<1>2. \A i \in 1 .. n : size[i] = NfpMessageSize(messages[i]) /\ ss[i] = NfpMessageBytes(messages[i])
  OBVIOUS
<1>3. size \in [1 .. n -> Nat]
  <2>1. \A i \in 1 .. n : NfpMessageSize(messages[i]) \in Nat
    BY MessageFields DEF MessagesFit
  <2> QED
    BY <2>1
<1>4. MessagesSize(messages) = Total(size) /\ MessagesBytes(messages) = FlattenSeq(ss)
  BY DEF MessagesSize, MessagesBytes, SumOver, WriteAll
<1>5. ss = [i \in 1 .. n |-> ss[i]]
  OBVIOUS
<1> HIDE DEF ss, size, n
<1>6. Total(size) \in Nat
  <2>1. size \in Seq(Nat) /\ Len(size) = n
    BY <1>1, <1>3, FunctionIsSequence
  <2>2. PICK t \in [0 .. n -> Nat] : Total(size) = t[n]
    BY <2>1, TotalIs
  <2> QED
    BY <1>1, <2>2
<1>7. ASSUME MessagesSize(messages) \in Word
      PROVE  /\ MessagesBytes(messages) \in Bytes /\ Len(MessagesBytes(messages)) = MessagesSize(messages)
             /\ \E end : Joins(MessagesBytes(messages), n, messages, end)
  <2>1. ASSUME NEW i \in 1 .. n
        PROVE  NfpMessageSize(messages[i]) \in Word /\ ss[i] \in Bytes /\ size[i] = Len(ss[i])
    <3>1. size[i] \in Nat /\ size[i] <= Total(size)
      BY <1>1, <1>3, PartOfTotal
    <3>2. Total(size) <= 65535
      BY <1>4, <1>7, WordIs
    <3>3. size[i] \in Word
      BY <1>6, <3>1, <3>2, WordIs
    <3>4. NfpMessageFits(messages[i]) /\ NfpMessageSize(messages[i]) \in Word
      BY <1>2, <3>3 DEF MessagesFit, n
    <3>5. /\ NfpMessageBytes(messages[i]) \in Bytes
          /\ Len(NfpMessageBytes(messages[i])) = NfpMessageSize(messages[i])
      BY <3>4, MessageIsWritten
    <3> QED
      BY <1>2, <3>4, <3>5
  <2>2. ss \in [1 .. n -> Seq(Byte)] /\ \A k \in 1 .. n : size[k] = Len(ss[k])
    BY <1>5, <2>1 DEF Bytes
  <2>3. /\ FlattenSeq(ss) \in Seq(Byte) /\ Len(FlattenSeq(ss)) = Total(size)
        /\ \E end \in [0 .. n -> Nat] :
              /\ end[0] = 0 /\ end[n] = Len(FlattenSeq(ss))
              /\ \A k \in 1 .. n : end[k] = end[k - 1] + Len(ss[k]) /\ At(FlattenSeq(ss), end[k - 1], ss[k])
    BY <1>1, <1>3, <2>2, JoinedLength
  <2>4. PICK end \in [0 .. n -> Nat] :
              /\ end[0] = 0 /\ end[n] = Len(FlattenSeq(ss))
              /\ \A k \in 1 .. n : end[k] = end[k - 1] + Len(ss[k]) /\ At(FlattenSeq(ss), end[k - 1], ss[k])
    BY <2>3
  <2>5. ASSUME NEW k \in 1 .. n
        PROVE  /\ NfpMessageSize(messages[k]) \in Word
               /\ end[k] = end[k - 1] + NfpMessageSize(messages[k])
               /\ At(FlattenSeq(ss), end[k - 1], NfpMessageBytes(messages[k]))
    <3>1. end[k] = end[k - 1] + Len(ss[k]) /\ At(FlattenSeq(ss), end[k - 1], ss[k])
      BY <2>4
    <3>2. Len(ss[k]) = NfpMessageSize(messages[k]) /\ ss[k] = NfpMessageBytes(messages[k])
      BY <1>2, <2>1
    <3> QED
      BY <2>1, <3>1, <3>2
  <2>6. Joins(FlattenSeq(ss), n, messages, end)
    BY <2>4, <2>5 DEF Joins
  <2> QED
    BY <1>4, <2>3, <2>6 DEF Bytes
<1> QED
  BY <1>4, <1>6, <1>7 DEF n

SeqnumTlv(p) == [type |-> T_MSG_SEQNUM, value |-> U16(p.seqnum)]
PayloadParts(p) == NameBytes(p.router) \o TlvBytes(SeqnumTlv(p)) \o MessagesBytes(p.messages)
PayloadTlv(p) == [type |-> T_MSG, value |-> PayloadParts(p)]

LEMMA PayloadFields ==
  ASSUME NEW p, NfpPayloadFits(p)
  PROVE  /\ p.router \in Name /\ SegmentsFilled(p.router) /\ p.seqnum \in Word
         /\ p.messages \in Seq(NfpAdvertise \cup NfpWithdraw) /\ MessagesFit(p.messages)
         /\ p = [router |-> p.router, seqnum |-> p.seqnum, messages |-> p.messages]
         /\ NameSize(p.router) \in Word /\ MessagesSize(p.messages) \in Word
         /\ 6 + NameSize(p.router) + MessagesSize(p.messages) \in Word
         /\ NfpPayloadSize(p) = 4 + (6 + NameSize(p.router) + MessagesSize(p.messages))
<1>1. /\ p \in NfpPayload /\ NfpPayloadSize(p) \in Word /\ SegmentsFilled(p.router)
      /\ MessagesFit(p.messages)
  BY DEF NfpPayloadFits, MessagesFit
<1>2. /\ p.router \in Name /\ p.seqnum \in Word /\ p.messages \in Seq(NfpAdvertise \cup NfpWithdraw)
      /\ p = [router |-> p.router, seqnum |-> p.seqnum, messages |-> p.messages]
  BY <1>1 DEF NfpPayload
<1>3. NameSize(p.router) \in Nat /\ MessagesSize(p.messages) \in Nat
  BY <1>1, <1>2, NameIs, MessagesAre
<1>4. NfpPayloadSize(p) = 4 + NameSize(p.router) + 4 + 2 + MessagesSize(p.messages)
  BY DEF NfpPayloadSize, FixedOverhead, MessagesSize, TLSize
<1>5. PICK n \in Nat, l \in Nat : n = NameSize(p.router) /\ l = MessagesSize(p.messages)
  BY <1>3
<1>6. PICK m \in Word : m = NfpPayloadSize(p)
  BY <1>1
<1>7. m \in Nat /\ m <= 65535 /\ m = 4 + n + 4 + 2 + l
  BY <1>4, <1>5, <1>6, WordIs
<1>8. n \in Word /\ l \in Word /\ 6 + n + l \in Word /\ m = 4 + (6 + n + l)
  <2>1. n <= 65535 /\ l <= 65535 /\ 6 + n + l <= 65535 /\ m = 4 + (6 + n + l)
    BY <1>7
  <2> QED
    BY <2>1, WordIs
<1> QED
  BY <1>1, <1>2, <1>5, <1>6, <1>8

\* A payload is a TLV of its size.
LEMMA PayloadIsWritten ==
  ASSUME NEW p, NfpPayloadFits(p)
  PROVE  /\ PayloadTlv(p) \in Tlv /\ NfpPayloadBytes(p) = TlvBytes(PayloadTlv(p))
         /\ NfpPayloadBytes(p) \in Bytes /\ Len(NfpPayloadBytes(p)) = NfpPayloadSize(p)
         /\ SeqnumTlv(p) \in Tlv /\ TlvBytes(SeqnumTlv(p)) \in Bytes /\ Len(TlvBytes(SeqnumTlv(p))) = 6
         /\ NameBytes(p.router) \in Bytes /\ Len(NameBytes(p.router)) = NameSize(p.router)
         /\ MessagesBytes(p.messages) \in Bytes /\ Len(MessagesBytes(p.messages)) = MessagesSize(p.messages)
<1> DEFINE x == NameBytes(p.router)
           u == U16(p.seqnum)
           v == WriteTypeLength(T_MSG_SEQNUM, 2)
           y == TlvBytes(SeqnumTlv(p))
           ms == MessagesBytes(p.messages)
           n == NameSize(p.router)
           l == MessagesSize(p.messages)
           w == WriteTypeLength(T_MSG, NfpPayloadSize(p) - 4)
           parts == PayloadParts(p)
           tlv == PayloadTlv(p)
<1>1. /\ p.router \in Name /\ p.seqnum \in Word /\ n \in Word /\ l \in Word
      /\ p.messages \in Seq(NfpAdvertise \cup NfpWithdraw) /\ MessagesFit(p.messages)
      /\ 6 + n + l \in Word /\ NfpPayloadSize(p) = 4 + (6 + n + l)
  BY PayloadFields
<1>2. n \in Nat /\ l \in Nat
  BY <1>1, WordIs
<1>3. x \in Bytes /\ Len(x) = n
  BY <1>1, NameIs
<1>4. ms \in Bytes /\ Len(ms) = l
  BY <1>1, MessagesAre
<1>5. u \in Bytes /\ Len(u) = 2
  BY <1>1, U16Is
<1>6. SeqnumTlv(p) \in Tlv /\ SeqnumTlv(p).value = u /\ SeqnumTlv(p).type = T_MSG_SEQNUM
  <2>1. Len(u) \in Word
    BY <1>5, WordIs
  <2>2. SeqnumTlv(p) = [type |-> T_MSG_SEQNUM, value |-> u]
    BY DEF SeqnumTlv
  <2> HIDE DEF u
  <2>3. SeqnumTlv(p).value = u /\ SeqnumTlv(p).type = T_MSG_SEQNUM
    BY <2>2
  <2>4. T_MSG_SEQNUM \in Word
    BY NfpTypesDiffer
  <2>5. SeqnumTlv(p) \in Tlv
    BY <1>5, <2>1, <2>2, <2>4, TlvOf
  <2> QED BY <2>3, <2>5
<1>7. y = v \o u /\ y \in Bytes /\ Len(y) = 6 /\ v \in Bytes
  <2>1. y = v \o u
    BY <1>5, <1>6 DEF TlvBytes
  <2>2. Len(y) = 4 + 2 /\ y \in Bytes
    BY <1>5, <1>6, TlvBytesIs
  <2>3. v \in Bytes
    BY WordIs, NfpTypesDiffer, WriteTypeLengthIs
  <2> QED
    BY <2>1, <2>2, <2>3
<1>8. w = WriteTypeLength(T_MSG, 6 + n + l) /\ w \in Bytes
  <2>1. NfpPayloadSize(p) - 4 = 6 + n + l
    BY <1>1, <1>2
  <2>2. w = WriteTypeLength(T_MSG, 6 + n + l)
    BY <2>1
  <2> HIDE DEF n, l, w
  <2> QED BY <1>1, <2>2, NfpTypesDiffer, WriteTypeLengthIs
<1>9. parts = Join(Join(x, y), ms)
  BY DEF PayloadParts, Join
<1>10. NfpPayloadBytes(p) = Join(Join(Join(Join(w, x), v), u), ms)
  BY NfpTypesDiffer DEF NfpPayloadBytes, MessagesBytes, Join
<1>11. tlv = [type |-> T_MSG, value |-> parts]
  BY DEF PayloadTlv
<1> HIDE DEF x, u, v, y, ms, n, l, w, parts, tlv
<1>12. parts \in Bytes /\ Len(parts) = 6 + n + l
  <2>1. Join(x, y) \in Bytes /\ Len(Join(x, y)) = Len(x) + Len(y)
    BY <1>3, <1>7, BytesJoin DEF Join
  <2>2. parts \in Bytes /\ Len(parts) = Len(Join(x, y)) + Len(ms)
    BY <1>4, <1>9, <2>1, BytesJoin DEF Join
  <2> QED
    BY <1>2, <1>3, <1>4, <1>7, <2>1, <2>2
<1>13. tlv \in Tlv
  BY <1>1, <1>11, <1>12, NfpTypesDiffer DEF Tlv
<1>14. NfpPayloadBytes(p) = Join(w, parts)
  <2>1. Join(Join(Join(w, x), v), u) = Join(Join(w, x), y) /\ Join(w, x) \in Bytes
    <3>1. Join(w, x) \in Bytes
      BY <1>3, <1>8, JoinsTo
    <3>2. Join(Join(Join(w, x), v), u) = Join(Join(w, x), Join(v, u))
      BY <1>5, <1>7, <3>1, JoinAssociates
    <3> QED
      BY <1>7, <3>1, <3>2 DEF Join
  <2>2. Join(Join(w, x), y) = Join(w, Join(x, y)) /\ Join(x, y) \in Bytes
    BY <1>3, <1>7, <1>8, JoinAssociates, JoinsTo
  <2>3. Join(Join(w, Join(x, y)), ms) = Join(w, Join(Join(x, y), ms))
    BY <1>4, <1>8, <2>2, JoinAssociates
  <2> QED
    BY <1>9, <1>10, <2>1, <2>2, <2>3
<1>15. NfpPayloadBytes(p) = TlvBytes(tlv)
  BY <1>8, <1>11, <1>12, <1>14 DEF TlvBytes, Join
<1>16. TlvBytes(tlv) \in Bytes /\ Len(TlvBytes(tlv)) = NfpPayloadSize(p)
  <2>1. Len(TlvBytes(tlv)) = 4 + Len(parts) /\ TlvBytes(tlv) \in Bytes
    BY <1>11, <1>13, TlvBytesIs
  <2> QED
    BY <1>1, <1>12, <2>1
<1> QED
  BY <1>3, <1>4, <1>6, <1>7, <1>13, <1>15, <1>16 DEF x, y, ms, n, l, tlv

\* Deserialize finds the payload that Serialize wrote.
LEMMA PayloadIsRead ==
  ASSUME NEW p, NfpPayloadFits(p)
  PROVE  NfpPayloadOf(NfpPayloadBytes(p)) = {p}
<1> DEFINE b == NfpPayloadBytes(p)
           x == NameBytes(p.router)
           y == TlvBytes(SeqnumTlv(p))
           xy == x \o y
           ms == MessagesBytes(p.messages)
           n == NameSize(p.router)
           l == MessagesSize(p.messages)
           k == Len(p.messages)
<1>1. /\ p.router \in Name /\ SegmentsFilled(p.router) /\ p.seqnum \in Word
      /\ p.messages \in Seq(NfpAdvertise \cup NfpWithdraw) /\ MessagesFit(p.messages)
      /\ p = [router |-> p.router, seqnum |-> p.seqnum, messages |-> p.messages]
      /\ n \in Word /\ l \in Word /\ NfpPayloadSize(p) = 4 + (6 + n + l)
  BY PayloadFields
<1>2. /\ PayloadTlv(p) \in Tlv /\ b = TlvBytes(PayloadTlv(p)) /\ b \in Bytes /\ Len(b) = NfpPayloadSize(p)
      /\ SeqnumTlv(p) \in Tlv /\ y \in Bytes /\ Len(y) = 6
      /\ x \in Bytes /\ Len(x) = n /\ ms \in Bytes /\ Len(ms) = l
  BY PayloadIsWritten
<1>3. PICK end : Joins(ms, k, p.messages, end)
  BY <1>1, MessagesAre
<1>4. /\ PayloadTlv(p).type = T_MSG /\ PayloadTlv(p).value = xy \o ms
      /\ SeqnumTlv(p).type = T_MSG_SEQNUM /\ SeqnumTlv(p).value = U16(p.seqnum)
  BY DEF PayloadTlv, PayloadParts, SeqnumTlv
<1>5. At(b, 0, TlvBytes(PayloadTlv(p)))
  BY <1>2, AtSelf DEF Bytes
<1>6. n \in Nat /\ l \in Nat /\ k \in Nat
  BY <1>1, WordIs, ElementOfSeq
<1> HIDE DEF b, x, y, xy, ms, n, l, k
<1>7. TypeAt(b, 0) = T_MSG /\ TlvSize(b, 0) = Len(b) /\ At(b, 0 + 4, xy \o ms)
  <2>1. PICK tlv \in Tlv : tlv = PayloadTlv(p)
    BY <1>2
  <2>2. At(b, 0, TlvBytes(tlv)) /\ 0 \in Nat
    BY <1>5, <2>1
  <2>3. TypeAt(b, 0) = tlv.type /\ TlvSize(b, 0) = Len(TlvBytes(tlv)) /\ At(b, 0 + 4, tlv.value)
    BY <1>2, <2>2, TlvAtIs
  <2> QED
    BY <1>2, <1>4, <2>1, <2>3
<1>8. xy \in Bytes /\ Len(xy) = n + 6
  <2>1. xy \in Bytes /\ Len(xy) = Len(x) + Len(y)
    BY <1>2, BytesJoin DEF xy
  <2> QED
    BY <1>2, <2>1
<1>9. PICK s \in Nat : s = 4 + n
  BY <1>6
<1>10. PICK f \in Nat : f = s + 6
  OBVIOUS
<1>11. At(b, 4, xy) /\ At(b, f, ms)
  <2>1. At(b, 4, xy \o ms)
    BY <1>7
  <2>2. At(b, 4, xy) /\ At(b, 4 + Len(xy), ms)
    BY <1>2, <1>8, <2>1, AtParts DEF Bytes
  <2>3. 4 + Len(xy) = f
    BY <1>6, <1>8, <1>9, <1>10
  <2> QED
    BY <2>2, <2>3
<1>12. At(b, 4, x) /\ At(b, s, y)
  <2>1. At(b, 4, x \o y)
    BY <1>11 DEF xy
  <2>2. At(b, 4, x) /\ At(b, 4 + Len(x), y)
    BY <1>2, <2>1, AtParts DEF Bytes
  <2> QED
    BY <1>2, <1>9, <2>2
<1>13. NameAt(b, 4) = {p.router} /\ TlvSize(b, 4) = n
  BY <1>1, <1>2, <1>12, NameAtIs DEF x, n
<1>14. TypeAt(b, s) = T_MSG_SEQNUM /\ TlvSize(b, s) = 6 /\ ReadU16(b, s + 4) = p.seqnum
  <2>1. /\ TypeAt(b, s) = SeqnumTlv(p).type /\ TlvSize(b, s) = Len(y)
        /\ At(b, s + 4, U16(p.seqnum))
    <3>1. PICK tlv \in Tlv : tlv = SeqnumTlv(p)
      BY <1>2
    <3>2. At(b, s, TlvBytes(tlv))
      BY <1>12, <3>1 DEF y
    <3>3. TypeAt(b, s) = tlv.type /\ TlvSize(b, s) = Len(TlvBytes(tlv)) /\ At(b, s + 4, tlv.value)
      BY <1>2, <3>2, TlvAtIs
    <3> QED
      BY <1>4, <3>1, <3>3 DEF y
  <2>2. Len(U16(p.seqnum)) = 2 /\ 256 * U16(p.seqnum)[1] + U16(p.seqnum)[2] = p.seqnum
    BY <1>1, U16Is
  <2>3. b[(s + 4) + 1] = U16(p.seqnum)[1] /\ b[(s + 4) + 2] = U16(p.seqnum)[2]
    BY <2>1, <2>2 DEF At
  <2>4. ReadU16(b, s + 4) = p.seqnum
    BY <2>2, <2>3 DEF ReadU16
  <2> QED
    BY <1>2, <1>4, <2>1, <2>4
<1>15. NfpMessagesAt(b, f, Len(b)) = {p.messages}
  <2> DEFINE at == [i \in 0 .. k |-> f + end[i]]
  <2>1. /\ end \in [0 .. k -> Nat] /\ end[0] = 0 /\ end[k] = Len(ms)
    BY <1>3 DEF Joins
  <2>2. at \in [0 .. k -> Nat] /\ at[0] = f
    BY <1>6, <2>1
  <2>3. ASSUME NEW i \in 1 .. k
        PROVE  /\ NfpMessageFits(p.messages[i]) /\ NfpMessageSize(p.messages[i]) \in Word
               /\ at[i] = at[i - 1] + NfpMessageSize(p.messages[i])
               /\ At(b, at[i - 1], NfpMessageBytes(p.messages[i]))
    <3>1. /\ NfpMessageSize(p.messages[i]) \in Word
          /\ end[i] = end[i - 1] + NfpMessageSize(p.messages[i])
          /\ At(ms, end[i - 1], NfpMessageBytes(p.messages[i]))
      BY <1>3 DEF Joins
    <3>2. NfpMessageFits(p.messages[i])
      BY <1>1 DEF MessagesFit, k
    <3>3. end[i - 1] \in Nat /\ at[i - 1] = f + end[i - 1] /\ at[i] = f + end[i]
      BY <1>6, <2>1
    <3>4. NfpMessageBytes(p.messages[i]) \in Bytes /\ NfpMessageSize(p.messages[i]) \in Nat
      BY <3>1, <3>2, MessageIsWritten, WordIs
    <3>5. At(b, f + end[i - 1], NfpMessageBytes(p.messages[i]))
      BY <1>2, <1>11, <3>1, <3>3, <3>4, AtTransitive DEF Bytes
    <3>6. at[i] = at[i - 1] + NfpMessageSize(p.messages[i])
      <4> HIDE DEF at
      <4> QED BY <3>1, <3>3, <3>4
    <3> HIDE DEF at
    <3> QED
      BY <3>1, <3>2, <3>3, <3>5, <3>6
  <2>4. at[k] = Len(b)
    <3>1. at[k] = f + l
      BY <1>2, <1>6, <2>1
    <3> HIDE DEF at
    <3> QED BY <1>1, <1>2, <1>6, <1>9, <1>10, <3>1
  <2> HIDE DEF at
  <2>5. Follow(b, f, k, p.messages, at)
    BY <2>2, <2>3 DEF Follow
  <2>6. NfpMessagesAt(b, f, at[k]) = {p.messages}
    <3>1. Following(b, f, k, p.messages, at)
      BY <1>1, <1>2, <2>5 DEF Following, k
    <3> QED
      BY <3>1, MessagesAreRead
  <2> QED
    BY <2>4, <2>6
<1> DEFINE seqnumAt == TLSize + TlvSize(b, TLSize)
           first == seqnumAt + TLSize + 2
           whole == /\ TypeAt(b, 0) = T_MSG
                    /\ TypeAt(b, seqnumAt) = T_MSG_SEQNUM
                    /\ TlvSize(b, seqnumAt) = TLSize + 2
<1>16. NfpPayloadOf(b) =
         IF whole
         THEN {[router |-> router, seqnum |-> ReadU16(b, seqnumAt + TLSize), messages |-> messages] :
               router \in NameAt(b, TLSize), messages \in NfpMessagesAt(b, first, TlvSize(b, 0))}
         ELSE {}
  BY DEF NfpPayloadOf
<1>17. seqnumAt = s /\ first = f
  <2>1. seqnumAt = s
    BY <1>9, <1>13, NfpTypesDiffer
  <2> HIDE DEF seqnumAt
  <2> QED BY <1>10, <2>1, NfpTypesDiffer
<1> HIDE DEF seqnumAt, first
<1>18. whole
  BY <1>7, <1>14, <1>17, NfpTypesDiffer
<1> HIDE DEF whole
<1> DEFINE Made(c, A, B) == {[router |-> router, seqnum |-> c, messages |-> messages] :
                             router \in A, messages \in B}
<1>19. NfpPayloadOf(b) = Made(ReadU16(b, seqnumAt + TLSize), NameAt(b, TLSize), NfpMessagesAt(b, first, TlvSize(b, 0)))
  BY <1>16, <1>18
<1>20. Made(p.seqnum, {p.router}, {p.messages}) = {p}
  <2>1. Made(p.seqnum, {p.router}, {p.messages}) =
          {[router |-> p.router, seqnum |-> p.seqnum, messages |-> p.messages]}
    OBVIOUS
  <2> QED
    BY <1>1, <2>1
<1> HIDE DEF Made
<1>21. NfpPayloadOf(b) = {p}
  BY <1>7, <1>13, <1>14, <1>15, <1>17, <1>19, <1>20, NfpTypesDiffer
<1> QED
  BY <1>21 DEF b

-----------------------------------------------------------------------------
(* Payloads are filled *)

\* The sum of a sequence with one more number.
LEMMA TotalWith ==
  ASSUME NEW n \in Nat, NEW s \in [1 .. n -> Nat], NEW r \in [1 .. n + 1 -> Nat],
         \A i \in 1 .. n : r[i] = s[i]
  PROVE  Total(s) \in Nat /\ Total(r) = Total(s) + r[n + 1]
<1>1. s \in Seq(Nat) /\ Len(s) = n /\ r \in Seq(Nat) /\ Len(r) = n + 1
  <2>1. s \in Seq(Nat) /\ Len(s) = n
    BY FunctionIsSequence
  <2>2. n + 1 \in Nat
    OBVIOUS
  <2>3. r \in Seq(Nat) /\ Len(r) = n + 1
    BY <2>2, FunctionIsSequence
  <2> QED
    BY <2>1, <2>3
<1>2. PICK t \in [0 .. n -> Nat] : t[0] = 0 /\ (\A k \in 1 .. n : t[k] = t[k - 1] + s[k]) /\ Total(s) = t[n]
  BY <1>1, TotalIs
<1>3. PICK u \in [0 .. n + 1 -> Nat] :
        u[0] = 0 /\ (\A k \in 1 .. n + 1 : u[k] = u[k - 1] + r[k]) /\ Total(r) = u[n + 1]
  BY <1>1, TotalIs
<1> DEFINE v == [k \in 0 .. n |-> u[k]]
<1>4. v \in [0 .. n -> Nat] /\ v[0] = 0
  BY <1>3
<1>5. ASSUME NEW k \in 1 .. n PROVE v[k] = v[k - 1] + s[k]
  <2>1. k \in 1 .. n + 1 /\ k \in 0 .. n /\ k - 1 \in 0 .. n
    OBVIOUS
  <2>2. u[k] = u[k - 1] + r[k] /\ r[k] = s[k]
    BY <1>3, <2>1
  <2> QED
    BY <2>1, <2>2
<1>6. v[n] = u[n] /\ n \in 0 .. n
  OBVIOUS
<1> HIDE DEF v
<1>7. t[n] = v[n]
  BY <1>2, <1>4, <1>5, <1>6, SameSums
<1>8. u[n + 1] = u[n] + r[n + 1]
  <2>1. n + 1 \in 1 .. n + 1 /\ n + 1 - 1 = n
    OBVIOUS
  <2> QED
    BY <1>3, <2>1
<1> QED
  BY <1>2, <1>3, <1>6, <1>7, <1>8

\* No message, and one message more.
LEMMA MessagesAppend ==
  ASSUME NEW S, NEW messages \in Seq(S), MessagesFit(messages), NEW m \in S, NfpMessageFits(m)
  PROVE  /\ Append(messages, m) \in Seq(S) /\ MessagesFit(Append(messages, m))
         /\ MessagesSize(Append(messages, m)) = MessagesSize(messages) + NfpMessageSize(m)
<1> DEFINE n == Len(messages)
           more == Append(messages, m)
           s == [i \in 1 .. n |-> NfpMessageSize(messages[i])]
           r == [i \in 1 .. Len(more) |-> NfpMessageSize(more[i])]
<1>1. /\ n \in Nat /\ more \in Seq(S) /\ Len(more) = n + 1 /\ more[n + 1] = m
      /\ \A i \in 1 .. n : more[i] = messages[i]
  BY AppendProperties
<1>2. \A i \in 1 .. n + 1 : i \in 1 .. n \/ i = n + 1
  BY <1>1
<1> HIDE DEF more
<1>3. MessagesFit(more)
  BY <1>1, <1>2 DEF MessagesFit
<1>4. s \in [1 .. n -> Nat]
  BY MessageFields DEF MessagesFit
<1>5. r \in [1 .. n + 1 -> Nat]
  BY <1>1, <1>3, MessageFields DEF MessagesFit
<1>6. r[n + 1] = NfpMessageSize(m) /\ \A i \in 1 .. n : r[i] = s[i]
  BY <1>1, <1>2
<1>7. MessagesSize(messages) = Total(s) /\ MessagesSize(more) = Total(r)
  BY DEF MessagesSize, SumOver
<1> HIDE DEF n, s, r
<1>8. Total(r) = Total(s) + r[n + 1]
  BY <1>1, <1>4, <1>5, <1>6, TotalWith
<1> QED
  BY <1>1, <1>3, <1>6, <1>7, <1>8 DEF more

LEMMA NoMessages ==
  /\ <<>> \in Seq(NfpAdvertise \cup NfpWithdraw) /\ MessagesFit(<<>>) /\ MessagesSize(<<>>) = 0
<1>1. <<>> \in Seq(NfpAdvertise \cup NfpWithdraw) /\ Len(<<>>) = 0
  BY EmptySeq
<1>2. MessagesFit(<<>>)
  BY <1>1 DEF MessagesFit
<1> DEFINE s == [i \in 1 .. Len(<<>>) |-> NfpMessageSize(<<>>[i])]
<1>3. MessagesSize(<<>>) = Total(s)
  BY DEF MessagesSize, SumOver
<1>4. s \in [1 .. 0 -> Nat]
  BY <1>1
<1> HIDE DEF s
<1>5. s \in Seq(Nat) /\ Len(s) = 0
  BY <1>4, FunctionIsSequence
<1>6. Total(s) = 0
  <2>1. PICK t \in [0 .. Len(s) -> Nat] : t[0] = 0 /\ Total(s) = t[Len(s)]
    BY <1>5, TotalIs
  <2> QED
    BY <1>5, <2>1
<1> QED
  BY <1>1, <1>2, <1>3, <1>6

\* A payload of a router that is no longer than the capacity and some limit.
Fills(p, router, capacity, limit) ==
  /\ p \in NfpPayload /\ p.router = router /\ MessagesFit(p.messages)
  /\ NfpPayloadSize(p) \in Nat /\ NfpPayloadSize(p) <= capacity /\ NfpPayloadSize(p) <= limit

LEMMA FilledSize ==
  ASSUME NEW p \in NfpPayload, MessagesFit(p.messages)
  PROVE  /\ p.messages \in Seq(NfpAdvertise \cup NfpWithdraw) /\ p.router \in Name /\ p.seqnum \in Word
         /\ MessagesSize(p.messages) \in Nat /\ FixedOverhead(p.router) \in Nat
         /\ NfpPayloadSize(p) = FixedOverhead(p.router) + MessagesSize(p.messages)
         /\ NfpPayloadSize(p) \in Nat
<1>1. p.messages \in Seq(NfpAdvertise \cup NfpWithdraw) /\ p.router \in Name /\ p.seqnum \in Word
  BY DEF NfpPayload
<1>2. MessagesSize(p.messages) \in Nat /\ NameSize(p.router) \in Nat
  BY <1>1, MessagesAre, NameIs
<1>3. FixedOverhead(p.router) \in Nat
  BY <1>2 DEF FixedOverhead, TLSize
<1>4. NfpPayloadSize(p) = FixedOverhead(p.router) + MessagesSize(p.messages)
  BY DEF NfpPayloadSize, MessagesSize
<1> QED
  BY <1>1, <1>2, <1>3, <1>4

\* A new payload.
LEMMA PayloadCreated ==
  ASSUME NEW router \in Name, NEW n \in Nat
  PROVE  /\ CreatePayload(router, n) \in NfpPayload /\ CreatePayload(router, n).router = router
         /\ CreatePayload(router, n).messages = <<>> /\ CreatePayload(router, n).seqnum = n % 65536
         /\ MessagesFit(CreatePayload(router, n).messages)
         /\ NfpPayloadSize(CreatePayload(router, n)) = FixedOverhead(router)
<1> DEFINE p == CreatePayload(router, n)
<1>1. p = [router |-> router, seqnum |-> n % 65536, messages |-> <<>>]
  BY DEF CreatePayload
<1>2. n % 65536 \in Word
  <2>1. n % 65536 \in Nat /\ n % 65536 <= 65535
    OBVIOUS
  <2> QED
    BY <2>1, WordIs
<1>3. p \in NfpPayload /\ p.router = router /\ p.messages = <<>> /\ p.seqnum = n % 65536
  BY <1>1, <1>2, NoMessages DEF NfpPayload
<1> HIDE DEF p
<1>4. NfpPayloadSize(p) = FixedOverhead(router)
  BY <1>3, NoMessages, FilledSize
<1> QED
  BY <1>3, <1>4, NoMessages DEF p

\* A payload with other messages.
LEMMA PayloadWith ==
  ASSUME NEW p \in NfpPayload, NEW messages \in Seq(NfpAdvertise \cup NfpWithdraw), MessagesFit(messages)
  PROVE  LET q == [p EXCEPT !.messages = messages] IN
         /\ q \in NfpPayload /\ q.router = p.router /\ q.seqnum = p.seqnum /\ q.messages = messages
         /\ NfpPayloadSize(q) \in Nat
         /\ NfpPayloadSize(q) = FixedOverhead(p.router) + MessagesSize(messages)
<1> DEFINE q == [p EXCEPT !.messages = messages]
<1>1. q \in NfpPayload /\ q.router = p.router /\ q.seqnum = p.seqnum /\ q.messages = messages
  BY DEF NfpPayload
<1> HIDE DEF q
<1>2. NfpPayloadSize(q) \in Nat /\ NfpPayloadSize(q) = FixedOverhead(p.router) + MessagesSize(messages)
  BY <1>1, FilledSize
<1> QED
  BY <1>1, <1>2 DEF q

AllFill(full, router, capacity, limit) ==
  /\ full \in Seq(NfpPayload) /\ full # <<>>
  /\ \A i \in 1 .. Len(full) : Fills(full[i], router, capacity, limit)

\* A message is in the last payload, behind the others or in a new one.
Begins(p, last, m) == p.seqnum = (last.seqnum + 1) % 65536 /\ p.messages = Append(<<>>, m)
Follows(p, last, m) == p.seqnum = last.seqnum /\ p.messages = Append(last.messages, m)
\* A message that fits in an empty payload.
FitsAlone(m, router, capacity) ==
  /\ m \in NfpAdvertise \cup NfpWithdraw /\ NfpMessageFits(m)
  /\ FixedOverhead(router) + NfpMessageSize(m) <= capacity

LEMMA LastIs ==
  ASSUME NEW S, NEW full \in Seq(S), full # <<>>
  PROVE  Len(full) \in Nat \ {0} /\ Last(full) = full[Len(full)] /\ Last(full) \in S
<1>1. Len(full) \in Nat \ {0}
  BY EmptySeq
<1>2. Len(full) \in 1 .. Len(full)
  BY <1>1
<1> QED
  BY <1>1, <1>2, ElementOfSeq DEF Last

LEMMA MessageAppended ==
  ASSUME NEW router \in Name, NEW capacity \in Int, NEW limit \in Nat, FixedOverhead(router) <= limit,
         NEW full, AllFill(full, router, capacity, limit), NEW m, FitsAlone(m, router, capacity)
  PROVE  \E p : /\ Fills(p, router, capacity, limit + NfpMessageSize(m))
                /\ \/ /\ AppendMessage(full, m, capacity) = Append(full, p)
                      /\ Begins(p, Last(full), m)
                   \/ /\ AppendMessage(full, m, capacity) = [full EXCEPT ![Len(full)] = p]
                      /\ Follows(p, Last(full), m)
<1> DEFINE last == Last(full)
           size == NfpMessageSize(m)
           S == NfpAdvertise \cup NfpWithdraw
<1>1. full \in Seq(NfpPayload) /\ full # <<>> /\ \A i \in 1 .. Len(full) : Fills(full[i], router, capacity, limit)
  BY DEF AllFill
<1>2. Len(full) \in Nat \ {0} /\ last = full[Len(full)] /\ last \in NfpPayload
  BY <1>1, LastIs
<1>3. Fills(last, router, capacity, limit)
  BY <1>1, <1>2
<1>4. /\ last.router = router /\ MessagesFit(last.messages) /\ NfpPayloadSize(last) \in Nat
      /\ NfpPayloadSize(last) <= capacity /\ NfpPayloadSize(last) <= limit
  BY <1>3 DEF Fills
<1>5. /\ last.messages \in Seq(S) /\ last.seqnum \in Word /\ MessagesSize(last.messages) \in Nat
      /\ NfpPayloadSize(last) = FixedOverhead(router) + MessagesSize(last.messages)
      /\ FixedOverhead(router) \in Nat
  BY <1>2, <1>4, FilledSize
<1>6. m \in S /\ NfpMessageFits(m) /\ FixedOverhead(router) + size <= capacity
  BY DEF FitsAlone
<1>7. size \in Nat
  BY <1>6, MessageFields
<1>8. CASE size > Remaining(last, capacity)
  <2> DEFINE next == CreatePayload(router, last.seqnum + 1)
             one == Append(<<>>, m)
             p == [next EXCEPT !.messages = one]
  <2>1. last.seqnum + 1 \in Nat
    BY <1>5, WordIs
  <2>2. next \in NfpPayload /\ next.router = router /\ next.seqnum = (last.seqnum + 1) % 65536
    BY <2>1, PayloadCreated
  <2>3. /\ one \in Seq(S) /\ MessagesFit(one) /\ MessagesSize(one) = size
    <3>1. /\ one \in Seq(S) /\ MessagesFit(one) /\ MessagesSize(one) = MessagesSize(<<>>) + size
      BY <1>6, NoMessages, MessagesAppend
    <3> HIDE DEF size
    <3> QED
      BY <1>7, <3>1, NoMessages
  <2>4. one = <<m>>
    OBVIOUS
  <2>5. AppendMessage(full, m, capacity) = Append(full, p)
    BY <1>4, <1>8, <2>4 DEF AppendMessage
  <2> HIDE DEF next, one
  <2>6. /\ p \in NfpPayload /\ p.router = router /\ p.seqnum = next.seqnum /\ p.messages = one
        /\ NfpPayloadSize(p) \in Nat
        /\ NfpPayloadSize(p) = FixedOverhead(router) + MessagesSize(one)
    BY <2>2, <2>3, PayloadWith
  <2> HIDE DEF p, last, size
  <2>7. NfpPayloadSize(p) <= capacity /\ NfpPayloadSize(p) <= limit + size
    BY <1>5, <1>6, <1>7, <2>3, <2>6
  <2>8. Fills(p, router, capacity, limit + size)
    BY <2>3, <2>6, <2>7 DEF Fills
  <2>9. Begins(p, last, m)
    BY <2>2, <2>6 DEF Begins, one
  <2> QED
    BY <2>5, <2>8, <2>9 DEF last, size
<1>9. CASE ~(size > Remaining(last, capacity))
  <2> DEFINE more == Append(last.messages, m)
             p == [last EXCEPT !.messages = more]
  <2>1. more \in Seq(S) /\ MessagesFit(more) /\ MessagesSize(more) = MessagesSize(last.messages) + size
    BY <1>4, <1>5, <1>6, MessagesAppend
  <2>2. AppendMessage(full, m, capacity) = [full EXCEPT ![Len(full)] = p]
    <3>1. AppendMessage(full, m, capacity) = [full EXCEPT ![Len(full)].messages = Append(@, m)]
      BY <1>9 DEF AppendMessage
    <3> QED
      BY <1>2, <3>1
  <2> HIDE DEF more
  <2>3. /\ p \in NfpPayload /\ p.router = router /\ p.seqnum = last.seqnum /\ p.messages = more
        /\ NfpPayloadSize(p) \in Nat
        /\ NfpPayloadSize(p) = FixedOverhead(router) + MessagesSize(more)
    BY <1>2, <1>4, <2>1, PayloadWith
  <2>4. Remaining(last, capacity) = capacity - NfpPayloadSize(last)
    BY DEF Remaining
  <2> HIDE DEF p, last, size
  <2>5. NfpPayloadSize(p) <= capacity /\ NfpPayloadSize(p) <= limit + size
    BY <1>4, <1>5, <1>7, <1>9, <2>1, <2>3, <2>4
  <2>6. Fills(p, router, capacity, limit + size)
    BY <2>1, <2>3, <2>5 DEF Fills
  <2>7. Follows(p, last, m)
    BY <2>3 DEF Follows, more
  <2> QED
    BY <2>2, <2>6, <2>7 DEF last, size
<1> QED
  BY <1>8, <1>9

\* The payloads still fill.
LEMMA AllFillMore ==
  ASSUME NEW router, NEW capacity, NEW limit \in Nat, NEW more \in Nat, NEW full, AllFill(full, router, capacity, limit),
         NEW p, Fills(p, router, capacity, limit + more)
  PROVE  /\ AllFill(Append(full, p), router, capacity, limit + more)
         /\ AllFill([full EXCEPT ![Len(full)] = p], router, capacity, limit + more)
<1>1. full \in Seq(NfpPayload) /\ full # <<>> /\ \A i \in 1 .. Len(full) : Fills(full[i], router, capacity, limit)
  BY DEF AllFill
<1>2. p \in NfpPayload
  BY DEF Fills
<1>3. Len(full) \in Nat \ {0}
  BY <1>1, LastIs
<1>4. \A i \in 1 .. Len(full) : Fills(full[i], router, capacity, limit + more)
  <2>1. ASSUME NEW q, Fills(q, router, capacity, limit) PROVE Fills(q, router, capacity, limit + more)
    BY <2>1 DEF Fills
  <2> QED
    BY <1>1, <2>1
<1>5. AllFill(Append(full, p), router, capacity, limit + more)
  <2>1. /\ Append(full, p) \in Seq(NfpPayload) /\ Len(Append(full, p)) = Len(full) + 1
        /\ Append(full, p)[Len(full) + 1] = p /\ \A i \in 1 .. Len(full) : Append(full, p)[i] = full[i]
    BY <1>1, <1>2, AppendProperties
  <2>2. \A i \in 1 .. Len(full) + 1 : i \in 1 .. Len(full) \/ i = Len(full) + 1
    BY <1>3
  <2>3. Append(full, p) # <<>>
    BY <1>3, <2>1, EmptySeq
  <2> QED
    BY <1>4, <2>1, <2>2, <2>3 DEF AllFill
<1>6. AllFill([full EXCEPT ![Len(full)] = p], router, capacity, limit + more)
  <2> DEFINE e == [full EXCEPT ![Len(full)] = p]
  <2>1. /\ e \in Seq(NfpPayload) /\ Len(e) = Len(full)
        /\ \A i \in 1 .. Len(full) : e[i] = IF i = Len(full) THEN p ELSE full[i]
    BY <1>1, <1>2, <1>3, ExceptSeq
  <2> HIDE DEF e
  <2>2. e # <<>>
    BY <1>3, <2>1, EmptySeq
  <2>3. AllFill(e, router, capacity, limit + more)
    BY <1>4, <2>1, <2>2 DEF AllFill
  <2> QED
    BY <2>3 DEF e
<1> QED
  BY <1>5, <1>6

LEMMA AppendFills ==
  ASSUME NEW router \in Name, NEW capacity \in Int, NEW limit \in Nat, FixedOverhead(router) <= limit,
         NEW full, AllFill(full, router, capacity, limit), NEW m, FitsAlone(m, router, capacity),
         NEW more \in Nat, more = NfpMessageSize(m)
  PROVE  AllFill(AppendMessage(full, m, capacity), router, capacity, limit + more)
<1>1. PICK p : /\ Fills(p, router, capacity, limit + more)
               /\ \/ AppendMessage(full, m, capacity) = Append(full, p)
                  \/ AppendMessage(full, m, capacity) = [full EXCEPT ![Len(full)] = p]
  BY MessageAppended
<1>2. /\ AllFill(Append(full, p), router, capacity, limit + more)
      /\ AllFill([full EXCEPT ![Len(full)] = p], router, capacity, limit + more)
  BY <1>1, AllFillMore
<1>3. CASE AppendMessage(full, m, capacity) = Append(full, p)
  BY <1>2, <1>3
<1>4. CASE AppendMessage(full, m, capacity) = [full EXCEPT ![Len(full)] = p]
  BY <1>2, <1>4
<1> QED
  BY <1>1, <1>3, <1>4

\* The payloads after each message.
Filling(c, messages, router, n, capacity) ==
  /\ c[0] = <<CreatePayload(router, n)>>
  /\ \A k \in 1 .. Len(messages) : c[k] = AppendMessage(c[k - 1], messages[k], capacity)
Fillable(messages, router, n, capacity) ==
  /\ router \in Name /\ n \in Nat /\ capacity \in Int /\ FixedOverhead(router) <= capacity
  /\ messages \in Seq(NfpAdvertise \cup NfpWithdraw)
  /\ \A k \in 1 .. Len(messages) : FitsAlone(messages[k], router, capacity)

LEMMA FirstPayload ==
  ASSUME NEW messages, NEW router, NEW n, NEW capacity, Fillable(messages, router, n, capacity)
  PROVE  /\ FixedOverhead(router) \in Nat
         /\ AllFill(<<CreatePayload(router, n)>>, router, capacity, FixedOverhead(router))
<1> DEFINE p == CreatePayload(router, n)
<1>1. router \in Name /\ n \in Nat /\ capacity \in Int /\ FixedOverhead(router) <= capacity
  BY DEF Fillable
<1>2. /\ p \in NfpPayload /\ p.router = router /\ MessagesFit(p.messages) /\ NfpPayloadSize(p) = FixedOverhead(router)
  BY <1>1, PayloadCreated
<1> HIDE DEF p
<1>3. FixedOverhead(router) \in Nat
  BY <1>2, FilledSize
<1>4. Fills(p, router, capacity, FixedOverhead(router))
  BY <1>1, <1>2, <1>3 DEF Fills
<1>5. <<p>> \in Seq(NfpPayload) /\ Len(<<p>>) = 1 /\ <<p>>[1] = p /\ <<p>> # <<>>
  BY <1>2
<1>6. AllFill(<<p>>, router, capacity, FixedOverhead(router))
  BY <1>4, <1>5 DEF AllFill
<1> QED
  BY <1>3, <1>6 DEF p

LEMMA PayloadsLoop ==
  ASSUME NEW messages, NEW router, NEW n, NEW capacity, Fillable(messages, router, n, capacity)
  PROVE  \E c : /\ Filling(c, messages, router, n, capacity)
                /\ PayloadsOf(messages, router, n, capacity) = c[Len(messages)]
<1> DEFINE N == Len(messages)
           z == <<CreatePayload(router, n)>>
           V == {full \in Seq(NfpPayload) :
                  \E limit \in Nat : FixedOverhead(router) <= limit /\ AllFill(full, router, capacity, limit)}
           step == [vk \in V \X (1 .. N) |-> AppendMessage(vk[1], messages[vk[2]], capacity)]
           Is(f) == f = [k \in 0 .. N |-> IF k = 0 THEN z ELSE AppendMessage(f[k - 1], messages[k], capacity)]
           c == CHOOSE f : Is(f)
<1>1. /\ router \in Name /\ capacity \in Int /\ FixedOverhead(router) <= capacity
      /\ messages \in Seq(NfpAdvertise \cup NfpWithdraw)
      /\ \A k \in 1 .. N : FitsAlone(messages[k], router, capacity)
  BY DEF Fillable
<1>2. N \in Nat
  BY <1>1, ElementOfSeq
<1>3. z \in V
  <2>1. FixedOverhead(router) \in Nat /\ AllFill(z, router, capacity, FixedOverhead(router))
    BY FirstPayload
  <2>2. z \in Seq(NfpPayload)
    BY <2>1 DEF AllFill
  <2> HIDE DEF z
  <2> QED
    BY <2>1, <2>2
<1>4. ASSUME NEW full \in V, NEW k \in 1 .. N PROVE AppendMessage(full, messages[k], capacity) \in V
  <2>1. PICK limit \in Nat : FixedOverhead(router) <= limit /\ AllFill(full, router, capacity, limit)
    OBVIOUS
  <2>2. FitsAlone(messages[k], router, capacity)
    BY <1>1
  <2>3. NfpMessageSize(messages[k]) \in Nat
    BY <2>2, MessageFields DEF FitsAlone
  <2>4. PICK more \in Nat : more = NfpMessageSize(messages[k])
    BY <2>3
  <2>5. AllFill(AppendMessage(full, messages[k], capacity), router, capacity, limit + more)
    BY <1>1, <2>1, <2>2, <2>4, AppendFills
  <2>6. limit + more \in Nat /\ FixedOverhead(router) <= limit + more
    <3>1. FixedOverhead(router) \in Nat
      BY FirstPayload
    <3> QED
      BY <2>1, <3>1
  <2> QED
    BY <2>5, <2>6 DEF AllFill
<1> HIDE DEF V, z
<1>5. step \in [V \X (1 .. N) -> V]
  BY <1>4
<1>6. PICK f : Makes(f, V, z, N, step)
  <2> HIDE DEF step, N
  <2> QED BY <1>2, <1>3, <1>5, Loop
<1>7. f \in [0 .. N -> V] /\ f[0] = z /\ \A k \in 1 .. N : f[k] = AppendMessage(f[k - 1], messages[k], capacity)
  <2>1. f \in [0 .. N -> V] /\ f[0] = z /\ \A k \in 1 .. N : f[k] = step[<<f[k - 1], k>>]
    <3> HIDE DEF step
    <3> QED
      BY <1>6 DEF Makes
  <2>2. ASSUME NEW k \in 1 .. N PROVE f[k] = AppendMessage(f[k - 1], messages[k], capacity)
    <3>1. k - 1 \in 0 .. N
      BY <1>2
    <3>2. <<f[k - 1], k>> \in V \X (1 .. N)
      BY <2>1, <3>1
    <3>3. step[<<f[k - 1], k>>] = AppendMessage(f[k - 1], messages[k], capacity)
      BY <3>2
    <3> QED
      BY <2>1, <3>3
  <2> QED
    BY <2>1, <2>2
<1>8. Is(f)
  BY <1>2, <1>7
<1>9. Is(c)
  <2> HIDE DEF Is
  <2> QED BY <1>8
<1>10. PayloadsOf(messages, router, n, capacity) = c[N]
  BY DEF PayloadsOf, z
<1> HIDE DEF c
<1>11. Filling(c, messages, router, n, capacity)
  BY <1>2, <1>9 DEF Filling, z
<1> QED
  BY <1>10, <1>11

\* Every payload is within the capacity, and none is longer than all messages together.
LEMMA PayloadsFill ==
  ASSUME NEW messages, NEW router, NEW n, NEW capacity, Fillable(messages, router, n, capacity)
  PROVE  /\ MessagesSize(messages) \in Nat /\ FixedOverhead(router) \in Nat
         /\ AllFill(PayloadsOf(messages, router, n, capacity), router, capacity,
                    FixedOverhead(router) + MessagesSize(messages))
<1> DEFINE N == Len(messages)
           o == FixedOverhead(router)
           size == [i \in 1 .. N |-> NfpMessageSize(messages[i])]
<1>1. /\ router \in Name /\ capacity \in Int
      /\ messages \in Seq(NfpAdvertise \cup NfpWithdraw)
      /\ \A k \in 1 .. N : FitsAlone(messages[k], router, capacity)
  BY DEF Fillable
<1>2. N \in Nat
  BY <1>1, ElementOfSeq
<1>3. PICK c : /\ Filling(c, messages, router, n, capacity)
               /\ PayloadsOf(messages, router, n, capacity) = c[N]
  BY PayloadsLoop
<1>4. size \in [1 .. N -> Nat]
  <2>1. \A k \in 1 .. N : NfpMessageSize(messages[k]) \in Nat
    BY <1>1, MessageFields DEF FitsAlone
  <2> QED
    BY <2>1
<1>5. MessagesSize(messages) = Total(size)
  BY DEF MessagesSize, SumOver
<1>6. \A k \in 1 .. N : size[k] = NfpMessageSize(messages[k])
  OBVIOUS
<1>7. o \in Nat /\ AllFill(c[0], router, capacity, o)
  BY <1>3, FirstPayload DEF Filling
<1> HIDE DEF N, o, size
<1>8. PICK t \in [0 .. N -> Nat] :
        t[0] = 0 /\ (\A k \in 1 .. N : t[k] = t[k - 1] + size[k]) /\ Total(size) = t[N]
  <2>1. size \in Seq(Nat) /\ Len(size) = N
    BY <1>2, <1>4, FunctionIsSequence
  <2> QED
    BY <2>1, TotalIs
<1> DEFINE T == {k \in 0 .. N : AllFill(c[k], router, capacity, o + t[k])}
<1>9. 0 \in T
  BY <1>2, <1>7, <1>8
<1>10. ASSUME NEW k \in 1 .. N, k - 1 \in T PROVE k \in T
  <2>1. k - 1 \in 0 .. N /\ k \in 0 .. N /\ t[k - 1] \in Nat /\ size[k] \in Nat /\ t[k] = t[k - 1] + size[k]
    BY <1>2, <1>4, <1>8
  <2>2. PICK limit \in Nat, more \in Nat : limit = o + t[k - 1] /\ more = size[k] /\ o + t[k] = limit + more /\ o <= limit
    BY <1>7, <2>1
  <2>3. AllFill(c[k - 1], router, capacity, limit) /\ FixedOverhead(router) <= limit
    BY <1>10, <2>2 DEF o
  <2>4. FitsAlone(messages[k], router, capacity) /\ more = NfpMessageSize(messages[k])
    BY <1>1, <1>6, <2>2 DEF N
  <2>5. c[k] = AppendMessage(c[k - 1], messages[k], capacity)
    BY <1>3 DEF Filling, N
  <2>6. AllFill(c[k], router, capacity, limit + more)
    <3>1. PICK full : full = c[k - 1]
      OBVIOUS
    <3>2. AllFill(AppendMessage(full, messages[k], capacity), router, capacity, limit + more)
      BY <1>1, <2>3, <2>4, <3>1, AppendFills
    <3> QED
      BY <2>5, <3>1, <3>2
  <2> QED
    BY <2>1, <2>2, <2>6
<1>11. \A k \in 0 .. N : k \in T
  <2> HIDE DEF T
  <2> QED BY <1>2, <1>9, <1>10, Induction
<1>12. AllFill(c[N], router, capacity, o + t[N]) /\ t[N] \in Nat
  BY <1>2, <1>8, <1>11
<1> QED
  BY <1>3, <1>5, <1>7, <1>8, <1>12 DEF o

\* The payloads that are sent are among those that were filled.
LEMMA SentAre ==
  ASSUME NEW S, NEW payloads \in Seq(S), payloads # <<>>
  PROVE  /\ Sent(payloads) \in Seq(S) /\ Len(Sent(payloads)) \in Nat /\ Len(Sent(payloads)) <= Len(payloads)
         /\ \A i \in 1 .. Len(Sent(payloads)) : i \in 1 .. Len(payloads) /\ Sent(payloads)[i] = payloads[i]
<1>1. Len(payloads) \in Nat \ {0} /\ \A i \in 1 .. Len(payloads) : payloads[i] \in S
  BY LastIs, ElementOfSeq
<1>2. CASE Last(payloads).messages = <<>>
  <2>1. Sent(payloads) = SubSeq(payloads, 1, Len(payloads) - 1)
    BY <1>2 DEF Sent, Front
  <2>2. /\ SubSeq(payloads, 1, Len(payloads) - 1) \in Seq(S)
        /\ Len(SubSeq(payloads, 1, Len(payloads) - 1)) = Len(payloads) - 1
        /\ \A i \in 1 .. Len(payloads) - 1 : SubSeq(payloads, 1, Len(payloads) - 1)[i] = payloads[i]
    <3>1. PICK l \in Nat : l = Len(payloads) - 1
      BY <1>1
    <3>2. SubSeq(payloads, 1, l) \in Seq(S) /\ Len(SubSeq(payloads, 1, l)) = l
          /\ \A i \in 1 .. l : SubSeq(payloads, 1, l)[i] = payloads[i]
      BY <1>1, <3>1, SubSeqProperties
    <3> QED
      BY <3>1, <3>2
  <2> QED
    BY <1>1, <2>1, <2>2
<1>3. CASE ~(Last(payloads).messages = <<>>)
  BY <1>1, <1>3 DEF Sent
<1> QED
  BY <1>2, <1>3
-----------------------------------------------------------------------------
(* Payloads hold the messages in their order *)

\* One sequence more is joined behind the others.
LEMMA FlattenMore ==
  ASSUME NEW S, NEW n \in Nat, NEW ss \in [1 .. n -> Seq(S)], NEW rr \in [1 .. n + 1 -> Seq(S)],
         \A i \in 1 .. n : rr[i] = ss[i]
  PROVE  FlattenSeq(ss) \in Seq(S) /\ FlattenSeq(rr) = FlattenSeq(ss) \o rr[n + 1]
<1>1. ss \in Seq(Seq(S)) /\ Len(ss) = n
  BY FunctionIsSequence
<1>0. PICK m \in Nat : m = n + 1
  OBVIOUS
<1>2. rr \in Seq(Seq(S)) /\ Len(rr) = m
  <2>1. rr \in [1 .. m -> Seq(S)]
    BY <1>0
  <2> QED
    BY <2>1, FunctionIsSequence
<1>3. PICK j \in [0 .. n -> Seq(S)] :
        j[0] = <<>> /\ (\A k \in 1 .. n : j[k] = j[k - 1] \o ss[k]) /\ FlattenSeq(ss) = j[n]
  BY <1>1, FlattenIs
<1>4. PICK g \in [0 .. m -> Seq(S)] :
        g[0] = <<>> /\ (\A k \in 1 .. m : g[k] = g[k - 1] \o rr[k]) /\ FlattenSeq(rr) = g[m]
  BY <1>2, FlattenIs
<1> DEFINE T == {k \in 0 .. n : g[k] = j[k]}
<1>5. 0 \in T
  BY <1>3, <1>4
<1>6. ASSUME NEW k \in 1 .. n, k - 1 \in T PROVE k \in T
  <2>1. g[k - 1] = j[k - 1] /\ k \in 1 .. m /\ k \in 0 .. n /\ rr[k] = ss[k]
    BY <1>0, <1>6
  <2>2. g[k] = g[k - 1] \o rr[k]
    BY <1>4, <2>1
  <2>3. j[k] = j[k - 1] \o ss[k]
    BY <1>3
  <2> QED
    BY <2>1, <2>2, <2>3
<1>7. \A k \in 0 .. n : k \in T
  <2> HIDE DEF T
  <2> QED BY <1>5, <1>6, Induction
<1>8. g[n] = j[n] /\ j[n] \in Seq(S)
  BY <1>7
<1>9. g[m] = g[n] \o rr[m]
  <2>1. m \in 1 .. m /\ m - 1 = n
    BY <1>0
  <2>2. g[m] = g[m - 1] \o rr[m]
    BY <1>4, <2>1
  <2> QED
    BY <2>1, <2>2
<1> QED
  BY <1>0, <1>3, <1>4, <1>8, <1>9

\* The messages of payloads.
MessagesIn(full) == FlattenSeq([i \in 1 .. Len(full) |-> full[i].messages])

LEMMA OnePayloadMore ==
  ASSUME NEW full \in Seq(NfpPayload), NEW p \in NfpPayload
  PROVE  /\ MessagesIn(full) \in Seq(NfpAdvertise \cup NfpWithdraw)
         /\ MessagesIn(Append(full, p)) = MessagesIn(full) \o p.messages
<1> DEFINE n == Len(full)
           S == NfpAdvertise \cup NfpWithdraw
           more == Append(full, p)
           ss == [i \in 1 .. n |-> full[i].messages]
           rr == [i \in 1 .. Len(more) |-> more[i].messages]
<1>1. /\ n \in Nat /\ more \in Seq(NfpPayload) /\ Len(more) = n + 1 /\ more[n + 1] = p
      /\ \A i \in 1 .. n : more[i] = full[i]
  BY AppendProperties
<1> HIDE DEF more
<1>2. \A q \in NfpPayload : q.messages \in Seq(S)
  BY DEF NfpPayload
<1> HIDE DEF S
<1>3. ss \in [1 .. n -> Seq(S)]
  BY <1>2
<1>4. rr \in [1 .. n + 1 -> Seq(S)]
  BY <1>1, <1>2
<1>5. rr[n + 1] = p.messages /\ \A i \in 1 .. n : rr[i] = ss[i]
  BY <1>1
<1>6. MessagesIn(full) = FlattenSeq(ss) /\ MessagesIn(more) = FlattenSeq(rr)
  BY DEF MessagesIn
<1> HIDE DEF n, ss, rr
<1>7. FlattenSeq(ss) \in Seq(S) /\ FlattenSeq(rr) = FlattenSeq(ss) \o rr[n + 1]
  BY <1>1, <1>3, <1>4, <1>5, FlattenMore
<1> QED
  BY <1>5, <1>6, <1>7 DEF more, S

LEMMA NoPayloads == MessagesIn(<<>>) = <<>>
<1>1. [i \in 1 .. Len(<<>>) |-> <<>>[i].messages] = <<>>
  <2>1. Len(<<>>) = 0
    OBVIOUS
  <2> DEFINE f == [i \in 1 .. Len(<<>>) |-> <<>>[i].messages]
  <2>2. f \in [1 .. 0 -> {}]
    BY <2>1
  <2> HIDE DEF f
  <2>3. f \in Seq({}) /\ Len(f) = 0
    BY <2>2, FunctionIsSequence
  <2>4. f = <<>>
    BY <2>3, EmptySeq
  <2> QED
    BY <2>4 DEF f
<1> QED
  BY <1>1 DEF MessagesIn, FlattenSeq

\* A sequence that is not empty is its front and its last member.
LEMMA FrontAndLast ==
  ASSUME NEW S, NEW full \in Seq(S), full # <<>>
  PROVE  \E front \in Seq(S) :
           /\ Len(front) = Len(full) - 1 /\ full = Append(front, full[Len(full)]) /\ front = Front(full)
           /\ \A p \in S : [full EXCEPT ![Len(full)] = p] = Append(front, p)
<1> DEFINE n == Len(full)
           front == SubSeq(full, 1, n - 1)
<1>1. n \in Nat \ {0} /\ n \in 1 .. n /\ \A i \in 1 .. n : full[i] \in S
  BY LastIs, ElementOfSeq
<1>2. front \in Seq(S) /\ Len(front) = n - 1 /\ \A i \in 1 .. n - 1 : front[i] = full[i]
  <2>1. PICK l \in Nat : l = n - 1
    BY <1>1
  <2>2. SubSeq(full, 1, l) \in Seq(S) /\ Len(SubSeq(full, 1, l)) = l
        /\ \A i \in 1 .. l : SubSeq(full, 1, l)[i] = full[i]
    BY <1>1, <2>1, SubSeqProperties
  <2> QED
    BY <2>1, <2>2
<1>3. front = Front(full)
  BY DEF Front
<1> HIDE DEF front
<1>4. ASSUME NEW p \in S
      PROVE  /\ Append(front, p) \in Seq(S) /\ Len(Append(front, p)) = n /\ Append(front, p)[n] = p
             /\ \A i \in 1 .. n - 1 : Append(front, p)[i] = full[i]
  <2>1. /\ Append(front, p) \in Seq(S) /\ Len(Append(front, p)) = n - 1 + 1 /\ Append(front, p)[n - 1 + 1] = p
        /\ \A i \in 1 .. n - 1 : Append(front, p)[i] = front[i]
    BY <1>2, AppendProperties
  <2>2. n - 1 + 1 = n
    BY <1>1
  <2> QED
    BY <1>2, <2>1, <2>2
<1>5. full = Append(front, full[n])
  <2>1. full[n] \in S
    BY <1>1
  <2>2. \A i \in 1 .. n : i = n \/ i \in 1 .. n - 1
    BY <1>1
  <2>3. \A i \in 1 .. n : full[i] = Append(front, full[n])[i]
    BY <1>4, <2>1, <2>2
  <2> QED
    BY <1>4, <2>1, <2>3, SeqEqual
<1>6. ASSUME NEW p \in S PROVE [full EXCEPT ![n] = p] = Append(front, p)
  <2> DEFINE e == [full EXCEPT ![n] = p]
  <2>1. e \in Seq(S) /\ Len(e) = n /\ \A i \in 1 .. n : e[i] = IF i = n THEN p ELSE full[i]
    BY <1>1, ExceptSeq
  <2> HIDE DEF e
  <2>2. \A i \in 1 .. n : i = n \/ i \in 1 .. n - 1
    BY <1>1
  <2>3. \A i \in 1 .. n : e[i] = Append(front, p)[i]
    BY <1>1, <1>4, <2>1, <2>2
  <2> QED
    BY <1>4, <2>1, <2>3, SeqEqual DEF e
<1> QED
  BY <1>2, <1>3, <1>5, <1>6

LEMMA AppendAfter ==
  ASSUME NEW S, NEW s \in Seq(S), NEW t \in Seq(S), NEW m \in S
  PROVE  s \o Append(t, m) = Append(s \o t, m)
<1>1. <<m>> \in Seq(S)
  OBVIOUS
<1>2. Append(t, m) = t \o <<m>>
  OBVIOUS
<1>3. s \o t \in Seq(S)
  BY ConcatProperties
<1>4. Append(s \o t, m) = (s \o t) \o <<m>>
  BY <1>3
<1>5. (s \o t) \o <<m>> = s \o (t \o <<m>>)
  BY <1>1, ConcatAssociative
<1> QED
  BY <1>2, <1>4, <1>5

LEMMA OneMessageMore ==
  ASSUME NEW full \in Seq(NfpPayload), full # <<>>, NEW p \in NfpPayload,
         NEW m \in NfpAdvertise \cup NfpWithdraw, p.messages = Append(Last(full).messages, m)
  PROVE  MessagesIn([full EXCEPT ![Len(full)] = p]) = Append(MessagesIn(full), m)
<1> DEFINE S == NfpAdvertise \cup NfpWithdraw
           last == Last(full)
<1>1. last = full[Len(full)] /\ last \in NfpPayload
  BY LastIs
<1>2. PICK front \in Seq(NfpPayload) :
           /\ Len(front) = Len(full) - 1 /\ full = Append(front, full[Len(full)]) /\ front = Front(full)
           /\ \A q \in NfpPayload : [full EXCEPT ![Len(full)] = q] = Append(front, q)
  <2> HIDE DEF S, last
  <2> QED BY FrontAndLast
<1>3. full = Append(front, last)
  BY <1>1, <1>2
<1>4. MessagesIn(full) = MessagesIn(front) \o last.messages
  BY <1>1, <1>3, OnePayloadMore
<1>5. MessagesIn([full EXCEPT ![Len(full)] = p]) = MessagesIn(front) \o p.messages
  BY <1>2, OnePayloadMore
<1>6. last.messages \in Seq(S) /\ MessagesIn(front) \in Seq(S)
  BY <1>1, OnePayloadMore DEF NfpPayload
<1> HIDE DEF last
<1>7. MessagesIn(front) \o Append(last.messages, m) = Append(MessagesIn(front) \o last.messages, m)
  BY <1>6, AppendAfter
<1> QED
  BY <1>4, <1>5, <1>7 DEF last

\* Payloads with the numbers from 0 on, and these messages.
Numbered(full) == \A i \in 1 .. Len(full) : full[i].seqnum = i - 1
InOrderWith(full, messages) ==
  /\ full \in Seq(NfpPayload) /\ full # <<>> /\ Len(full) <= Len(messages) + 1
  /\ Numbered(full) /\ MessagesIn(full) = messages

LEMMA FirstInOrder ==
  ASSUME NEW router \in Name
  PROVE  InOrderWith(<<CreatePayload(router, 0)>>, <<>>)
<1> DEFINE p == CreatePayload(router, 0)
<1>1. p \in NfpPayload /\ p.messages = <<>> /\ p.seqnum = 0
  BY PayloadCreated
<1> HIDE DEF p
<1>2. <<p>> \in Seq(NfpPayload) /\ <<p>> # <<>> /\ Len(<<p>>) = 1 /\ <<p>>[1] = p
  BY <1>1
<1>3. Append(<<>>, p) = <<p>> /\ <<>> \in Seq(NfpPayload)
  OBVIOUS
<1>4. MessagesIn(<<p>>) = MessagesIn(<<>>) \o p.messages
  BY <1>1, <1>3, OnePayloadMore
<1>5. MessagesIn(<<p>>) = <<>>
  BY <1>1, <1>4, NoPayloads
<1>6. Numbered(<<p>>)
  BY <1>1, <1>2 DEF Numbered
<1> QED
  BY <1>2, <1>5, <1>6 DEF InOrderWith, p

LEMMA NextInOrder ==
  ASSUME NEW router \in Name, NEW capacity \in Int, NEW limit \in Nat, FixedOverhead(router) <= limit,
         NEW full, AllFill(full, router, capacity, limit), NEW m, FitsAlone(m, router, capacity),
         NEW messages \in Seq(NfpAdvertise \cup NfpWithdraw), Len(messages) < MaxWord,
         InOrderWith(full, messages)
  PROVE  InOrderWith(AppendMessage(full, m, capacity), Append(messages, m))
<1> DEFINE last == Last(full)
           S == NfpAdvertise \cup NfpWithdraw
           more == Append(messages, m)
<1>1. PICK p : /\ Fills(p, router, capacity, limit + NfpMessageSize(m))
               /\ \/ AppendMessage(full, m, capacity) = Append(full, p) /\ Begins(p, last, m)
                  \/ AppendMessage(full, m, capacity) = [full EXCEPT ![Len(full)] = p] /\ Follows(p, last, m)
  BY MessageAppended
<1>2. p \in NfpPayload /\ m \in S
  BY <1>1 DEF Fills, FitsAlone
<1>3. /\ full \in Seq(NfpPayload) /\ full # <<>> /\ Len(full) <= Len(messages) + 1
      /\ MessagesIn(full) = messages /\ \A i \in 1 .. Len(full) : full[i].seqnum = i - 1
  BY DEF InOrderWith, Numbered
<1>4. Len(full) \in Nat \ {0} /\ last = full[Len(full)] /\ last \in NfpPayload
  BY <1>3, LastIs
<1>5. last.seqnum = Len(full) - 1
  <2>1. Len(full) \in 1 .. Len(full)
    BY <1>4
  <2> QED
    BY <1>3, <1>4, <2>1
<1>6. Len(messages) \in Nat /\ Len(more) = Len(messages) + 1
  BY <1>2, AppendProperties
<1>7. CASE AppendMessage(full, m, capacity) = Append(full, p) /\ Begins(p, last, m)
  <2>1. p.seqnum = (last.seqnum + 1) % 65536 /\ p.messages = Append(<<>>, m)
    BY <1>7 DEF Begins
  <2>2. p.seqnum = Len(full)
    <3>1. PICK n \in Nat : n = Len(full) /\ n <= 65535
      BY <1>3, <1>4, <1>6 DEF MaxWord
    <3>2. last.seqnum + 1 = n
      BY <1>5, <3>1
    <3>3. n % 65536 = n
      BY ONLY <3>1, n \in Nat
    <3> QED
      BY <2>1, <3>1, <3>2, <3>3
  <2>3. /\ Append(full, p) \in Seq(NfpPayload) /\ Len(Append(full, p)) = Len(full) + 1
        /\ Append(full, p)[Len(full) + 1] = p /\ \A i \in 1 .. Len(full) : Append(full, p)[i] = full[i]
    BY <1>2, <1>3, AppendProperties
  <2>4. Numbered(Append(full, p))
    <3>1. \A i \in 1 .. Len(full) + 1 : i \in 1 .. Len(full) \/ i = Len(full) + 1
      BY <1>4
    <3> QED
      BY <1>3, <1>4, <2>2, <2>3, <3>1 DEF Numbered
  <2>5. MessagesIn(Append(full, p)) = more
    <3>1. MessagesIn(Append(full, p)) = messages \o Append(<<>>, m)
      <4>1. MessagesIn(Append(full, p)) = MessagesIn(full) \o p.messages
        BY <1>2, <1>3, OnePayloadMore
      <4> QED
        BY ONLY <1>3, <2>1, <4>1
    <3>2. <<>> \in Seq(S) /\ messages \o <<>> = messages
      BY ConcatEmptySeq
    <3>3. messages \o Append(<<>>, m) = Append(messages \o <<>>, m)
      <4> HIDE DEF S
      <4> QED BY <1>2, <3>2, AppendAfter DEF S
    <3> QED
      BY <3>1, <3>2, <3>3
  <2>6. Append(full, p) # <<>>
    BY <1>4, <2>3, EmptySeq
  <2>7. Len(Append(full, p)) <= Len(more) + 1
    BY <1>3, <1>4, <1>6, <2>3
  <2> HIDE DEF more
  <2> QED
    BY <1>7, <2>3, <2>4, <2>5, <2>6, <2>7 DEF InOrderWith, more
<1>8. CASE AppendMessage(full, m, capacity) = [full EXCEPT ![Len(full)] = p] /\ Follows(p, last, m)
  <2> DEFINE e == [full EXCEPT ![Len(full)] = p]
  <2>1. p.seqnum = last.seqnum /\ p.messages = Append(last.messages, m)
    BY <1>8 DEF Follows
  <2>2. MessagesIn(e) = more
    BY <1>2, <1>3, <2>1, OneMessageMore
  <2>3. /\ e \in Seq(NfpPayload) /\ Len(e) = Len(full)
        /\ \A i \in 1 .. Len(full) : e[i] = IF i = Len(full) THEN p ELSE full[i]
    BY <1>2, <1>3, <1>4, ExceptSeq
  <2> HIDE DEF e
  <2>4. Numbered(e)
    BY <1>3, <1>5, <2>1, <2>3 DEF Numbered
  <2>5. e # <<>>
    BY <1>4, <2>3, EmptySeq
  <2>6. Len(e) <= Len(more) + 1
    BY <1>3, <1>4, <1>6, <2>3
  <2> HIDE DEF more
  <2> QED
    BY <1>8, <2>2, <2>3, <2>4, <2>5, <2>6 DEF InOrderWith, more, e
<1> QED
  BY <1>1, <1>7, <1>8

LEMMA QueueInOrder ==
  ASSUME NEW messages, NEW router, NEW capacity, Fillable(messages, router, 0, capacity),
         Len(messages) <= MaxWord
  PROVE  InOrderWith(PayloadsOf(messages, router, 0, capacity), messages)
<1> DEFINE N == Len(messages)
           S == NfpAdvertise \cup NfpWithdraw
           Front1(k) == SubSeq(messages, 1, k)
           Fine(k, c) == /\ InOrderWith(c[k], Front1(k))
                         /\ \E limit \in Nat : FixedOverhead(router) <= limit /\ AllFill(c[k], router, capacity, limit)
<1>1. /\ router \in Name /\ capacity \in Int /\ messages \in Seq(S)
      /\ \A k \in 1 .. N : FitsAlone(messages[k], router, capacity)
  BY DEF Fillable
<1>2. N \in Nat
  BY <1>1, ElementOfSeq
<1>3. PICK c : Filling(c, messages, router, 0, capacity) /\ PayloadsOf(messages, router, 0, capacity) = c[N]
  BY PayloadsLoop
<1>4. Front1(0) = <<>> /\ Front1(N) = messages
  BY <1>1, SubSeqEmpty, SubSeqFull
<1>5. ASSUME NEW k \in 1 .. N
      PROVE  /\ Front1(k - 1) \in Seq(S) /\ Len(Front1(k - 1)) = k - 1
             /\ Front1(k) = Append(Front1(k - 1), messages[k])
  <2>1. k - 1 \in 0 .. N /\ k \in Nat /\ k - 1 \in Nat
    BY <1>2
  <2>2. Front1(k - 1) \in Seq(S) /\ Len(Front1(k - 1)) = k - 1
    <3>1. PICK l \in 0 .. N : l = k - 1
      BY <2>1
    <3>2. SubSeq(messages, 1, l) \in Seq(S) /\ Len(SubSeq(messages, 1, l)) = l
      <4> HIDE DEF S
      <4> QED BY <1>1, <1>2, SubSeqProperties
    <3> QED
      BY <3>1, <3>2
  <2>3. Front1(k) = Append(Front1(k - 1), messages[k])
    <3> HIDE DEF S
    <3> QED BY <1>1, <1>2, <2>1, SubSeqRecursiveSecond
  <2> QED
    BY <2>2, <2>3
<1> HIDE DEF N, S, Front1
<1> DEFINE T == {k \in 0 .. N : Fine(k, c)}
<1>6. 0 \in T
  <2>1. c[0] = <<CreatePayload(router, 0)>>
    BY <1>3 DEF Filling
  <2>2. InOrderWith(c[0], <<>>)
    BY <1>1, <2>1, FirstInOrder
  <2>3. FixedOverhead(router) \in Nat /\ AllFill(c[0], router, capacity, FixedOverhead(router))
    BY <2>1, FirstPayload
  <2> QED
    BY <1>2, <1>4, <2>2, <2>3
<1>7. ASSUME NEW k \in 1 .. N, k - 1 \in T PROVE k \in T
  <2>1. PICK full, m, front : full = c[k - 1] /\ m = messages[k] /\ front = Front1(k - 1)
    OBVIOUS
  <2>2. PICK limit \in Nat : FixedOverhead(router) <= limit /\ AllFill(full, router, capacity, limit)
    BY <1>7, <2>1
  <2>3. c[k] = AppendMessage(full, m, capacity) /\ FitsAlone(m, router, capacity)
    BY <1>1, <1>3, <2>1 DEF Filling, N
  <2>4. front \in Seq(NfpAdvertise \cup NfpWithdraw) /\ Len(front) < MaxWord /\ InOrderWith(full, front)
    <3>1. front \in Seq(NfpAdvertise \cup NfpWithdraw) /\ Len(front) = k - 1
      BY <1>5, <2>1 DEF S
    <3>2. k - 1 < MaxWord
      BY <1>2 DEF MaxWord, N
    <3> QED
      BY <1>7, <2>1, <3>1, <3>2
  <2>5. InOrderWith(AppendMessage(full, m, capacity), Append(front, m))
    BY <1>1, <2>2, <2>3, <2>4, NextInOrder
  <2>6. NfpMessageSize(m) \in Nat
    BY <2>3, MessageFields DEF FitsAlone
  <2>7. PICK more \in Nat : more = NfpMessageSize(m)
    BY <2>6
  <2>8. AllFill(AppendMessage(full, m, capacity), router, capacity, limit + more)
    BY <1>1, <2>2, <2>3, <2>7, AppendFills
  <2>9. limit + more \in Nat /\ FixedOverhead(router) <= limit + more
    <3>1. FixedOverhead(router) \in Nat
      BY FirstPayload
    <3> QED
      BY <2>2, <3>1
  <2>10. Front1(k) = Append(front, m) /\ k \in 0 .. N
    <3>1. Front1(k) = Append(Front1(k - 1), messages[k])
      BY <1>5
    <3>2. k \in 0 .. N
      BY <1>2
    <3> QED
      BY <2>1, <3>1, <3>2
  <2> QED
    BY <2>3, <2>5, <2>8, <2>9, <2>10
<1>8. \A k \in 0 .. N : k \in T
  <2> HIDE DEF T
  <2> QED BY <1>2, <1>6, <1>7, Induction
<1>9. InOrderWith(c[N], Front1(N))
  BY <1>2, <1>8
<1> QED
  BY <1>3, <1>4, <1>9 DEF N

\* What is sent of them: all payloads but the last one, if that has no message.
LEMMA SentInOrder ==
  ASSUME NEW payloads, NEW messages \in Seq(NfpAdvertise \cup NfpWithdraw), InOrderWith(payloads, messages)
  PROVE  /\ Sent(payloads) \in Seq(NfpPayload) /\ Numbered(Sent(payloads))
         /\ MessagesIn(Sent(payloads)) = messages
<1>1. /\ payloads \in Seq(NfpPayload) /\ payloads # <<>> /\ MessagesIn(payloads) = messages
      /\ \A i \in 1 .. Len(payloads) : payloads[i].seqnum = i - 1
  BY DEF InOrderWith, Numbered
<1>2. /\ Sent(payloads) \in Seq(NfpPayload)
      /\ \A i \in 1 .. Len(Sent(payloads)) : i \in 1 .. Len(payloads) /\ Sent(payloads)[i] = payloads[i]
  BY <1>1, SentAre
<1>3. Numbered(Sent(payloads))
  BY <1>1, <1>2 DEF Numbered
<1>4. MessagesIn(Sent(payloads)) = messages
  <2>1. CASE Last(payloads).messages = <<>>
    <3>1. Last(payloads) = payloads[Len(payloads)] /\ Last(payloads) \in NfpPayload
      BY <1>1, LastIs
    <3>2. PICK front \in Seq(NfpPayload) : payloads = Append(front, payloads[Len(payloads)]) /\ front = Front(payloads)
      BY <1>1, FrontAndLast
    <3>3. MessagesIn(payloads) = MessagesIn(front) \o <<>>
      BY <2>1, <3>1, <3>2, OnePayloadMore
    <3>4. MessagesIn(front) \o <<>> = MessagesIn(front)
      BY <3>1, <3>2, OnePayloadMore, ConcatEmptySeq
    <3> QED
      BY <1>1, <2>1, <3>2, <3>3, <3>4 DEF Sent
  <2>2. CASE Last(payloads).messages # <<>>
    BY <1>1, <2>2 DEF Sent
  <2> QED
    BY <2>1, <2>2
<1> QED
  BY <1>2, <1>3, <1>4
-----------------------------------------------------------------------------
(* Sums *)

\* A sum of numbers that are less is less.
LEMMA TotalsCompare ==
  ASSUME NEW n \in Nat, NEW r \in [1 .. n -> Nat], NEW s \in [1 .. n -> Nat], \A k \in 1 .. n : r[k] <= s[k]
  PROVE  Total(r) \in Nat /\ Total(s) \in Nat /\ Total(r) <= Total(s)
<1>1. r \in Seq(Nat) /\ Len(r) = n /\ s \in Seq(Nat) /\ Len(s) = n
  BY FunctionIsSequence
<1>2. PICK t \in [0 .. n -> Nat] :
        t[0] = 0 /\ (\A k \in 1 .. n : t[k] = t[k - 1] + r[k]) /\ Total(r) = t[n]
  BY <1>1, TotalIs
<1>3. PICK u \in [0 .. n -> Nat] :
        u[0] = 0 /\ (\A k \in 1 .. n : u[k] = u[k - 1] + s[k]) /\ Total(s) = u[n]
  BY <1>1, TotalIs
<1> DEFINE T == {k \in 0 .. n : t[k] <= u[k]}
<1>4. 0 \in T
  BY <1>2, <1>3
<1>5. ASSUME NEW k \in 1 .. n, k - 1 \in T PROVE k \in T
  <2>1. t[k - 1] <= u[k - 1] /\ t[k - 1] \in Nat /\ u[k - 1] \in Nat /\ r[k] \in Nat /\ s[k] \in Nat /\ k \in 0 .. n
    BY <1>5
  <2>2. t[k] = t[k - 1] + r[k] /\ u[k] = u[k - 1] + s[k] /\ r[k] <= s[k]
    BY <1>2, <1>3
  <2> QED
    BY <2>1, <2>2
<1>6. \A k \in 0 .. n : k \in T
  <2> HIDE DEF T
  <2> QED BY <1>4, <1>5, Induction
<1>7. t[n] <= u[n] /\ t[n] \in Nat /\ u[n] \in Nat
  BY <1>6
<1> QED
  BY <1>2, <1>3, <1>7

\* A sum changes by what one of the numbers changes.
LEMMA TotalChanges ==
  ASSUME NEW n \in Nat, NEW r \in [1 .. n -> Nat], NEW s \in [1 .. n -> Nat], NEW j \in 1 .. n,
         \A k \in 1 .. n : k # j => s[k] = r[k]
  PROVE  Total(r) \in Nat /\ Total(s) \in Nat /\ Total(s) + r[j] = Total(r) + s[j]
<1>1. r \in Seq(Nat) /\ Len(r) = n /\ s \in Seq(Nat) /\ Len(s) = n
  BY FunctionIsSequence
<1>2. PICK t \in [0 .. n -> Nat] :
        t[0] = 0 /\ (\A k \in 1 .. n : t[k] = t[k - 1] + r[k]) /\ Total(r) = t[n]
  BY <1>1, TotalIs
<1>3. PICK u \in [0 .. n -> Nat] :
        u[0] = 0 /\ (\A k \in 1 .. n : u[k] = u[k - 1] + s[k]) /\ Total(s) = u[n]
  BY <1>1, TotalIs
<1> DEFINE T == {k \in 0 .. n : IF k < j THEN u[k] = t[k] ELSE u[k] + r[j] = t[k] + s[j]}
<1>4. 0 \in T
  BY <1>2, <1>3
<1>5. ASSUME NEW k \in 1 .. n, k - 1 \in T PROVE k \in T
  <2>0. IF k - 1 < j THEN u[k - 1] = t[k - 1] ELSE u[k - 1] + r[j] = t[k - 1] + s[j]
    BY <1>5
  <2>1. /\ t[k - 1] \in Nat /\ u[k - 1] \in Nat /\ r[k] \in Nat /\ s[k] \in Nat /\ r[j] \in Nat /\ s[j] \in Nat
        /\ k \in 0 .. n /\ IF k - 1 < j THEN u[k - 1] = t[k - 1] ELSE u[k - 1] + r[j] = t[k - 1] + s[j]
    <3>1. k - 1 \in 0 .. n /\ k \in 0 .. n
      OBVIOUS
    <3> HIDE DEF T
    <3> QED
      BY <2>0, <3>1
  <2>2. t[k] = t[k - 1] + r[k] /\ u[k] = u[k - 1] + s[k] /\ (k # j => s[k] = r[k])
    BY <1>2, <1>3
  <2>3. CASE k < j
    BY <2>1, <2>2, <2>3
  <2>4. CASE k = j
    <3>1. u[k - 1] = t[k - 1]
      BY <2>1, <2>4
    <3>2. t[k] = t[k - 1] + r[k] /\ u[k] = u[k - 1] + s[k]
      BY <1>2, <1>3
    <3>3. u[k] + r[k] = t[k] + s[k]
      BY <2>1, <3>1, <3>2
    <3> QED
      BY <2>1, <2>4, <3>3
  <2>5. CASE j < k
    <3>1. u[k - 1] + r[j] = t[k - 1] + s[j] /\ s[k] = r[k]
      BY <2>1, <2>2, <2>5
    <3>2. t[k] = t[k - 1] + r[k] /\ u[k] = u[k - 1] + r[k]
      BY <2>2, <3>1
    <3>3. u[k] + r[j] = t[k] + s[j]
      <4>1. PICK a \in Nat, b \in Nat, c \in Nat, d \in Nat, e \in Nat :
              a = t[k - 1] /\ b = u[k - 1] /\ c = r[k] /\ d = r[j] /\ e = s[j]
        BY <2>1
      <4>2. b + d = a + e /\ t[k] = a + c /\ u[k] = b + c
        BY <3>1, <3>2, <4>1
      <4>3. (b + c) + d = (a + c) + e
        BY <4>2
      <4> QED
        BY <4>1, <4>2, <4>3
    <3> QED
      BY <2>1, <2>5, <3>3
  <2> QED
    BY <2>3, <2>4, <2>5
<1>6. \A k \in 0 .. n : k \in T
  <2> HIDE DEF T
  <2> QED BY <1>4, <1>5, Induction
<1>7. u[n] + r[j] = t[n] + s[j] /\ t[n] \in Nat /\ u[n] \in Nat
  <2>1. n \in T /\ ~(n < j)
    BY <1>6
  <2> QED
    BY <2>1
<1> QED
  BY <1>2, <1>3, <1>7

\* A sum of one number for each member of a set.
LEMMA SumOfSome ==
  ASSUME NEW n \in Nat, NEW P \in SUBSET (1 .. n), NEW b \in Nat
  PROVE  /\ IsFiniteSet(P) /\ Cardinality(P) \in Nat
         /\ Total([i \in 1 .. n |-> IF i \in P THEN b ELSE 0]) = Cardinality(P) * b
<1> DEFINE s == [i \in 1 .. n |-> IF i \in P THEN b ELSE 0]
           UpTo(k) == P \cap (1 .. k)
<1>1. s \in Seq(Nat) /\ Len(s) = n
  <2>1. s \in [1 .. n -> Nat]
    OBVIOUS
  <2> HIDE DEF s
  <2> QED BY <2>1, FunctionIsSequence
<1>2. \A k \in 1 .. n : s[k] = IF k \in P THEN b ELSE 0
  OBVIOUS
<1> HIDE DEF s
<1>3. PICK t \in [0 .. n -> Nat] :
        t[0] = 0 /\ (\A k \in 1 .. n : t[k] = t[k - 1] + s[k]) /\ Total(s) = t[n]
  BY <1>1, TotalIs
<1> DEFINE T == {k \in 0 .. n : /\ IsFiniteSet(UpTo(k)) /\ Cardinality(UpTo(k)) \in Nat
                                /\ t[k] = Cardinality(UpTo(k)) * b}
<1>4. 0 \in T
  <2>1. UpTo(0) = {}
    OBVIOUS
  <2>2. IsFiniteSet({}) /\ Cardinality({}) = 0
    BY FS_EmptySet
  <2>3. 0 * b = 0
    OBVIOUS
  <2> QED
    BY <1>3, <2>1, <2>2, <2>3
<1>5. ASSUME NEW k \in 1 .. n, k - 1 \in T PROVE k \in T
  <2>1. PICK before : before = UpTo(k - 1)
    OBVIOUS
  <2>2. IsFiniteSet(before) /\ Cardinality(before) \in Nat /\ t[k - 1] = Cardinality(before) * b /\ k \notin before
    BY <1>5, <2>1
  <2>3. t[k] = t[k - 1] + IF k \in P THEN b ELSE 0
    BY <1>2, <1>3
  <2>4. CASE k \in P
    <3>1. UpTo(k) = before \cup {k}
      BY <2>1, <2>4
    <3>2. IsFiniteSet(before \cup {k}) /\ Cardinality(before \cup {k}) = Cardinality(before) + 1
      BY <2>2, FS_AddElement
    <3>3. PICK c \in Nat : c = Cardinality(before)
      BY <2>2
    <3>4. c * b + b = (c + 1) * b
      BY ONLY c \in Nat, b \in Nat
    <3>5. c * b \in Nat
      BY ONLY c \in Nat, b \in Nat
    <3>6. t[k] = c * b + b
      BY <2>2, <2>3, <2>4, <3>3
    <3>7. t[k] = (c + 1) * b /\ c + 1 \in Nat
      BY <3>4, <3>6
    <3>8. t[k] = Cardinality(UpTo(k)) * b
      BY <3>1, <3>2, <3>3, <3>7
    <3>9. IsFiniteSet(UpTo(k)) /\ Cardinality(UpTo(k)) \in Nat /\ k \in 0 .. n
      <4>1. k \in 0 .. n
        OBVIOUS
      <4> HIDE DEF UpTo, T
      <4> QED
        BY <3>1, <3>2, <3>3, <3>7, <4>1
    <3> HIDE DEF UpTo
    <3> QED
      BY <3>8, <3>9
  <2>5. CASE k \notin P
    <3>1. UpTo(k) = before
      <4>1. \A i \in P : i \in 1 .. k <=> i \in 1 .. k - 1
        BY <2>5
      <4> QED
        BY <2>1, <4>1
    <3>2. t[k] = t[k - 1]
      BY <2>3, <2>5
    <3>3. t[k] = Cardinality(UpTo(k)) * b
      BY <2>2, <3>1, <3>2
    <3>4. IsFiniteSet(UpTo(k)) /\ Cardinality(UpTo(k)) \in Nat /\ k \in 0 .. n
      <4>1. k \in 0 .. n
        OBVIOUS
      <4> HIDE DEF UpTo, T
      <4> QED
        BY <2>2, <3>1, <4>1
    <3> HIDE DEF UpTo
    <3> QED
      BY <3>3, <3>4
  <2> QED
    BY <2>4, <2>5
<1>6. \A k \in 0 .. n : k \in T
  <2> HIDE DEF T
  <2> QED BY <1>4, <1>5, Induction
<1>7. n \in T /\ UpTo(n) = P
  <2>1. n \in 0 .. n /\ UpTo(n) = P
    <3> HIDE DEF T
    <3>1. n \in 0 .. n
      OBVIOUS
    <3>2. \A i \in P : i \in 1 .. n
      OBVIOUS
    <3> QED
      BY <3>1, <3>2
  <2> HIDE DEF T, UpTo
  <2> QED
    BY <1>6, <2>1
<1> QED
  BY <1>3, <1>7 DEF s

\* As many are in a list as it is long, if it has none twice.
LEMMA ListedOnce ==
  ASSUME NEW n \in Nat, NEW f, \A i, j \in 1 .. n : f[i] = f[j] => i = j
  PROVE  \A k \in 0 .. n : IsFiniteSet({f[i] : i \in 1 .. k}) /\ Cardinality({f[i] : i \in 1 .. k}) = k
<1> DEFINE First(k) == {f[i] : i \in 1 .. k}
           T == {k \in 0 .. n : IsFiniteSet(First(k)) /\ Cardinality(First(k)) = k}
<1>1. 0 \in T
  <2>1. First(0) = {}
    OBVIOUS
  <2> QED
    BY <2>1, FS_EmptySet
<1>2. ASSUME NEW k \in 1 .. n, k - 1 \in T PROVE k \in T
  <2>1. PICK before : before = First(k - 1)
    OBVIOUS
  <2>2. IsFiniteSet(before) /\ Cardinality(before) = k - 1
    BY <1>2, <2>1
  <2>3. f[k] \notin before
    BY <2>1
  <2>4. First(k) = before \cup {f[k]}
    <3>1. \A i \in 1 .. k : i \in 1 .. k - 1 \/ i = k
      OBVIOUS
    <3>2. \A i \in 1 .. k - 1 : i \in 1 .. k
      OBVIOUS
    <3> QED
      BY <2>1, <3>1, <3>2
  <2>5. IsFiniteSet(before \cup {f[k]}) /\ Cardinality(before \cup {f[k]}) = k
    <3>1. Cardinality(before \cup {f[k]}) = Cardinality(before) + 1 /\ IsFiniteSet(before \cup {f[k]})
      BY <2>2, <2>3, FS_AddElement
    <3> QED
      BY <2>2, <3>1
  <2> QED
    BY <2>4, <2>5
<1>3. \A k \in 0 .. n : k \in T
  <2> HIDE DEF T
  <2> QED BY <1>1, <1>2, Induction
<1> QED
  BY <1>3

\* The weight of those in a list that are in a set.
Weight(list, S, w) == Total([i \in 1 .. Len(list) |-> IF list[i] \in S THEN w[i] ELSE 0])

LEMMA WeightIs ==
  ASSUME NEW V, NEW list \in Seq(V), NEW w \in [1 .. Len(list) -> Nat], NEW S
  PROVE  /\ Weight(list, S, w) \in Nat /\ Total(w) \in Nat /\ Weight(list, S, w) <= Total(w)
         /\ (\A i \in 1 .. Len(list) : list[i] \in S) => Weight(list, S, w) = Total(w)
         /\ (\A i \in 1 .. Len(list) : list[i] \notin S) => Weight(list, S, w) = 0
<1> DEFINE n == Len(list)
           s == [i \in 1 .. n |-> IF list[i] \in S THEN w[i] ELSE 0]
<1>1. n \in Nat
  OBVIOUS
<1>2. s \in [1 .. n -> Nat] /\ \A k \in 1 .. n : s[k] <= w[k]
  OBVIOUS
<1>3. (\A i \in 1 .. n : list[i] \in S) => s = w
  OBVIOUS
<1>4. ASSUME \A i \in 1 .. n : list[i] \notin S PROVE Total(s) = 0
  <2>1. s = [i \in 1 .. n |-> IF i \in {} THEN 0 ELSE 0]
    BY <1>4
  <2>2. Total([i \in 1 .. n |-> IF i \in {} THEN 0 ELSE 0]) = Cardinality({}) * 0 /\ Cardinality({}) \in Nat
    BY <1>1, SumOfSome
  <2> QED
    BY <2>1, <2>2
<1>5. Weight(list, S, w) = Total(s)
  BY DEF Weight
<1> HIDE DEF n, s
<1>6. Total(s) \in Nat /\ Total(w) \in Nat /\ Total(s) <= Total(w)
  <2>1. w \in [1 .. n -> Nat]
    BY DEF n
  <2> QED
    BY <1>1, <1>2, <2>1, TotalsCompare
<1> QED
  BY <1>3, <1>4, <1>5, <1>6 DEF n

LEMMA WeightMore ==
  ASSUME NEW V, NEW list \in Seq(V), NEW w \in [1 .. Len(list) -> Nat], NEW S,
         \A i, j \in 1 .. Len(list) : list[i] = list[j] => i = j,
         NEW k \in 1 .. Len(list), list[k] \notin S
  PROVE  Weight(list, S \cup {list[k]}, w) = Weight(list, S, w) + w[k]
<1> DEFINE n == Len(list)
           r == [i \in 1 .. n |-> IF list[i] \in S THEN w[i] ELSE 0]
           s == [i \in 1 .. n |-> IF list[i] \in S \cup {list[k]} THEN w[i] ELSE 0]
<1>1. n \in Nat /\ k \in 1 .. n /\ w[k] \in Nat
  OBVIOUS
<1>2. r \in [1 .. n -> Nat] /\ s \in [1 .. n -> Nat] /\ r[k] = 0 /\ s[k] = w[k]
  OBVIOUS
<1>3. \A i \in 1 .. n : i # k => s[i] = r[i]
  OBVIOUS
<1>4. Weight(list, S, w) = Total(r) /\ Weight(list, S \cup {list[k]}, w) = Total(s)
  BY DEF Weight
<1> HIDE DEF n, r, s
<1>5. Total(r) \in Nat /\ Total(s) \in Nat /\ Total(s) + r[k] = Total(r) + s[k]
  <2>1. PICK j \in 1 .. n : j = k
    BY <1>1
  <2>2. \A i \in 1 .. n : i # j => s[i] = r[i]
    BY <1>3, <2>1
  <2>3. Total(r) \in Nat /\ Total(s) \in Nat /\ Total(s) + r[j] = Total(r) + s[j]
    BY ONLY <1>1, <1>2, <2>2, TotalChanges
  <2> QED
    BY <2>1, <2>3
<1> QED
  BY <1>1, <1>2, <1>4, <1>5

-----------------------------------------------------------------------------
(* What the codecs promise *)

\* The packet of a message whose lengths fit has the size that its header tells
\* (GetSerializedSize, Serialize and the fixed header agree), and is read again from its
\* bytes, whatever layer 2 has put behind them: with the same message and headers, for names,
\* payloads and lists of headers of any length.
THEOREM PacketsAreRead ==
  ASSUME NEW made, Encodable(made), NEW rest \in Bytes
  PROVE  LET packet == WithNs3Packet(CreateFromMessage(made)) IN
         /\ packet.message = made.message /\ packet.perHop = made.perHop
         /\ RightSize(packet)
         /\ CreateFromNs3Packet(BytesOf(packet) \o rest) = {packet}
<1>1. /\ Packed(made).message = made.message /\ Packed(made).perHop = made.perHop
  BY PackedIs
<1> QED
  BY <1>1, PackedHasRightSize, PackedIsRead DEF Packed

\* A payload of NFP whose length fits has the size NfpPayload::GetSerializedSize computes, and
\* is read again as it was, for any number of advertisements and withdraws.
THEOREM PayloadsAreRead ==
  ASSUME NEW p, NfpPayloadFits(p)
  PROVE  /\ Len(NfpPayloadBytes(p)) = NfpPayloadSize(p)
         /\ NfpPayloadOf(NfpPayloadBytes(p)) = {p}
BY PayloadIsWritten, PayloadIsRead

\* ProcessWorkQueue never fills a payload beyond its capacity, for any messages that fit into
\* an empty one: the assertions of the constructor and of AppendMessage hold.
THEOREM PayloadsAreWithinCapacity ==
  ASSUME NEW router \in Name, NEW n \in Nat, NEW capacity \in Int, FixedOverhead(router) <= capacity,
         NEW messages \in Seq(NfpAdvertise \cup NfpWithdraw),
         \A k \in 1 .. Len(messages) :
           /\ NfpMessageFits(messages[k])
           /\ FixedOverhead(router) + NfpMessageSize(messages[k]) <= capacity
  PROVE  /\ PayloadsOf(messages, router, n, capacity) \in Seq(NfpPayload)
         /\ WithinCapacity(PayloadsOf(messages, router, n, capacity), capacity)
<1>1. \A k \in 1 .. Len(messages) : FitsAlone(messages[k], router, capacity)
  BY DEF FitsAlone
<1>2. Fillable(messages, router, n, capacity)
  BY <1>1 DEF Fillable
<1>3. AllFill(PayloadsOf(messages, router, n, capacity), router, capacity,
              FixedOverhead(router) + MessagesSize(messages))
  BY <1>2, PayloadsFill
<1> QED
  BY <1>3 DEF AllFill, Fills, WithinCapacity
=============================================================================
