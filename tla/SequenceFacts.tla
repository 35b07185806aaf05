--------------------------- MODULE SequenceFacts ---------------------------
(***************************************************************************)
(* Facts about sequences, folds and multiples that several proofs need,    *)
(* and the induction they rest on. The library states induction for an     *)
(* operator, which the provers cannot instantiate. Here it is stated for   *)
(* a set, so that a proof by induction defines the set of the numbers for  *)
(* which it is right.                                                      *)
(***************************************************************************)
EXTENDS SequencesExt, Integers, WellFoundedInduction, TLAPS

(* A set of numbers has a least one.                                       *)
LEMMA LeastNumber ==
  ASSUME NEW S, S \subseteq Nat, S # {}
  PROVE  \E n \in S : \A m \in S : n <= m
<1>1. PICK n \in S : \A m \in S : ~ (<<m, n>> \in OpToRel(<, Nat))
  BY NatLessThanWellFounded, WFMin
<1>2. \A m \in S : ~(m < n)
  BY <1>1 DEF OpToRel
<1> QED  BY <1>2

(* Induction over the numbers, for a set: the form that asks for no operator.*)
LEMMA SetInduction ==
  ASSUME NEW S, 0 \in S, \A n \in Nat : n \in S => n + 1 \in S
  PROVE  \A n \in Nat : n \in S
<1> SUFFICES ASSUME Nat \ S # {}
             PROVE  FALSE
  OBVIOUS
<1>1. PICK n \in Nat \ S : \A m \in Nat \ S : n <= m
  <2>1. Nat \ S \subseteq Nat
    OBVIOUS
  <2> QED  BY LeastNumber, <2>1
<1>2. n = 0 \/ n - 1 \in Nat
  OBVIOUS
<1> QED  BY <1>1, <1>2

-----------------------------------------------------------------------------
(* A sequence of anything: its cells need no set of their own.             *)
IsSeq(s) == s \in Seq({s[k] : k \in DOMAIN s})

(* What a sequence is.                                                     *)
LEMMA SeqShape ==
  ASSUME NEW s, IsSeq(s)
  PROVE  Len(s) \in Nat /\ DOMAIN s = 1..Len(s) /\ s = [k \in 1..Len(s) |-> s[k]]
BY DEF IsSeq

(* A sequence over a set is one.                                           *)
LEMMA InSeq ==
  ASSUME NEW S, NEW s \in Seq(S)
  PROVE  IsSeq(s)
<1>1. Len(s) \in Nat /\ s \in [1..Len(s) -> {s[k] : k \in DOMAIN s}]
  OBVIOUS
<1> QED  BY <1>1 DEF IsSeq

(* A function on 1..n is a sequence.                                       *)
LEMMA ShapeSeq ==
  ASSUME NEW s, NEW n \in Nat, s = [k \in 1..n |-> s[k]]
  PROVE  IsSeq(s) /\ Len(s) = n
<1>1. s \in [1..n -> {s[k] : k \in DOMAIN s}]
  OBVIOUS
<1>2. s \in Seq({s[k] : k \in DOMAIN s})
  BY <1>1
<1> QED  BY <1>1, <1>2 DEF IsSeq

(* The empty sequence.                                                     *)
LEMMA EmptyIsSeq == IsSeq(<<>>) /\ Len(<<>>) = 0 /\ DOMAIN <<>> = {}
BY DEF IsSeq

(* Sequences are the same if their elements are.                           *)
LEMMA SeqSame ==
  ASSUME NEW s, NEW t, IsSeq(s), IsSeq(t), Len(s) = Len(t),
         \A k \in 1..Len(s) : s[k] = t[k]
  PROVE  s = t
<1>1. s = [k \in 1..Len(s) |-> s[k]] /\ t = [k \in 1..Len(s) |-> t[k]]
  BY SeqShape
<1> QED  BY <1>1

(* One after the other.                                                    *)
LEMMA CatShape ==
  ASSUME NEW s, NEW t, IsSeq(s), IsSeq(t)
  PROVE  /\ IsSeq(s \o t) /\ Len(s \o t) = Len(s) + Len(t)
         /\ \A k \in 1..Len(s) : (s \o t)[k] = s[k]
         /\ \A k \in 1..Len(t) : (s \o t)[Len(s) + k] = t[k]
         /\ \A k \in 1..(Len(s) + Len(t)) :
              (s \o t)[k] = IF k <= Len(s) THEN s[k] ELSE t[k - Len(s)]
<1> DEFINE S == {s[k] : k \in DOMAIN s} \cup {t[k] : k \in DOMAIN t}
<1>1. s \in Seq(S) /\ t \in Seq(S)
  BY SeqShape
<1> HIDE DEF S
<1>2. s \o t \in Seq(S)
  BY <1>1
<1>3. IsSeq(s \o t)
  BY <1>2, InSeq
<1> QED  BY <1>1, <1>3

(* Three sequences one after the other.                                    *)
LEMMA CatAssoc ==
  ASSUME NEW s, NEW t, NEW u, IsSeq(s), IsSeq(t), IsSeq(u)
  PROVE  (s \o t) \o u = s \o (t \o u)
<1> DEFINE S == {s[k] : k \in DOMAIN s} \cup {t[k] : k \in DOMAIN t} \cup {u[k] : k \in DOMAIN u}
<1>1. s \in Seq(S) /\ t \in Seq(S) /\ u \in Seq(S)
  BY SeqShape
<1> HIDE DEF S
<1> QED  BY <1>1

(* Nothing in front or behind.                                             *)
LEMMA CatEmpty ==
  ASSUME NEW s, IsSeq(s)
  PROVE  s \o <<>> = s /\ <<>> \o s = s
BY DEF IsSeq

(* A part of a sequence.                                                   *)
LEMMA SubSeqShape ==
  ASSUME NEW s, IsSeq(s), NEW m \in Nat \ {0}, NEW n \in Int, n <= Len(s)
  PROVE  /\ IsSeq(SubSeq(s, m, n))
         /\ Len(SubSeq(s, m, n)) = IF m <= n THEN n - m + 1 ELSE 0
         /\ \A k \in 1..Len(SubSeq(s, m, n)) : SubSeq(s, m, n)[k] = s[m + k - 1]
<1> DEFINE S == {s[k] : k \in DOMAIN s}
<1>1. s \in Seq(S)
  BY DEF IsSeq
<1> HIDE DEF S
<1>2. SubSeq(s, m, n) \in Seq(S) /\ Len(s) \in Nat
  BY <1>1
<1>3. IsSeq(SubSeq(s, m, n))
  BY <1>2, InSeq
<1> QED  BY <1>1, <1>2, <1>3

(* One more element.                                                       *)
LEMMA AppendShape ==
  ASSUME NEW s, NEW x, IsSeq(s)
  PROVE  /\ IsSeq(Append(s, x)) /\ Len(Append(s, x)) = Len(s) + 1
         /\ \A k \in 1..Len(s) : Append(s, x)[k] = s[k]
         /\ Append(s, x)[Len(s) + 1] = x
<1> DEFINE S == {s[k] : k \in DOMAIN s} \cup {x}
<1>1. s \in Seq(S) /\ x \in S
  BY SeqShape
<1> HIDE DEF S
<1>2. Append(s, x) \in Seq(S)
  BY <1>1
<1>3. IsSeq(Append(s, x))
  BY <1>2, InSeq
<1> QED  BY <1>1, <1>3

(* One other element.                                                      *)
LEMMA ExceptShape ==
  ASSUME NEW s, NEW x, IsSeq(s), NEW i \in 1..Len(s)
  PROVE  /\ IsSeq([s EXCEPT ![i] = x]) /\ Len([s EXCEPT ![i] = x]) = Len(s)
         /\ \A k \in 1..Len(s) : [s EXCEPT ![i] = x][k] = IF k = i THEN x ELSE s[k]
<1>1. Len(s) \in Nat /\ DOMAIN s = 1..Len(s)
  BY SeqShape
<1> DEFINE t == [s EXCEPT ![i] = x]
<1>2. t = [k \in 1..Len(s) |-> IF k = i THEN x ELSE s[k]]
  BY <1>1
<1>3. t = [k \in 1..Len(s) |-> t[k]]
  BY <1>2
<1> HIDE DEF t
<1>4. IsSeq(t) /\ Len(t) = Len(s)
  BY <1>1, <1>3, ShapeSeq
<1> QED  BY <1>2, <1>4 DEF t

(* What MapThenFoldSet takes from a set of positions.                      *)
LEMMA MaxOf ==
  ASSUME NEW S, NEW n \in S, S \subseteq Nat, \A m \in S : m <= n
  PROVE  Max(S) = n
<1>1. \E x \in S : \A y \in S : x >= y
  BY SMT
<1>2. Max(S) \in S /\ \A y \in S : Max(S) >= y
  BY <1>1 DEF Max
<1> HIDE DEF Max
<1>3. Max(S) \in Nat /\ n \in Nat /\ Max(S) >= n /\ Max(S) <= n
  BY <1>2
<1> QED  BY <1>3

(* The largest of the first n + 1 numbers, as the folds take it.           *)
LEMMA MaxOfFirst ==
  ASSUME NEW n \in Nat
  PROVE  Max(1..(n + 1)) = n + 1 /\ (1..(n + 1)) \ {n + 1} = 1..n
<1> DEFINE S == 1..(n + 1)
<1>1. n + 1 \in S /\ S \subseteq Nat /\ \A m \in S : m <= n + 1
  OBVIOUS
<1> HIDE DEF S
<1>2. Max(S) = n + 1
  BY <1>1, MaxOf
<1>3. (1..(n + 1)) \ {n + 1} = 1..n
  OBVIOUS
<1> QED  BY <1>2, <1>3 DEF S

-----------------------------------------------------------------------------
(* FlattenSeq: its recursion has a solution, on the way to the n-th        *)
(* sequence.                                                               *)
FlattenTo(s, f, n) ==
  f = [i \in 1..n |-> IF i = 1 THEN s[i] ELSE f[i-1] \o s[i]]

(* By induction there is a function that obeys the recursion up to n.      *)
LEMMA FlattenExists ==
  ASSUME NEW s, NEW n \in Nat
  PROVE  \E f : FlattenTo(s, f, n)
<1> DEFINE S == {m \in Nat : \E f : FlattenTo(s, f, m)}
<1>1. 0 \in S
  <2>1. FlattenTo(s, [i \in {} |-> i], 0)
    BY DEF FlattenTo
  <2> QED  BY <2>1
<1>2. ASSUME NEW m \in Nat, m \in S
      PROVE  m + 1 \in S
  <2>1. PICK f : FlattenTo(s, f, m)
    BY <1>2
  <2> DEFINE g == [i \in 1..(m + 1) |-> IF i <= m THEN f[i]
                                       ELSE IF i = 1 THEN s[i] ELSE f[i-1] \o s[i]]
  <2>2. ASSUME NEW i \in 1..(m + 1)
        PROVE  g[i] = IF i = 1 THEN s[i] ELSE g[i-1] \o s[i]
    <3>1. CASE i <= m
      <4>1. f[i] = IF i = 1 THEN s[i] ELSE f[i-1] \o s[i]
        <5>1. i \in 1..m
          BY <3>1
        <5> QED  BY <2>1, <5>1 DEF FlattenTo
      <4>2. i # 1 => i - 1 \in 1..(m + 1) /\ i - 1 <= m /\ g[i-1] = f[i-1]
        BY <3>1
      <4> QED  BY <3>1, <4>1, <4>2
    <3>2. CASE i = m + 1
      <4>1. i # 1 => i - 1 \in 1..(m + 1) /\ i - 1 <= m /\ g[i-1] = f[i-1]
        BY <3>2
      <4> QED  BY <3>2, <4>1
    <3> QED  BY <3>1, <3>2
  <2>3. g = [i \in 1..(m + 1) |-> IF i = 1 THEN s[i] ELSE g[i-1] \o s[i]]
    BY <2>2
  <2> HIDE DEF g
  <2>4. FlattenTo(s, g, m + 1)
    BY <2>3 DEF FlattenTo
  <2> QED  BY <2>4
<1> HIDE DEF S
<1>3. n \in S
  BY <1>1, <1>2, SetInduction
<1> QED  BY <1>3 DEF S

(* FlattenSeq is the last value of one.                                    *)
LEMMA FlattenUnfolds ==
  ASSUME NEW s, IsSeq(s), s # <<>>
  PROVE  \E f : FlattenTo(s, f, Len(s)) /\ FlattenSeq(s) = f[Len(s)]
<1>1. Len(s) \in Nat /\ Len(s) # 0
  BY DEF IsSeq
<1> DEFINE F == CHOOSE f : f = [i \in 1..Len(s) |-> IF i = 1 THEN s[i] ELSE f[i-1] \o s[i]]
<1>2. \E f : f = [i \in 1..Len(s) |-> IF i = 1 THEN s[i] ELSE f[i-1] \o s[i]]
  BY <1>1, FlattenExists DEF FlattenTo
<1>3. F = [i \in 1..Len(s) |-> IF i = 1 THEN s[i] ELSE F[i-1] \o s[i]]
  BY <1>2
<1>4. FlattenSeq(s) = F[Len(s)]
  BY <1>1 DEF FlattenSeq
<1> HIDE DEF F
<1> QED  BY <1>3, <1>4 DEF FlattenTo

(* The first m of a sequence of sequences, flattened: where each of them   *)
(* is, and that there is nothing else.                                     *)
Flattened(s, m, r, at) ==
  /\ IsSeq(r)
  /\ at \in [1..(m + 1) -> Nat] /\ at[1] = 0 /\ at[m + 1] = Len(r)
  /\ \A i \in 1..m : at[i + 1] = at[i] + Len(s[i])
  /\ \A i \in 1..m : \A k \in 1..Len(s[i]) :
       at[i] + k \in 1..Len(r) /\ r[at[i] + k] = s[i][k]
  /\ \A p \in 1..Len(r) : \E i \in 1..m : \E k \in 1..Len(s[i]) : p = at[i] + k

(* Nothing flattened has no length.                                        *)
LEMMA FlattenNone ==
  ASSUME NEW s
  PROVE  \E at : Flattened(s, 0, <<>>, at)
<1> DEFINE at == [i \in 1..1 |-> 0]
<1>1. Flattened(s, 0, <<>>, at)
  BY EmptyIsSeq DEF Flattened
<1> QED  BY <1>1

(* One more part behind the others.                                        *)
LEMMA FlattenOneMore ==
  ASSUME NEW s, NEW m \in Nat, NEW r, NEW at, Flattened(s, m, r, at), IsSeq(s[m + 1])
  PROVE  \E all : Flattened(s, m + 1, r \o s[m + 1], all)
<1> DEFINE t == r \o s[m + 1]
           all == [i \in 1..(m + 2) |-> IF i <= m + 1 THEN at[i] ELSE at[m + 1] + Len(s[m + 1])]
<1>1. /\ IsSeq(t) /\ Len(t) = Len(r) + Len(s[m + 1])
      /\ \A k \in 1..Len(r) : t[k] = r[k]
      /\ \A k \in 1..Len(s[m + 1]) : t[Len(r) + k] = s[m + 1][k]
  BY CatShape DEF Flattened
<1> HIDE DEF t
<1>2. Len(r) \in Nat /\ Len(s[m + 1]) \in Nat
  BY SeqShape DEF Flattened
<1>3. /\ at \in [1..(m + 1) -> Nat] /\ at[1] = 0 /\ at[m + 1] = Len(r)
      /\ \A i \in 1..m : at[i + 1] = at[i] + Len(s[i])
  BY DEF Flattened
<1>4. /\ all \in [1..(m + 2) -> Nat] /\ all[m + 2] = Len(t)
      /\ \A i \in 1..(m + 1) : all[i] = at[i]
  BY <1>1, <1>2, <1>3
<1> HIDE DEF all
<1>5. ASSUME NEW i \in 1..(m + 1)
      PROVE  all[i + 1] = all[i] + Len(s[i])
  <2>1. CASE i = m + 1
    <3>1. all[m + 1] = Len(r) /\ all[m + 1 + 1] = Len(t)
      BY <1>3, <1>4
    <3> QED  BY <1>1, <2>1, <3>1
  <2>2. CASE i # m + 1
    <3>1. i \in 1..m /\ i + 1 \in 1..(m + 1)
      BY <2>2
    <3> QED  BY <1>3, <1>4, <3>1
  <2> QED  BY <2>1, <2>2
<1>6. ASSUME NEW i \in 1..(m + 1), NEW k \in 1..Len(s[i])
      PROVE  all[i] + k \in 1..Len(t) /\ t[all[i] + k] = s[i][k]
  <2>1. CASE i = m + 1
    <3>1. all[i] = Len(r) /\ k \in 1..Len(s[m + 1])
      BY <1>3, <1>4, <2>1
    <3> QED  BY <1>1, <1>2, <2>1, <3>1
  <2>2. CASE i # m + 1
    <3>1. i \in 1..m
      BY <2>2
    <3>2. at[i] + k \in 1..Len(r) /\ r[at[i] + k] = s[i][k] /\ all[i] = at[i]
      BY <1>4, <3>1 DEF Flattened
    <3>3. at[i] + k \in 1..Len(t)
      BY <1>1, <1>2, <3>2
    <3> QED  BY <1>1, <3>2, <3>3
  <2> QED  BY <2>1, <2>2
<1>7. ASSUME NEW p \in 1..Len(t)
      PROVE  \E i \in 1..(m + 1) : \E k \in 1..Len(s[i]) : p = all[i] + k
  <2>1. CASE p <= Len(r)
    <3>1. PICK i \in 1..m : \E k \in 1..Len(s[i]) : p = at[i] + k
      BY <1>2, <2>1 DEF Flattened
    <3>2. i \in 1..(m + 1) /\ all[i] = at[i]
      BY <1>4
    <3> QED  BY <3>1, <3>2
  <2>2. CASE p > Len(r)
    <3>1. p - Len(r) \in 1..Len(s[m + 1])
      BY <1>1, <1>2, <2>2
    <3>2. all[m + 1] = Len(r) /\ p = Len(r) + (p - Len(r))
      BY <1>2, <1>3, <1>4
    <3>3. m + 1 \in 1..(m + 1)
      OBVIOUS
    <3> QED  BY <3>1, <3>2, <3>3
  <2> QED  BY <1>1, <1>2, <2>1, <2>2
<1>8. Flattened(s, m + 1, t, all)
  BY <1>1, <1>3, <1>4, <1>5, <1>6, <1>7 DEF Flattened
<1> QED  BY <1>8 DEF t

(* What FlattenSeq returns: every part at its place, one behind the other. *)
LEMMA FlattenShape ==
  ASSUME NEW s, IsSeq(s), \A i \in 1..Len(s) : IsSeq(s[i])
  PROVE  \E at : Flattened(s, Len(s), FlattenSeq(s), at)
<1>1. Len(s) \in Nat /\ (s = <<>> <=> Len(s) = 0)
  BY DEF IsSeq
<1>2. CASE s = <<>>
  <2>1. FlattenSeq(s) = <<>> /\ Len(s) = 0
    BY <1>1, <1>2 DEF FlattenSeq
  <2> QED  BY <2>1, FlattenNone
<1>3. CASE s # <<>>
  <2>1. PICK f : FlattenTo(s, f, Len(s)) /\ FlattenSeq(s) = f[Len(s)]
    BY <1>3, FlattenUnfolds
  <2> DEFINE S == {m \in Nat : m \in 1..Len(s) => \E at : Flattened(s, m, f[m], at)}
  <2>2. 0 \in S
    OBVIOUS
  <2>3. ASSUME NEW m \in Nat, m \in S, m + 1 \in 1..Len(s)
        PROVE  \E at : Flattened(s, m + 1, f[m + 1], at)
    <3>1. PICK r : f[m + 1] = r \o s[m + 1] /\ \E at : Flattened(s, m, r, at)
      <4>1. CASE m = 0
        <5>1. f[1] = s[1]
          BY <1>1, <1>3, <2>1 DEF FlattenTo
        <5>2. s[1] = <<>> \o s[1]
          BY <2>3, <4>1, CatEmpty
        <5>3. f[m + 1] = <<>> \o s[m + 1] /\ \E at : Flattened(s, m, <<>>, at)
          BY <4>1, <5>1, <5>2, FlattenNone
        <5> QED  BY <5>3
      <4>2. CASE m # 0
        <5>1. m \in 1..Len(s) /\ m + 1 # 1 /\ (m + 1) - 1 = m
          BY <1>1, <2>3, <4>2
        <5>2. f[m + 1] = f[m] \o s[m + 1]
          BY <2>1, <2>3, <5>1 DEF FlattenTo
        <5> QED  BY <2>3, <5>1, <5>2
      <4> QED  BY <4>1, <4>2
    <3> QED  BY <2>3, <3>1, FlattenOneMore
  <2>4. Len(s) \in S
    <3>1. ASSUME NEW m \in Nat, m \in S
          PROVE  m + 1 \in S
      <4>1. m + 1 \in Nat
        OBVIOUS
      <4> QED  BY <2>3, <3>1, <4>1
    <3> HIDE DEF S
    <3> QED  BY <1>1, <2>2, <3>1, SetInduction
  <2> QED  BY <1>1, <1>3, <2>1, <2>4
<1> QED  BY <1>2, <1>3

-----------------------------------------------------------------------------
(* Quotient and remainder.                                                 *)
LEMMA Quotient ==
  ASSUME NEW n \in Int, NEW a \in Nat \ {0}
  PROVE  /\ n \div a \in Int /\ n % a \in Nat /\ n % a < a
         /\ n = (n \div a) * a + (n % a)
<1>1. n \div a \in Int /\ n % a \in 0..(a - 1)
  OBVIOUS
<1>2. n % a = n - a * (n \div a)
  OBVIOUS
<1> DEFINE q == n \div a
           r == n % a
<1>3. q \in Int /\ r \in 0..(a - 1) /\ r = n - a * q
  BY <1>1, <1>2
<1> HIDE DEF q, r
<1>4. a * q = q * a /\ q * a \in Int
  BY <1>3
<1>5. q \in Int /\ r \in Nat /\ r < a /\ n = q * a + r
  BY <1>3, <1>4
<1> QED  BY <1>5, Zenon DEF q, r

(* Between differences and sums the provers need this spelled out.         *)
LEMMA AtMost ==
  ASSUME NEW l \in Int, NEW m \in Int, NEW n \in Int, l <= m, m <= n
  PROVE  l <= n
OBVIOUS

(* The same, for a place inside a region.                                  *)
LEMMA Inside ==
  ASSUME NEW d \in Nat, NEW o \in Nat, NEW s \in Nat, NEW z \in Nat, o + s <= z
  PROVE  d + o <= d + z /\ d + o \in Nat
OBVIOUS

(* Of two different multiples the larger is larger by a whole step.        *)
LEMMA ProductOrder ==
  ASSUME NEW q \in Int, NEW r \in Int, NEW a \in Nat \ {0}, q < r
  PROVE  q * a + a <= r * a
<1>1. (r - q - 1) * a >= 0
  OBVIOUS
<1>2. (r - q - 1) * a = r * a - q * a - a
  OBVIOUS
<1>3. r * a \in Int /\ q * a \in Int
  OBVIOUS
<1> QED  BY <1>1, <1>2, <1>3

(* A multiple leaves no remainder.                                         *)
LEMMA MultipleOf ==
  ASSUME NEW q \in Int, NEW a \in Nat \ {0}
  PROVE  (q * a) % a = 0
<1> DEFINE n == q * a
           r == n \div a
<1>1. n \in Int
  OBVIOUS
<1>2. r \in Int /\ n % a \in Nat /\ n % a < a /\ n = r * a + (n % a)
  BY <1>1, Quotient
<1>3. q * a = r * a + (n % a)
  BY <1>2
<1> HIDE DEF n, r
<1>4. r * a \in Int /\ q * a \in Int
  BY <1>2
<1>5. (q < r => q * a + a <= r * a) /\ (r < q => r * a + a <= q * a)
  BY <1>2, ProductOrder
<1>6. r = q => r * a = q * a
  OBVIOUS
<1> DEFINE x == q * a
           y == r * a
           z == n % a
<1>7. x \in Int /\ y \in Int /\ z \in Nat /\ z < a /\ x = y + z
  <2>1. x \in Int /\ y \in Int
    BY <1>4
  <2>2. z \in Nat /\ z < a
    BY <1>2
  <2>3. x = y + z
    BY <1>3, Zenon
  <2> QED  BY <2>1, <2>2, <2>3
<1>8. (q < r => x + a <= y) /\ (r < q => y + a <= x) /\ (r = q => y = x)
  BY <1>5, <1>6
<1> HIDE DEF x, y, z
<1>9. z = 0
  BY <1>2, <1>7, <1>8
<1> QED  BY <1>9 DEF n, z

(* What leaves no remainder is a multiple.                                 *)
LEMMA Multiples ==
  ASSUME NEW n \in Int, NEW a \in Nat \ {0}, n % a = 0
  PROVE  \E q \in Int : n = q * a
<1>1. n \div a \in Int /\ n = (n \div a) * a + (n % a)
  BY Quotient
<1>2. (n \div a) * a \in Int
  BY <1>1
<1>3. n = (n \div a) * a
  BY <1>1, <1>2
<1> QED  BY <1>1, <1>3

(* Sums and differences of multiples are multiples.                        *)
LEMMA SumOfMultiples ==
  ASSUME NEW m \in Int, NEW n \in Int, NEW a \in Nat \ {0}, m % a = 0, n % a = 0
  PROVE  (m + n) % a = 0 /\ (m - n) % a = 0
<1>1. PICK q \in Int : m = q * a
  BY Multiples
<1>2. PICK r \in Int : n = r * a
  BY Multiples
<1>3. m + n = (q + r) * a /\ m - n = (q - r) * a
  BY <1>1, <1>2
<1>4. q + r \in Int /\ q - r \in Int
  OBVIOUS
<1>5. ((q + r) * a) % a = 0 /\ ((q - r) * a) % a = 0
  BY <1>4, MultipleOf
<1> QED  BY <1>3, <1>5

(* A multiple of a multiple of p is a multiple of p.                       *)
LEMMA MultipleOfMultiple ==
  ASSUME NEW n \in Int, NEW a \in Nat \ {0}, NEW p \in Nat \ {0}, n % a = 0, a % p = 0
  PROVE  n % p = 0
<1>1. PICK q \in Int : n = q * a
  BY Multiples
<1>2. PICK r \in Int : a = r * p
  BY Multiples
<1>3. n = (q * r) * p
  BY <1>1, <1>2
<1>4. q * r \in Int
  OBVIOUS
<1>5. ((q * r) * p) % p = 0
  BY <1>4, MultipleOf
<1> QED  BY <1>3, <1>5
=============================================================================
