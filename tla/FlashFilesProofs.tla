-------------------------- MODULE FlashFilesProofs --------------------------
(***************************************************************************)
(* Proofs about FlashFiles.                                                *)
(***************************************************************************)
EXTENDS FlashFiles, SequenceFacts, FiniteSetTheorems

-----------------------------------------------------------------------------
(* Sequences: who is in them after they were flattened, selected or made.  *)

LEMMA ListIsSeq ==
  ASSUME NEW s
  PROVE  IsList(s) <=> IsSeq(s)
BY DEF IsList, IsSeq, ToSet

LEMMA Members ==
  ASSUME NEW s, IsSeq(s)
  PROVE  \A x : x \in ToSet(s) <=> \E k \in 1..Len(s) : x = s[k]
BY SeqShape DEF ToSet

LEMMA FlattenMembers ==
  ASSUME NEW s, IsSeq(s), \A i \in 1..Len(s) : IsSeq(s[i])
  PROVE  /\ IsSeq(FlattenSeq(s))
         /\ \A x : x \in ToSet(FlattenSeq(s)) <=> \E i \in 1..Len(s) : x \in ToSet(s[i])
<1> DEFINE r == FlattenSeq(s)
<1>1. PICK pos : Flattened(s, Len(s), r, pos)
  BY FlattenShape
<1> HIDE DEF r
<1>2. IsSeq(r)
  BY <1>1 DEF Flattened
<1>3. ASSUME NEW x, x \in ToSet(r)
      PROVE  \E i \in 1..Len(s) : x \in ToSet(s[i])
  <2>1. PICK p \in 1..Len(r) : x = r[p]
    BY <1>2, <1>3, Members
  <2>2. PICK i \in 1..Len(s) : \E k \in 1..Len(s[i]) : p = pos[i] + k
    BY <1>1, <2>1 DEF Flattened
  <2>3. PICK k \in 1..Len(s[i]) : p = pos[i] + k
    BY <2>2
  <2>4. r[p] = s[i][k]
    BY <1>1, <2>3 DEF Flattened
  <2> QED  BY <2>1, <2>4, Members
<1>4. ASSUME NEW i \in 1..Len(s), NEW x \in ToSet(s[i])
      PROVE  x \in ToSet(r)
  <2>1. PICK k \in 1..Len(s[i]) : x = s[i][k]
    BY Members
  <2>2. pos[i] + k \in 1..Len(r) /\ r[pos[i] + k] = s[i][k]
    BY <1>1 DEF Flattened
  <2> QED  BY <1>2, <2>1, <2>2, Members
<1> QED  BY <1>2, <1>3, <1>4 DEF r

(* What is in one sequence or the other.                                   *)
LEMMA CatMembers ==
  ASSUME NEW s, NEW t, IsSeq(s), IsSeq(t)
  PROVE  IsSeq(s \o t) /\ ToSet(s \o t) = ToSet(s) \cup ToSet(t)
<1> DEFINE u == s \o t
<1>1. /\ IsSeq(u) /\ Len(u) = Len(s) + Len(t)
      /\ \A k \in 1..(Len(s) + Len(t)) : u[k] = IF k <= Len(s) THEN s[k] ELSE t[k - Len(s)]
      /\ \A k \in 1..Len(s) : u[k] = s[k]
      /\ \A k \in 1..Len(t) : u[Len(s) + k] = t[k]
  BY CatShape
<1> HIDE DEF u
<1>2. Len(s) \in Nat /\ Len(t) \in Nat
  BY SeqShape
<1>3. \A x : /\ x \in ToSet(s) <=> \E k \in 1..Len(s) : x = s[k]
             /\ x \in ToSet(t) <=> \E k \in 1..Len(t) : x = t[k]
             /\ x \in ToSet(u) <=> \E k \in 1..Len(u) : x = u[k]
  BY <1>1, Members
<1>4. ASSUME NEW x \in ToSet(u)
      PROVE  x \in ToSet(s) \/ x \in ToSet(t)
  <2>1. PICK k \in 1..Len(u) : x = u[k]
    BY <1>3
  <2>2. CASE k <= Len(s)
    <3>1. k \in 1..Len(s) /\ x = s[k]
      BY <1>1, <1>2, <2>1, <2>2
    <3> QED  BY <1>3, <3>1
  <2>3. CASE ~(k <= Len(s))
    <3>1. k - Len(s) \in 1..Len(t) /\ x = t[k - Len(s)]
      BY <1>1, <1>2, <2>1, <2>3
    <3> QED  BY <1>3, <3>1
  <2> QED  BY <2>2, <2>3
<1>5. ASSUME NEW x \in ToSet(s)
      PROVE  x \in ToSet(u)
  <2>1. PICK k \in 1..Len(s) : x = s[k]
    BY <1>3
  <2>2. k \in 1..Len(u) /\ x = u[k]
    BY <1>1, <1>2, <2>1
  <2> QED  BY <1>3, <2>2
<1>6. ASSUME NEW x \in ToSet(t)
      PROVE  x \in ToSet(u)
  <2>1. PICK k \in 1..Len(t) : x = t[k]
    BY <1>3
  <2>2. Len(s) + k \in 1..Len(u) /\ x = u[Len(s) + k]
    BY <1>1, <1>2, <2>1
  <2> QED  BY <1>3, <2>2
<1> QED  BY <1>1, <1>4, <1>5, <1>6 DEF u

(* A sequence that is made of one by a function of the place.              *)
LEMMA MadeSeq ==
  ASSUME NEW s, IsSeq(s), NEW t, DOMAIN t = DOMAIN s, t = [i \in DOMAIN s |-> t[i]]
  PROVE  IsSeq(t) /\ Len(t) = Len(s) /\ DOMAIN t = 1..Len(s)
<1>1. Len(s) \in Nat /\ DOMAIN s = 1..Len(s)
  BY SeqShape
<1> QED  BY <1>1, ShapeSeq

LEMMA OneSeq ==
  ASSUME NEW x
  PROVE  IsSeq(<<x>>) /\ Len(<<x>>) = 1 /\ <<x>>[1] = x /\ ToSet(<<x>>) = {x}
<1>1. <<x>> \in Seq({x}) /\ Len(<<x>>) = 1 /\ <<x>>[1] = x /\ DOMAIN <<x>> = {1}
  OBVIOUS
<1>2. IsSeq(<<x>>)
  BY <1>1, InSeq
<1>3. ToSet(<<x>>) = {x}
  BY <1>1 DEF ToSet
<1> QED  BY <1>1, <1>2, <1>3

LEMMA NoSeq == IsSeq(<<>>) /\ Len(<<>>) = 0 /\ ToSet(<<>>) = {}
BY EmptyIsSeq DEF ToSet

LEMMA SelectMembers ==
  ASSUME NEW s, NEW S, IsSeq(s)
  PROVE  IsSeq(Select(s, S)) /\ ToSet(Select(s, S)) = ToSet(s) \cap S
<1> DEFINE z == [i \in DOMAIN s |-> IF s[i] \in S THEN <<s[i]>> ELSE <<>>]
<1>1. IsSeq(z) /\ Len(z) = Len(s) /\ DOMAIN s = 1..Len(s)
  BY MadeSeq, SeqShape
<1>2. \A i \in 1..Len(s) : z[i] = IF s[i] \in S THEN <<s[i]>> ELSE <<>>
  BY <1>1
<1>3. Select(s, S) = FlattenSeq(z)
  BY DEF Select
<1> HIDE DEF z
<1>4. \A i \in 1..Len(z) : IsSeq(z[i])
  BY <1>1, <1>2, OneSeq, NoSeq
<1>5. /\ IsSeq(FlattenSeq(z))
      /\ \A x : x \in ToSet(FlattenSeq(z)) <=> \E i \in 1..Len(z) : x \in ToSet(z[i])
  BY <1>1, <1>4, FlattenMembers
<1>6. \A i \in 1..Len(s) : ToSet(z[i]) = IF s[i] \in S THEN {s[i]} ELSE {}
  BY <1>2, OneSeq, NoSeq
<1>7. \A x : x \in ToSet(s) <=> \E k \in 1..Len(s) : x = s[k]
  BY Members
<1>8. \A x : x \in ToSet(FlattenSeq(z)) <=> x \in ToSet(s) /\ x \in S
  <2> SUFFICES ASSUME NEW x
               PROVE  x \in ToSet(FlattenSeq(z)) <=> x \in ToSet(s) /\ x \in S
    OBVIOUS
  <2>1. \A i \in 1..Len(s) : x \in ToSet(z[i]) <=> s[i] \in S /\ x = s[i]
    BY <1>6
  <2>2. x \in ToSet(FlattenSeq(z)) <=> \E i \in 1..Len(s) : x \in ToSet(z[i])
    BY <1>1, <1>5
  <2> QED  BY <1>7, <2>1, <2>2
<1> QED  BY <1>3, <1>5, <1>8

LEMMA UniqueMembers ==
  ASSUME NEW s, IsSeq(s)
  PROVE  IsSeq(Unique(s)) /\ ToSet(Unique(s)) = ToSet(s)
<1> DEFINE z == [i \in DOMAIN s |-> IF \E j \in 1..(i - 1) : s[j] = s[i] THEN <<>> ELSE <<s[i]>>]
<1>1. IsSeq(z) /\ Len(z) = Len(s) /\ DOMAIN s = 1..Len(s) /\ Len(s) \in Nat
  BY MadeSeq, SeqShape
<1>2. \A i \in 1..Len(s) : z[i] = IF \E j \in 1..(i - 1) : s[j] = s[i] THEN <<>> ELSE <<s[i]>>
  BY <1>1
<1>3. Unique(s) = FlattenSeq(z)
  BY DEF Unique
<1> HIDE DEF z
<1>4. \A i \in 1..Len(z) : IsSeq(z[i])
  <2> SUFFICES ASSUME NEW i \in 1..Len(s)
               PROVE  IsSeq(z[i])
    BY <1>1
  <2>1. z[i] = <<>> \/ z[i] = <<s[i]>>
    BY <1>2
  <2> QED  BY <2>1, OneSeq, NoSeq
<1>5. /\ IsSeq(FlattenSeq(z))
      /\ \A x : x \in ToSet(FlattenSeq(z)) <=> \E i \in 1..Len(z) : x \in ToSet(z[i])
  BY <1>1, <1>4, FlattenMembers
<1>6. \A i \in 1..Len(s) : ToSet(z[i]) = IF \E j \in 1..(i - 1) : s[j] = s[i] THEN {} ELSE {s[i]}
  BY <1>2, OneSeq, NoSeq
<1>7. ASSUME NEW x \in ToSet(s)
      PROVE  x \in ToSet(FlattenSeq(z))
  <2> DEFINE P == {k \in 1..Len(s) : s[k] = x}
  <2>1. P # {} /\ P \subseteq Nat
    BY <1>1, Members
  <2>2. PICK k \in P : \A m \in P : k <= m
    BY <2>1, LeastNumber
  <2>3. k \in 1..Len(s) /\ s[k] = x
    OBVIOUS
  <2>4. ~ \E j \in 1..(k - 1) : s[j] = s[k]
    BY <1>1, <2>2, <2>3
  <2>5. ToSet(z[k]) = {x}
    BY <1>6, <2>3, <2>4
  <2> QED  BY <1>1, <1>5, <2>3, <2>5
<1>8. ASSUME NEW x \in ToSet(FlattenSeq(z))
      PROVE  x \in ToSet(s)
  <2>1. PICK i \in 1..Len(s) : x \in ToSet(z[i])
    BY <1>1, <1>5
  <2>2. x = s[i]
    BY <1>6, <2>1
  <2> QED  BY <2>2, Members
<1> QED  BY <1>3, <1>5, <1>7, <1>8

(* What is in a sequence is finitely many.                                 *)
LEMMA ToSetFinite ==
  ASSUME NEW s, IsSeq(s)
  PROVE  IsFiniteSet(ToSet(s))
<1>1. Len(s) \in Nat /\ DOMAIN s = 1..Len(s) /\ s = [k \in 1..Len(s) |-> s[k]]
  BY SeqShape
<1>2. s \in Surjection(1..Len(s), ToSet(s))
  BY <1>1 DEF Surjection, ToSet
<1>3. IsFiniteSet(1..Len(s))
  BY <1>1, FS_Interval
<1> QED  BY <1>2, <1>3, FS_Surjection

(* A set as a sequence has the elements of the set.                        *)
LEMMA SetToSeqMembers ==
  ASSUME NEW S, IsFiniteSet(S)
  PROVE  IsSeq(SetToSeq(S)) /\ ToSet(SetToSeq(S)) = S
<1> DEFINE n == Cardinality(S)
           f == SetToSeq(S)
<1>1. n \in Nat /\ ExistsBijection(1..n, S)
  BY FS_CardinalityType
<1>2. \E g : g \in [1..n -> S] /\ IsInjective(g)
  BY <1>1 DEF ExistsBijection, Bijection, Injection
<1>3. f \in [1..n -> S] /\ IsInjective(f)
  BY <1>2 DEF SetToSeq
<1> HIDE DEF f
<1>4. f \in Injection(1..n, S)
  BY <1>3 DEF Injection
<1>5. Cardinality(1..n) = n
  BY <1>1, FS_Interval
<1>6. f \in Surjection(1..n, S)
  BY <1>4, <1>5, FS_Injection
<1>7. f = [k \in 1..n |-> f[k]]
  BY <1>3
<1>8. IsSeq(f)
  BY <1>1, <1>7, ShapeSeq
<1>9. ToSet(f) = S
  BY <1>3, <1>6 DEF ToSet, Surjection
<1> QED  BY <1>8, <1>9 DEF f

(* Of different elements no two are selected as the same.                  *)
LEMMA SelectInjective ==
  ASSUME NEW s, NEW S, IsSeq(s), \A i, j \in 1..Len(s) : s[i] = s[j] => i = j
  PROVE  \A p, q \in 1..Len(Select(s, S)) : Select(s, S)[p] = Select(s, S)[q] => p = q
<1> DEFINE z == [i \in DOMAIN s |-> IF s[i] \in S THEN <<s[i]>> ELSE <<>>]
           r == FlattenSeq(z)
<1>1. IsSeq(z) /\ Len(z) = Len(s) /\ DOMAIN s = 1..Len(s)
  BY MadeSeq, SeqShape
<1>2. \A i \in 1..Len(s) : z[i] = IF s[i] \in S THEN <<s[i]>> ELSE <<>>
  BY <1>1
<1>3. Select(s, S) = r
  BY DEF Select
<1> HIDE DEF z
<1>4. ASSUME NEW i \in 1..Len(z)
      PROVE  IsSeq(z[i]) /\ \A k \in 1..Len(z[i]) : k = 1 /\ z[i][k] = s[i]
  <2>1. CASE s[i] \in S
    <3>1. z[i] = <<s[i]>>
      BY <1>1, <1>2, <2>1
    <3> QED  BY <3>1, OneSeq
  <2>2. CASE s[i] \notin S
    <3>1. z[i] = <<>>
      BY <1>1, <1>2, <2>2
    <3> QED  BY <3>1, NoSeq
  <2> QED  BY <2>1, <2>2
<1>5. PICK pos : Flattened(z, Len(z), r, pos)
  BY <1>1, <1>4, FlattenShape
<1> HIDE DEF r
<1>6. ASSUME NEW p \in 1..Len(r)
      PROVE  \E i \in 1..Len(s) : p = pos[i] + 1 /\ r[p] = s[i]
  <2>1. PICK i \in 1..Len(z) : \E k \in 1..Len(z[i]) : p = pos[i] + k
    BY <1>5 DEF Flattened
  <2>2. PICK k \in 1..Len(z[i]) : p = pos[i] + k
    BY <2>1
  <2>3. k = 1 /\ z[i][k] = s[i]
    BY <1>4, <2>2
  <2>4. r[pos[i] + k] = z[i][k]
    BY <1>5, <2>2 DEF Flattened
  <2> QED  BY <1>1, <2>2, <2>3, <2>4
<1>7. ASSUME NEW p \in 1..Len(r), NEW q \in 1..Len(r), r[p] = r[q]
      PROVE  p = q
  <2>1. PICK i \in 1..Len(s) : p = pos[i] + 1 /\ r[p] = s[i]
    BY <1>6
  <2>2. PICK j \in 1..Len(s) : q = pos[j] + 1 /\ r[q] = s[j]
    BY <1>6
  <2>3. i = j
    BY <1>7, <2>1, <2>2
  <2> QED  BY <2>1, <2>2, <2>3
<1> QED  BY <1>3, <1>7

(* The first element that is in a set, if there is one.                    *)
FirstIn(s, S) == SelectInSeq(s, LAMBDA x : x \in S)

LEMMA FirstInIs ==
  ASSUME NEW s, NEW S, IsSeq(s)
  PROVE  /\ FirstIn(s, S) = 0 => \A i \in 1..Len(s) : s[i] \notin S
         /\ FirstIn(s, S) # 0 => /\ FirstIn(s, S) \in 1..Len(s) /\ s[FirstIn(s, S)] \in S
                                 /\ \A i \in 1..(FirstIn(s, S) - 1) : s[i] \notin S
<1> DEFINE I == {i \in 1..Len(s) : s[i] \in S}
           k == IF I # {} THEN Min(I) ELSE 0
<1>1. Len(s) \in Nat
  BY SeqShape
<1>2. I \subseteq Nat /\ \A i \in I : i # 0
  BY <1>1
<1>3. ASSUME I # {}
      PROVE  Min(I) \in I /\ \A m \in I : Min(I) <= m
  <2>1. \E n \in I : \A m \in I : n <= m
    BY <1>2, <1>3, LeastNumber
  <2> HIDE DEF I
  <2> QED  BY <2>1 DEF Min
<1>4. k = 0 => \A i \in 1..Len(s) : s[i] \notin S
  BY <1>2, <1>3
<1>5. k # 0 => k \in I /\ \A m \in I : k <= m
  BY <1>2, <1>3
<1>6. k # 0 => /\ k \in 1..Len(s) /\ s[k] \in S
               /\ \A i \in 1..(k - 1) : s[i] \notin S
  <2> HAVE k # 0
  <2>1. k \in 1..Len(s) /\ s[k] \in S /\ \A m \in 1..Len(s) : s[m] \in S => k <= m
    BY <1>5
  <2> HIDE DEF k
  <2> QED  BY <1>1, <2>1
<1>7. FirstIn(s, S) = k
  BY DEF FirstIn, SelectInSeq
<1> HIDE DEF k
<1> QED  BY <1>4, <1>6, <1>7

(* A result that has its name alone is found.                              *)
LEMMA FoundIs ==
  ASSUME NEW i, IsSeq(results), i \in DOMAIN results,
         \A j \in DOMAIN results : results[j].name = results[i].name => j = i
  PROVE  Found(results[i].name) = i
<1> DEFINE n == results[i].name
           I == {j \in 1..Len(results) : results[j].name = n}
<1>1. Len(results) \in Nat /\ DOMAIN results = 1..Len(results)
  BY SeqShape
<1>2. I = {i}
  BY <1>1
<1>3. Found(n) = IF I # {} THEN Min(I) ELSE 0
  BY DEF Found, SelectInSeq
<1> HIDE DEF I
<1>4. Min({i}) = i
  BY <1>1 DEF Min
<1> QED  BY <1>2, <1>3, <1>4

(* A name that is not found is not there; one that is is where it is found.*)
LEMMA FoundOrNot ==
  ASSUME NEW n, IsSeq(results)
  PROVE  /\ Found(n) = 0 => \A i \in DOMAIN results : results[i].name # n
         /\ Found(n) # 0 => Found(n) \in DOMAIN results /\ results[Found(n)].name = n
<1> DEFINE S == {r \in ToSet(results) : r.name = n}
           k == FirstIn(results, S)
<1>1. Len(results) \in Nat /\ DOMAIN results = 1..Len(results)
  BY SeqShape
<1>2. \A i \in 1..Len(results) : results[i] \in S <=> results[i].name = n
  BY <1>1 DEF ToSet
<1>3. {j \in 1..Len(results) : results[j].name = n} = {j \in 1..Len(results) : results[j] \in S}
  BY <1>2
<1>4. Found(n) = k
  BY <1>3 DEF Found, FirstIn, SelectInSeq
<1>5. /\ k = 0 => \A i \in 1..Len(results) : results[i] \notin S
      /\ k # 0 => k \in 1..Len(results) /\ results[k] \in S
  BY FirstInIs
<1> HIDE DEF k
<1> QED  BY <1>1, <1>2, <1>4, <1>5

(* Of rows with a short name, the first with it.                           *)
LEMMA FirstIs ==
  ASSUME NEW rows, IsSeq(rows), NEW s \in ShortsOf(rows)
  PROVE  First(rows, s) \in ToSet(rows) /\ Short[First(rows, s).file] = s
<1> DEFINE S == {r \in ToSet(rows) : Short[r.file] = s}
           k == FirstIn(rows, S)
<1>1. Len(rows) \in Nat /\ DOMAIN rows = 1..Len(rows)
  BY SeqShape
<1>2. \A i \in 1..Len(rows) : rows[i] \in S <=> Short[rows[i].file] = s
  BY <1>1 DEF ToSet
<1>3. {j \in 1..Len(rows) : Short[rows[j].file] = s} = {j \in 1..Len(rows) : rows[j] \in S}
  BY <1>2
<1>4. First(rows, s) = rows[k]
  BY <1>3 DEF First, FirstIn, SelectInSeq
<1>5. /\ k = 0 => \A i \in 1..Len(rows) : rows[i] \notin S
      /\ k # 0 => k \in 1..Len(rows) /\ rows[k] \in S
  BY FirstInIs
<1>6. \E i \in 1..Len(rows) : Short[rows[i].file] = s
  BY <1>1 DEF ShortsOf, ToSet
<1> HIDE DEF k
<1>7. rows[k] \in S
  BY <1>2, <1>5, <1>6
<1> QED  BY <1>4, <1>7

-----------------------------------------------------------------------------
(* What is selected when all of it is in one place.                        *)
WindowAt(s, S, c, lo) ==
  /\ lo \in Nat /\ lo + Len(c) <= Len(s)
  /\ \A k \in 1..Len(c) : s[lo + k] = c[k] /\ c[k] \in S
  /\ \A p \in 1..Len(s) : s[p] \in S => lo < p /\ p <= lo + Len(c)

Window(s, S, c) == \E lo \in Nat : WindowAt(s, S, c, lo)

(* How many are selected of those before the i-th.                         *)
Before(i, lo, n) == IF i <= lo + 1 THEN 0 ELSE IF i <= lo + n + 1 THEN i - 1 - lo ELSE n

LEMMA BeforeNext ==
  ASSUME NEW i \in Nat \ {0}, NEW lo \in Nat, NEW n \in Nat
  PROVE  Before(i + 1, lo, n) = Before(i, lo, n) + IF lo < i /\ i <= lo + n THEN 1 ELSE 0
<1>1. CASE i <= lo
  BY <1>1 DEF Before
<1>2. CASE lo < i /\ i <= lo + n
  BY <1>2 DEF Before
<1>3. CASE lo + n < i
  BY <1>3 DEF Before
<1> QED  BY <1>1, <1>2, <1>3

Counts(pos, len, lo, n) ==
  /\ lo + n <= len
  /\ pos \in [1..(len + 1) -> Nat] /\ pos[1] = 0
  /\ \A i \in 1..len : pos[i + 1] = pos[i] + IF lo < i /\ i <= lo + n THEN 1 ELSE 0

LEMMA CountWindow ==
  ASSUME NEW pos, NEW len \in Nat, NEW lo \in Nat, NEW n \in Nat, Counts(pos, len, lo, n)
  PROVE  \A i \in 1..(len + 1) : pos[i] = Before(i, lo, n)
<1> DEFINE Q == {m \in Nat : m <= len => pos[m + 1] = Before(m + 1, lo, n)}
<1> USE DEF Counts
<1>1. 0 \in Q
  BY DEF Before
<1>2. ASSUME NEW m \in Nat, m \in Q
      PROVE  m + 1 \in Q
  <2> SUFFICES ASSUME m + 1 <= len
               PROVE  pos[m + 2] = Before(m + 2, lo, n)
    OBVIOUS
  <2>1. pos[m + 1] = Before(m + 1, lo, n)
    BY <1>2
  <2>2. m + 1 \in 1..len /\ m + 1 \in Nat \ {0} /\ (m + 1) + 1 = m + 2
    OBVIOUS
  <2>3. pos[m + 2] = pos[m + 1] + IF lo < m + 1 /\ m + 1 <= lo + n THEN 1 ELSE 0
    BY <2>2
  <2>4. Before((m + 1) + 1, lo, n)
          = Before(m + 1, lo, n) + IF lo < m + 1 /\ m + 1 <= lo + n THEN 1 ELSE 0
    BY <2>2, BeforeNext
  <2> QED  BY <2>1, <2>2, <2>3, <2>4
<1> HIDE DEF Q
<1>3. \A m \in Nat : m \in Q
  BY <1>1, <1>2, SetInduction
<1>4. ASSUME NEW i \in 1..(len + 1)
      PROVE  pos[i] = Before(i, lo, n)
  <2>1. i - 1 \in Nat /\ i - 1 <= len /\ (i - 1) + 1 = i
    OBVIOUS
  <2>2. i - 1 \in Q
    BY <1>3, <2>1
  <2> QED  BY <2>1, <2>2 DEF Q
<1> QED  BY <1>4

LEMMA SelectWindow ==
  ASSUME NEW s, NEW S, NEW c, IsSeq(s), IsSeq(c), Window(s, S, c)
  PROVE  Select(s, S) = c
<1> DEFINE z == [i \in DOMAIN s |-> IF s[i] \in S THEN <<s[i]>> ELSE <<>>]
           r == FlattenSeq(z)
           n == Len(c)
           len == Len(s)
<1>1. IsSeq(z) /\ Len(z) = len /\ DOMAIN s = 1..len /\ len \in Nat /\ n \in Nat
  BY MadeSeq, SeqShape
<1>2. \A i \in 1..len : z[i] = IF s[i] \in S THEN <<s[i]>> ELSE <<>>
  BY <1>1
<1>3. Select(s, S) = r
  BY DEF Select
<1> HIDE DEF z
<1>4. ASSUME NEW i \in 1..len
      PROVE  /\ IsSeq(z[i]) /\ Len(z[i]) = IF s[i] \in S THEN 1 ELSE 0
             /\ s[i] \in S => z[i][1] = s[i]
  <2>1. CASE s[i] \in S
    BY <1>2, <2>1, OneSeq
  <2>2. CASE s[i] \notin S
    BY <1>2, <2>2, NoSeq
  <2> QED  BY <2>1, <2>2
<1>5. PICK pos : Flattened(z, len, r, pos)
  BY <1>1, <1>4, FlattenShape
<1> HIDE DEF r
<1>6. PICK lo \in Nat : WindowAt(s, S, c, lo)
  BY DEF Window
<1> HIDE DEF n, len
<1>7. /\ lo + n <= len
      /\ \A k \in 1..n : s[lo + k] = c[k] /\ c[k] \in S
      /\ \A p \in 1..len : s[p] \in S <=> lo < p /\ p <= lo + n
  <2>1. /\ lo + n <= len
        /\ \A k \in 1..n : s[lo + k] = c[k] /\ c[k] \in S
        /\ \A p \in 1..len : s[p] \in S => lo < p /\ p <= lo + n
    BY <1>6 DEF WindowAt, n, len
  <2>2. ASSUME NEW p \in 1..len, lo < p, p <= lo + n
        PROVE  s[p] \in S
    <3>1. p - lo \in 1..n /\ lo + (p - lo) = p
      BY <1>1, <2>2
    <3> QED  BY <2>1, <3>1
  <2> QED  BY <2>1, <2>2
<1>8. /\ pos \in [1..(len + 1) -> Nat] /\ pos[1] = 0 /\ pos[len + 1] = Len(r) /\ IsSeq(r)
      /\ \A i \in 1..len : pos[i + 1] = pos[i] + Len(z[i])
      /\ \A i \in 1..len : \A k \in 1..Len(z[i]) : r[pos[i] + k] = z[i][k]
  BY <1>5 DEF Flattened
<1>9. \A i \in 1..len : pos[i + 1] = pos[i] + IF lo < i /\ i <= lo + n THEN 1 ELSE 0
  BY <1>4, <1>7, <1>8
<1>10. \A i \in 1..(len + 1) : pos[i] = Before(i, lo, n)
  <2>1. len \in Nat /\ n \in Nat
    BY <1>1 DEF len, n
  <2>2. Counts(pos, len, lo, n)
    BY <1>7, <1>8, <1>9 DEF Counts
  <2> QED  BY <2>1, <2>2, CountWindow
<1>11. Len(r) = n
  <2>1. len \in Nat /\ n \in Nat
    BY <1>1 DEF len, n
  <2>2. Before(len + 1, lo, n) = n
    BY <1>7, <2>1 DEF Before
  <2> QED  BY <1>8, <1>10, <2>1, <2>2
<1>12. ASSUME NEW k \in 1..n
       PROVE  r[k] = c[k]
  <2>1. lo + k \in 1..len /\ s[lo + k] = c[k] /\ s[lo + k] \in S
    BY <1>1, <1>7
  <2>2. pos[lo + k] = k - 1
    BY <1>1, <1>10, <2>1 DEF Before
  <2>3. Len(z[lo + k]) = 1 /\ z[lo + k][1] = s[lo + k]
    BY <1>4, <2>1
  <2>4. r[(k - 1) + 1] = z[lo + k][1]
    <3>1. 1 \in 1..Len(z[lo + k])
      BY <2>3
    <3>2. r[pos[lo + k] + 1] = z[lo + k][1]
      BY <1>8, <2>1, <3>1
    <3> QED  BY <2>2, <3>2
  <2> QED  BY <1>1, <2>1, <2>3, <2>4
<1>13. r = c
  BY <1>8, <1>11, <1>12, SeqSame DEF n
<1> QED  BY <1>3, <1>13

(* Something else behind it, or in front.                                  *)
LEMMA WindowBehind ==
  ASSUME NEW s, NEW t, NEW S, NEW c, IsSeq(s), IsSeq(t), IsSeq(c), Window(s, S, c),
         \A k \in 1..Len(t) : t[k] \notin S
  PROVE  Window(s \o t, S, c)
<1> DEFINE u == s \o t
<1>1. PICK lo \in Nat : WindowAt(s, S, c, lo)
  BY DEF Window
<1>2. Len(s) \in Nat /\ Len(t) \in Nat /\ Len(c) \in Nat
  BY SeqShape
<1>3. /\ Len(u) = Len(s) + Len(t)
      /\ \A k \in 1..(Len(s) + Len(t)) : u[k] = IF k <= Len(s) THEN s[k] ELSE t[k - Len(s)]
  BY CatShape
<1> HIDE DEF u
<1>4. \A p \in 1..Len(u) : u[p] \in S => p \in 1..Len(s) /\ u[p] = s[p]
  BY <1>2, <1>3
<1>5. \A k \in 1..Len(c) : u[lo + k] = s[lo + k]
  BY <1>1, <1>2, <1>3 DEF WindowAt
<1>6. WindowAt(u, S, c, lo)
  BY <1>1, <1>2, <1>3, <1>4, <1>5 DEF WindowAt
<1> QED  BY <1>6 DEF Window, u

LEMMA WindowInFront ==
  ASSUME NEW s, NEW t, NEW S, NEW c, IsSeq(s), IsSeq(t), IsSeq(c), Window(t, S, c),
         \A k \in 1..Len(s) : s[k] \notin S
  PROVE  Window(s \o t, S, c)
<1> DEFINE u == s \o t
<1>1. PICK lo \in Nat : WindowAt(t, S, c, lo)
  BY DEF Window
<1>2. Len(s) \in Nat /\ Len(t) \in Nat /\ Len(c) \in Nat
  BY SeqShape
<1>3. /\ Len(u) = Len(s) + Len(t)
      /\ \A k \in 1..(Len(s) + Len(t)) : u[k] = IF k <= Len(s) THEN s[k] ELSE t[k - Len(s)]
  BY CatShape
<1> HIDE DEF u
<1>4. \A p \in 1..Len(u) : u[p] \in S => p - Len(s) \in 1..Len(t) /\ u[p] = t[p - Len(s)]
  BY <1>2, <1>3
<1>5. \A k \in 1..Len(c) : u[(Len(s) + lo) + k] = t[lo + k]
  <2> SUFFICES ASSUME NEW k \in 1..Len(c)
               PROVE  u[(Len(s) + lo) + k] = t[lo + k]
    OBVIOUS
  <2>1. lo + k <= Len(t)
    BY <1>1, <1>2 DEF WindowAt
  <2>2. /\ (Len(s) + lo) + k \in 1..(Len(s) + Len(t)) /\ ~((Len(s) + lo) + k <= Len(s))
        /\ ((Len(s) + lo) + k) - Len(s) = lo + k
    BY <1>2, <2>1
  <2> QED  BY <1>3, <2>2
<1>6. ASSUME NEW p \in 1..Len(u), u[p] \in S
      PROVE  Len(s) + lo < p /\ p <= (Len(s) + lo) + Len(c)
  <2>1. p - Len(s) \in 1..Len(t) /\ t[p - Len(s)] \in S
    BY <1>4, <1>6
  <2>2. lo < p - Len(s) /\ p - Len(s) <= lo + Len(c)
    BY <1>1, <2>1 DEF WindowAt
  <2> QED  BY <1>2, <1>3, <2>2
<1>7. \A k \in 1..Len(c) : u[(Len(s) + lo) + k] = c[k] /\ c[k] \in S
  BY <1>1, <1>5 DEF WindowAt
<1>8. Len(s) + lo \in Nat /\ (Len(s) + lo) + Len(c) <= Len(u)
  BY <1>1, <1>2, <1>3 DEF WindowAt
<1>9. WindowAt(u, S, c, Len(s) + lo)
  BY <1>6, <1>7, <1>8 DEF WindowAt
<1> QED  BY <1>8, <1>9 DEF Window, u

(* One of several sequences, when no other has anything selected.          *)
LEMMA WindowFlatten ==
  ASSUME NEW s, IsSeq(s), \A i \in 1..Len(s) : IsSeq(s[i]), NEW S, NEW j \in 1..Len(s),
         \A k \in 1..Len(s[j]) : s[j][k] \in S,
         \A i \in 1..Len(s) : i # j => \A k \in 1..Len(s[i]) : s[i][k] \notin S
  PROVE  Window(FlattenSeq(s), S, s[j])
<1> DEFINE r == FlattenSeq(s)
<1>1. PICK pos : Flattened(s, Len(s), r, pos)
  BY FlattenShape
<1> HIDE DEF r
<1>2. /\ IsSeq(r)
      /\ pos \in [1..(Len(s) + 1) -> Nat]
      /\ \A i \in 1..Len(s) : \A k \in 1..Len(s[i]) :
           pos[i] + k \in 1..Len(r) /\ r[pos[i] + k] = s[i][k]
      /\ \A p \in 1..Len(r) : \E i \in 1..Len(s) : \E k \in 1..Len(s[i]) : p = pos[i] + k
  BY <1>1 DEF Flattened
<1>3. Len(s) \in Nat /\ Len(r) \in Nat /\ Len(s[j]) \in Nat
  BY <1>2, SeqShape
<1>4. j \in 1..(Len(s) + 1)
  BY <1>3
<1>5. pos[j] \in Nat
  BY <1>2, <1>4
<1>6. ASSUME NEW p \in 1..Len(r), r[p] \in S
      PROVE  pos[j] < p /\ p <= pos[j] + Len(s[j])
  <2>1. PICK i \in 1..Len(s) : \E k \in 1..Len(s[i]) : p = pos[i] + k
    BY <1>2
  <2>2. PICK k \in 1..Len(s[i]) : p = pos[i] + k
    BY <2>1
  <2>3. s[i][k] \in S
    BY <1>2, <1>6, <2>2
  <2>4. i = j
    BY <2>3
  <2> QED  BY <1>3, <1>5, <2>2, <2>4
<1>7. CASE Len(s[j]) # 0
  <2>1. Len(s[j]) \in 1..Len(s[j])
    BY <1>3, <1>7
  <2>2. pos[j] + Len(s[j]) \in 1..Len(r)
    BY <1>2, <2>1
  <2>3. WindowAt(r, S, s[j], pos[j])
    BY <1>2, <1>3, <1>5, <1>6, <2>2 DEF WindowAt
  <2> QED  BY <1>5, <2>3 DEF Window, r
<1>8. CASE Len(s[j]) = 0
  <2>1. WindowAt(r, S, s[j], 0)
    BY <1>3, <1>5, <1>6, <1>8 DEF WindowAt
  <2> QED  BY <2>1 DEF Window, r
<1> QED  BY <1>7, <1>8

-----------------------------------------------------------------------------
(* Ini files: the generic one, and those that are made of it for variants. *)

OutShape(ip, o) ==
  /\ o.kind \in {"json", "cmd"}
  /\ IsSeq(o.configs) /\ IsSeq(o.sets)
  /\ ToSet(o.configs) \subseteq DOMAIN ip.configs
  /\ o.kind = "cmd" => o.configs = <<>>

IpShape(ip) ==
  /\ ip.variant \in Variants \cup {None}
  /\ ip.files \subseteq Files /\ (ip.files # {} => ip.variant # None)
  /\ IsSeq(ip.rows) /\ \A r \in ToSet(ip.rows) : IsRow(r)
  /\ IsSeq(ip.additional) /\ ToSet(ip.additional) \subseteq Sources \X Files
  /\ \A c \in DOMAIN ip.configs : IsSeq(ip.configs[c].sets)
  /\ IsSeq(ip.outputs) /\ Len(ip.outputs) # 0
  /\ \A j \in 1..Len(ip.outputs) : OutShape(ip, ip.outputs[j])
  /\ \A i, j \in 1..Len(ip.outputs) : ip.outputs[i].name = ip.outputs[j].name => i = j

LEMMA SeqOver ==
  ASSUME NEW S, NEW s \in Seq(S)
  PROVE  IsSeq(s) /\ ToSet(s) \subseteq S
<1>1. \A k \in DOMAIN s : s[k] \in S
  OBVIOUS
<1> QED  BY <1>1, InSeq DEF ToSet

LEMMA IniShape ==
  ASSUME NEW in, IsIni(in)
  PROVE  IpShape(in)
<1>1. /\ in.variant = None /\ in.files = {}
      /\ IsSeq(in.rows) /\ \A r \in ToSet(in.rows) : IsRow(r)
      /\ \A c \in DOMAIN in.configs : IsSeq(in.configs[c].sets)
      /\ IsSeq(in.outputs) /\ in.outputs # <<>>
  BY ListIsSeq DEF IsIni
<1>2. IsSeq(in.additional) /\ ToSet(in.additional) \subseteq Sources \X Files
  BY SeqOver DEF IsIni
<1>3. Len(in.outputs) \in Nat /\ DOMAIN in.outputs = 1..Len(in.outputs)
  BY <1>1, SeqShape
<1>4. Len(in.outputs) # 0
  BY <1>1 DEF IsSeq
<1>5. ASSUME NEW j \in 1..Len(in.outputs)
      PROVE  OutShape(in, in.outputs[j])
  <2>1. in.outputs[j] \in ToSet(in.outputs)
    BY <1>1, Members
  <2>2. /\ in.outputs[j].kind \in {"json", "cmd"}
        /\ in.outputs[j].configs \in Seq(DOMAIN in.configs) /\ IsList(in.outputs[j].sets)
        /\ in.outputs[j].kind = "cmd" => in.outputs[j].configs = <<>>
    BY <2>1 DEF IsIni
  <2> QED  BY <2>2, SeqOver, ListIsSeq DEF OutShape
<1>6. ASSUME NEW i \in 1..Len(in.outputs), NEW j \in 1..Len(in.outputs),
             in.outputs[i].name = in.outputs[j].name
      PROVE  i = j
  <2>1. IsInjective([k \in DOMAIN in.outputs |-> in.outputs[k].name])
    BY DEF IsIni
  <2> QED  BY <1>3, <1>6, <2>1 DEF IsInjective
<1> QED  BY <1>1, <1>2, <1>4, <1>5, <1>6 DEF IpShape

LEMMA SetupIs ==
  ASSUME setup \in Setups
  PROVE  /\ IsSetup(setup) /\ IsIni(ini) /\ IpShape(ini)
         /\ IsSeq(setup.variants) /\ IsInjective(setup.variants)
         /\ ToSet(setup.variants) \subseteq Variants
<1>1. IsSetup(setup)
  BY FlashAssumption
<1>2. IsIni(ini)
  BY <1>1 DEF IsSetup, ini
<1>3. setup.variants \in Seq(Variants) /\ IsInjective(setup.variants)
  BY <1>1 DEF IsSetup
<1> QED  BY <1>1, <1>2, <1>3, IniShape, SeqOver

(* The rows of a variant.                                                  *)
LEMMA RowsOfIs ==
  ASSUME setup \in Setups, NEW v \in ToSet(setup.variants)
  PROVE  /\ IsSeq(RowsOf(v)) /\ \A r \in ToSet(RowsOf(v)) : IsRow(r)
         /\ ToSet(ini.rows) \subseteq ToSet(RowsOf(v))
<1>1. IsSeq(ini.rows) /\ \A r \in ToSet(ini.rows) : IsRow(r)
  BY SetupIs DEF IpShape
<1>2. IsSeq(setup.own[v].rows) /\ \A r \in ToSet(setup.own[v].rows) : IsRow(r)
  BY SetupIs, ListIsSeq DEF IsSetup
<1>3. RowsOf(v) = ini.rows \o setup.own[v].rows
  BY DEF RowsOf
<1>4. /\ IsSeq(RowsOf(v))
      /\ ToSet(RowsOf(v)) = ToSet(ini.rows) \cup ToSet(setup.own[v].rows)
  BY <1>1, <1>2, <1>3, CatMembers
<1> QED  BY <1>1, <1>2, <1>4

(* What an output of a variant is made of.                                 *)
OutputFor(x, o, v) ==
  /\ x.kind = o.kind /\ x.sets = o.sets
  /\ IF o.kind = "json"
     THEN x.name = o.name /\ x.configs = [j \in DOMAIN o.configs |-> <<o.configs[j][1], v>>]
     ELSE x.name = <<o.name[1], v>> /\ x.configs = o.configs

LEMMA OutputsAre ==
  ASSUME setup \in Setups, NEW j \in 1..Len(ini.outputs)
  PROVE  /\ ini.outputs[j].name = <<ini.outputs[j].name[1], None>>
         /\ ini.outputs[j].kind \in {"json", "cmd"}
         /\ ini.outputs[j].kind = "cmd" => ini.outputs[j].configs = <<>>
         /\ IsSeq(ini.outputs[j].configs) /\ IsSeq(ini.outputs[j].sets)
         /\ ToSet(ini.outputs[j].configs) \subseteq DOMAIN ini.configs
<1>1. IsIni(ini) /\ IpShape(ini)
  BY SetupIs
<1>2. ini.outputs[j] \in ToSet(ini.outputs)
  BY <1>1, Members DEF IpShape
<1>3. ini.outputs[j].name = <<ini.outputs[j].name[1], None>>
  BY <1>1, <1>2 DEF IsIni
<1> QED  BY <1>1, <1>3 DEF IpShape, OutShape

LEMMA OutputsOfIs ==
  ASSUME setup \in Setups, NEW v \in Variants
  PROVE  /\ IsSeq(OutputsOf(v)) /\ Len(OutputsOf(v)) # 0
         /\ \A i \in 1..Len(OutputsOf(v)) : \E j \in 1..Len(ini.outputs) :
              OutputFor(OutputsOf(v)[i], ini.outputs[j], v)
         /\ \A j \in 1..Len(ini.outputs) : \E i \in 1..Len(OutputsOf(v)) :
              OutputFor(OutputsOf(v)[i], ini.outputs[j], v)
         /\ \A i, j \in 1..Len(OutputsOf(v)) : OutputsOf(v)[i].name = OutputsOf(v)[j].name => i = j
<1> DEFINE outs == ini.outputs
           J == {o \in ToSet(ini.outputs) : o.kind = "json"}
           C == {o \in ToSet(ini.outputs) : o.kind = "cmd"}
           jsons == Select(outs, J)
           cmds == Select(outs, C)
           a == [i \in DOMAIN jsons |->
                   OutputIn(jsons[i], jsons[i].name,
                            [j \in DOMAIN jsons[i].configs |-> <<jsons[i].configs[j][1], v>>])]
           b == [i \in DOMAIN cmds |-> OutputIn(cmds[i], <<cmds[i].name[1], v>>, cmds[i].configs)]
           u == OutputsOf(v)
<1>1. u = a \o b
  BY DEF OutputsOf
<1>2. /\ IsSeq(outs) /\ Len(outs) \in Nat \ {0} /\ DOMAIN outs = 1..Len(outs)
      /\ \A i, j \in 1..Len(outs) : outs[i].name = outs[j].name => i = j
  BY SetupIs, SeqShape DEF IpShape
<1>3. IsSeq(jsons) /\ ToSet(jsons) = J /\ IsSeq(cmds) /\ ToSet(cmds) = C
  <2>1. J \subseteq ToSet(outs) /\ C \subseteq ToSet(outs)
    OBVIOUS
  <2> HIDE DEF J, C
  <2>2. IsSeq(Select(outs, J)) /\ ToSet(Select(outs, J)) = ToSet(outs) \cap J
    BY <1>2, SelectMembers
  <2>3. IsSeq(Select(outs, C)) /\ ToSet(Select(outs, C)) = ToSet(outs) \cap C
    BY <1>2, SelectMembers
  <2> QED  BY <2>1, <2>2, <2>3
<1>4. /\ \A p, q \in 1..Len(jsons) : jsons[p] = jsons[q] => p = q
      /\ \A p, q \in 1..Len(cmds) : cmds[p] = cmds[q] => p = q
  <2>1. \A i, j \in 1..Len(outs) : outs[i] = outs[j] => i = j
    BY <1>2
  <2> HIDE DEF J, C
  <2> QED  BY <1>2, <2>1, SelectInjective
<1> HIDE DEF jsons, cmds, u
<1>5. /\ IsSeq(a) /\ Len(a) = Len(jsons) /\ DOMAIN jsons = 1..Len(jsons)
      /\ IsSeq(b) /\ Len(b) = Len(cmds) /\ DOMAIN cmds = 1..Len(cmds)
      /\ Len(a) \in Nat /\ Len(b) \in Nat
  BY <1>3, MadeSeq, SeqShape
<1>6. /\ \A i \in 1..Len(a) : OutputFor(a[i], jsons[i], v) /\ jsons[i] \in J
      /\ \A i \in 1..Len(b) : OutputFor(b[i], cmds[i], v) /\ cmds[i] \in C
  <2>1. ASSUME NEW i \in 1..Len(a)
        PROVE  OutputFor(a[i], jsons[i], v) /\ jsons[i] \in J
    <3>1. jsons[i] \in J
      BY <1>3, <1>5, Members
    <3> QED  BY <1>5, <3>1 DEF OutputFor, OutputIn
  <2>2. ASSUME NEW i \in 1..Len(b)
        PROVE  OutputFor(b[i], cmds[i], v) /\ cmds[i] \in C
    <3>1. cmds[i] \in C
      BY <1>3, <1>5, Members
    <3> QED  BY <1>5, <3>1 DEF OutputFor, OutputIn
  <2> QED  BY <2>1, <2>2
<1> HIDE DEF a, b
<1>7. /\ IsSeq(u) /\ Len(u) = Len(a) + Len(b)
      /\ \A k \in 1..(Len(a) + Len(b)) : u[k] = IF k <= Len(a) THEN a[k] ELSE b[k - Len(a)]
      /\ \A k \in 1..Len(a) : u[k] = a[k]
      /\ \A k \in 1..Len(b) : u[Len(a) + k] = b[k]
  <2>1. IsSeq(a) /\ IsSeq(b)
    BY <1>5
  <2> QED  BY ONLY <1>1, <2>1, CatShape
<1>8. \A o \in J \cup C : \E j \in 1..Len(outs) : o = outs[j]
  BY <1>2, Members
<1>9. \A j \in 1..Len(outs) : outs[j] \in J \cup C
  BY <1>2, OutputsAre, Members
<1>10. ASSUME NEW i \in 1..Len(u)
       PROVE  \/ i \in 1..Len(a) /\ u[i] = a[i]
              \/ i - Len(a) \in 1..Len(b) /\ u[i] = b[i - Len(a)]
  BY <1>5, <1>7
<1>11. ASSUME NEW i \in 1..Len(u)
       PROVE  \E j \in 1..Len(outs) : OutputFor(u[i], outs[j], v)
  BY <1>6, <1>8, <1>10
<1>12. ASSUME NEW j \in 1..Len(outs)
       PROVE  \E i \in 1..Len(u) : OutputFor(u[i], outs[j], v)
  <2>1. CASE outs[j] \in J
    <3>1. PICK i \in 1..Len(jsons) : outs[j] = jsons[i]
      BY <1>3, <2>1, Members
    <3>2. i \in 1..Len(u) /\ u[i] = a[i]
      BY <1>5, <1>7
    <3> QED  BY <1>5, <1>6, <3>1, <3>2
  <2>2. CASE outs[j] \in C
    <3>1. PICK i \in 1..Len(cmds) : outs[j] = cmds[i]
      BY <1>3, <2>2, Members
    <3>2. Len(a) + i \in 1..Len(u) /\ u[Len(a) + i] = b[i]
      BY <1>5, <1>7
    <3> QED  BY <1>5, <1>6, <3>1, <3>2
  <2> QED  BY <1>9, <2>1, <2>2
<1>13. Len(u) # 0
  <2>1. 1 \in 1..Len(outs)
    BY <1>2
  <2>2. PICK i \in 1..Len(u) : OutputFor(u[i], outs[1], v)
    BY <1>12, <2>1
  <2> QED  BY <2>2
<1>14. /\ \A i \in 1..Len(a) : a[i].name = jsons[i].name /\ a[i].name[2] = None
       /\ \A i \in 1..Len(b) : b[i].name = <<cmds[i].name[1], v>> /\ b[i].name[2] = v
                              /\ cmds[i].name = <<cmds[i].name[1], None>>
  <2>1. \A o \in J \cup C : o.name = <<o.name[1], None>>
    BY <1>8, OutputsAre
  <2>2. ASSUME NEW i \in 1..Len(a)
        PROVE  a[i].name = jsons[i].name /\ a[i].name[2] = None
    <3>1. OutputFor(a[i], jsons[i], v) /\ jsons[i].kind = "json"
      BY <1>6
    <3>2. jsons[i].name = <<jsons[i].name[1], None>>
      BY <1>6, <2>1
    <3>3. a[i].name = jsons[i].name
      BY <3>1 DEF OutputFor
    <3> QED  BY <3>2, <3>3
  <2>3. ASSUME NEW i \in 1..Len(b)
        PROVE  /\ b[i].name = <<cmds[i].name[1], v>> /\ b[i].name[2] = v
               /\ cmds[i].name = <<cmds[i].name[1], None>>
    <3>1. OutputFor(b[i], cmds[i], v) /\ cmds[i].kind = "cmd"
      BY <1>6
    <3>2. cmds[i].name = <<cmds[i].name[1], None>>
      BY <1>6, <2>1
    <3>3. b[i].name = <<cmds[i].name[1], v>>
      BY <3>1 DEF OutputFor
    <3> QED  BY <3>2, <3>3
  <2> QED  BY <2>2, <2>3
<1>15. v # None
  BY FlashAssumption
<1>16. \A o, x \in J \cup C : o.name = x.name => o = x
  BY <1>2, <1>8
<1>17. ASSUME NEW i \in 1..Len(u), NEW j \in 1..Len(u), u[i].name = u[j].name
       PROVE  i = j
  <2>1. CASE i \in 1..Len(a) /\ u[i] = a[i] /\ j \in 1..Len(a) /\ u[j] = a[j]
    <3>1. jsons[i].name = jsons[j].name /\ jsons[i] \in J /\ jsons[j] \in J
      BY <1>6, <1>14, <1>17, <2>1
    <3>2. jsons[i] = jsons[j]
      BY <1>16, <3>1
    <3> QED  BY <1>4, <1>5, <2>1, <3>2
  <2>2. CASE i - Len(a) \in 1..Len(b) /\ u[i] = b[i - Len(a)] /\ j - Len(a) \in 1..Len(b) /\ u[j] = b[j - Len(a)]
    <3> DEFINE m == i - Len(a)
               n == j - Len(a)
    <3>1. m \in 1..Len(b) /\ n \in 1..Len(b) /\ b[m].name = b[n].name
      BY <1>17, <2>2
    <3>2. m = n => i = j
      BY <1>5
    <3> HIDE DEF m, n
    <3>3. <<cmds[m].name[1], v>> = <<cmds[n].name[1], v>>
      BY <1>14, <3>1
    <3>4. cmds[m].name[1] = cmds[n].name[1]
      BY <3>3
    <3>5. cmds[m].name = cmds[n].name /\ cmds[m] \in C /\ cmds[n] \in C
      BY <1>6, <1>14, <3>1, <3>4
    <3>6. cmds[m] = cmds[n]
      BY <1>16, <3>5
    <3> QED  BY <1>4, <1>5, <3>1, <3>2, <3>6
  <2>3. CASE i \in 1..Len(a) /\ u[i] = a[i] /\ j - Len(a) \in 1..Len(b) /\ u[j] = b[j - Len(a)]
    BY <1>14, <1>15, <1>17, <2>3
  <2>4. CASE i - Len(a) \in 1..Len(b) /\ u[i] = b[i - Len(a)] /\ j \in 1..Len(a) /\ u[j] = a[j]
    BY <1>14, <1>15, <1>17, <2>4
  <2> QED  BY <1>10, <2>1, <2>2, <2>3, <2>4
<1> HIDE DEF outs
<1>18. /\ IsSeq(u) /\ Len(u) # 0
       /\ \A i \in 1..Len(u) : \E j \in 1..Len(outs) : OutputFor(u[i], outs[j], v)
       /\ \A j \in 1..Len(outs) : \E i \in 1..Len(u) : OutputFor(u[i], outs[j], v)
       /\ \A i, j \in 1..Len(u) : u[i].name = u[j].name => i = j
  BY <1>7, <1>11, <1>12, <1>13, <1>17
<1> QED  BY <1>18 DEF u, outs

(* The configurations of all outputs, and the first default one of them.   *)
LEMMA VariantizedIs ==
  ASSUME setup \in Setups
  PROVE  /\ IsSeq(Variantized)
         /\ \A c : c \in ToSet(Variantized) <=>
                   \E j \in 1..Len(ini.outputs) : c \in ToSet(ini.outputs[j].configs)
         /\ ToSet(Variantized) \subseteq DOMAIN ini.configs
<1> DEFINE s == [i \in DOMAIN ini.outputs |-> ini.outputs[i].configs]
<1>1. IsSeq(ini.outputs) /\ DOMAIN ini.outputs = 1..Len(ini.outputs)
  BY SetupIs, SeqShape DEF IpShape
<1>2. IsSeq(s) /\ Len(s) = Len(ini.outputs)
  BY <1>1, MadeSeq
<1>3. \A i \in 1..Len(ini.outputs) : s[i] = ini.outputs[i].configs
  BY <1>1
<1>4. Variantized = FlattenSeq(s)
  BY DEF Variantized
<1> HIDE DEF s
<1>5. \A i \in 1..Len(s) : IsSeq(s[i]) /\ ToSet(s[i]) \subseteq DOMAIN ini.configs
  BY <1>2, <1>3, OutputsAre
<1>6. /\ IsSeq(FlattenSeq(s))
      /\ \A x : x \in ToSet(FlattenSeq(s)) <=> \E i \in 1..Len(s) : x \in ToSet(s[i])
  BY <1>2, <1>5, FlattenMembers
<1> QED  BY <1>2, <1>3, <1>4, <1>5, <1>6

IsDefault(c) == ini.configs[c].default

FirstDefault ==
  LET k == SelectInSeq(Variantized, LAMBDA c : ini.configs[c].default)
  IN  IF k # 0 THEN Variantized[k] ELSE None

LEMMA FirstDefaultIs ==
  ASSUME setup \in Setups
  PROVE  /\ FirstDefault # None => /\ FirstDefault \in ToSet(Variantized)
                                   /\ IsDefault(FirstDefault)
         /\ FirstDefault = None => \A c \in ToSet(Variantized) : ~IsDefault(c)
         /\ KeptDefault = IF default_config = None THEN FirstDefault ELSE None
<1> DEFINE s == Variantized
           S == {c \in ToSet(s) : ini.configs[c].default}
           k == FirstIn(s, S)
<1>1. IsSeq(s) /\ Len(s) \in Nat /\ DOMAIN s = 1..Len(s) /\ ToSet(s) \subseteq DOMAIN ini.configs
  BY VariantizedIs, SeqShape
<1>2. \A i \in 1..Len(s) : s[i] \in S <=> ini.configs[s[i]].default
  BY <1>1 DEF ToSet
<1>3. {j \in 1..Len(s) : ini.configs[s[j]].default} = {j \in 1..Len(s) : s[j] \in S}
  BY <1>2
<1>4. SelectInSeq(s, LAMBDA c : ini.configs[c].default) = k
  BY <1>3 DEF FirstIn, SelectInSeq
<1>5. /\ k = 0 => \A i \in 1..Len(s) : s[i] \notin S
      /\ k # 0 => k \in 1..Len(s) /\ s[k] \in S
  BY <1>1, FirstInIs
<1>6. FirstDefault = IF k # 0 THEN s[k] ELSE None
  BY <1>4 DEF FirstDefault
<1>7. KeptDefault = IF default_config = None /\ k # 0 THEN s[k] ELSE None
  BY <1>4 DEF KeptDefault
<1> HIDE DEF k
<1>8. k # 0 => s[k] \in ToSet(s) /\ ini.configs[s[k]].default /\ s[k] # None
  <2> HAVE k # 0
  <2>1. s[k] \in ToSet(s) /\ ini.configs[s[k]].default
    BY <1>5
  <2>2. None \notin DOMAIN ini.configs
    BY SetupIs DEF IsIni
  <2> QED  BY <1>1, <2>1, <2>2
<1>9. k = 0 => \A c \in ToSet(s) : ~ini.configs[c].default
  <2> SUFFICES ASSUME k = 0, NEW c \in ToSet(s)
               PROVE  ~ini.configs[c].default
    OBVIOUS
  <2>1. PICK i \in 1..Len(s) : c = s[i]
    BY <1>1, Members
  <2> QED  BY <1>2, <1>5, <2>1
<1> QED  BY <1>6, <1>7, <1>8, <1>9 DEF IsDefault

(* The ini file of a variant when kept is the default that is kept.        *)
GenIp(v, kept) ==
  [variant |-> v, additional |-> AdditionalOf(v), rows |-> RowsOf(v), files |-> FilesOf(v),
   configs |-> [c \in {<<d[1], v>> : d \in ToSet(Variantized)} |->
                  [sets |-> ini.configs[<<c[1], None>>].sets, default |-> <<c[1], None>> = kept]],
   outputs |-> OutputsOf(v)]

Gen == [k \in 1..Len(setup.variants) |->
          GenIp(setup.variants[k], IF k = 1 THEN FirstDefault ELSE None)]

FinalIps == IF setup.variants = <<>> THEN <<ini>> ELSE Gen

LEMMA VariantIpIs ==
  ASSUME NEW v
  PROVE  VariantIp(v) = GenIp(v, KeptDefault)
BY DEF VariantIp, GenIp, ConfigsOf

LEMMA AdditionalOfIs ==
  ASSUME setup \in Setups, NEW v \in ToSet(setup.variants)
  PROVE  IsSeq(AdditionalOf(v)) /\ ToSet(AdditionalOf(v)) \subseteq Sources \X Files
<1>1. IsSeq(ini.additional) /\ ToSet(ini.additional) \subseteq Sources \X Files
  BY SetupIs DEF IpShape
<1>2. setup.own[v].additional # Same => setup.own[v].additional \in Seq(Sources \X Files)
  BY SetupIs DEF IsSetup
<1> QED  BY <1>1, <1>2, SeqOver DEF AdditionalOf

LEMMA FilesOfIs ==
  ASSUME setup \in Setups, NEW v \in ToSet(setup.variants)
  PROVE  /\ FilesOf(v) \subseteq Files
         /\ \A f \in FilesOf(v) : \E r \in ToSet(RowsOf(v)) : r.file = f /\ r.file # None
         /\ \A r \in ToSet(RowsOf(v)) :
              r.file # None /\ (r.source # "images" \/ r.file \in VariantFiles)
                => r.file \in FilesOf(v)
<1> DEFINE rows == {r \in ToSet(RowsOf(v)) : r.file # None}
           prov == {r.file : r \in {q \in rows : q.source = "provdatazip"}}
           all == {r.file : r \in rows}
<1>1. FilesOf(v) = (prov \cup VariantFiles) \cap all
  BY DEF FilesOf
<1>2. \A r \in rows : IsRow(r) /\ r \in ToSet(RowsOf(v)) /\ r.file # None
  BY RowsOfIs
<1>3. all \subseteq Files
  BY <1>2 DEF IsRow
<1>4. \A f \in all : \E r \in ToSet(RowsOf(v)) : r.file = f /\ r.file # None
  BY <1>2
<1>5. ASSUME NEW r \in rows, r.source # "images" \/ r.file \in VariantFiles
      PROVE  r.file \in prov \cup VariantFiles
  <2>1. r.source \in Sources /\ (r.source = "bootloader" => r.file \in VariantFiles)
    BY <1>2 DEF IsRow
  <2> QED  BY <1>5, <2>1 DEF Sources
<1> QED  BY <1>1, <1>3, <1>4, <1>5

LEMMA GenShape ==
  ASSUME setup \in Setups, NEW v \in ToSet(setup.variants), NEW kept
  PROVE  IpShape(GenIp(v, kept))
<1> DEFINE ip == GenIp(v, kept)
<1>1. /\ ip.variant = v /\ ip.files = FilesOf(v) /\ ip.rows = RowsOf(v)
      /\ ip.additional = AdditionalOf(v) /\ ip.outputs = OutputsOf(v)
      /\ DOMAIN ip.configs = {<<d[1], v>> : d \in ToSet(Variantized)}
      /\ \A c \in DOMAIN ip.configs : ip.configs[c].sets = ini.configs[<<c[1], None>>].sets
  BY DEF GenIp
<1> HIDE DEF ip
<1>2. v \in Variants /\ v # None
  BY SetupIs, FlashAssumption
<1>3. ASSUME NEW c \in DOMAIN ip.configs
      PROVE  IsSeq(ip.configs[c].sets)
  <2>1. PICK d \in ToSet(Variantized) : c = <<d[1], v>>
    BY <1>1
  <2>2. d \in DOMAIN ini.configs
    BY <2>1, VariantizedIs
  <2>3. d = <<d[1], None>> /\ IsSeq(ini.configs[d].sets)
    BY <2>2, SetupIs, ListIsSeq DEF IsIni
  <2>4. <<c[1], None>> = d
    BY <2>1, <2>3
  <2> QED  BY <1>1, <2>3, <2>4
<1>4. ASSUME NEW i \in 1..Len(ip.outputs)
      PROVE  OutShape(ip, ip.outputs[i])
  <2>1. PICK j \in 1..Len(ini.outputs) : OutputFor(ip.outputs[i], ini.outputs[j], v)
    BY <1>1, <1>2, OutputsOfIs
  <2> DEFINE x == ip.outputs[i]
             o == ini.outputs[j]
  <2>2. /\ o.kind \in {"json", "cmd"} /\ IsSeq(o.sets) /\ IsSeq(o.configs)
        /\ o.kind = "cmd" => o.configs = <<>>
    BY OutputsAre
  <2>3. x.kind = o.kind /\ x.sets = o.sets
    BY <2>1 DEF OutputFor
  <2>4. CASE o.kind = "cmd"
    <3>1. x.configs = <<>>
      BY <2>1, <2>2, <2>4 DEF OutputFor
    <3> QED  BY <2>2, <2>3, <3>1, NoSeq DEF OutShape
  <2>5. CASE o.kind = "json"
    <3>1. x.configs = [m \in DOMAIN o.configs |-> <<o.configs[m][1], v>>]
      BY <2>1, <2>5 DEF OutputFor
    <3>2. IsSeq(x.configs) /\ DOMAIN x.configs = DOMAIN o.configs
      BY <2>2, <3>1, MadeSeq
    <3>3. ASSUME NEW m \in DOMAIN x.configs
          PROVE  x.configs[m] \in DOMAIN ip.configs
      <4>1. o.configs[m] \in ToSet(o.configs)
        BY <3>2 DEF ToSet
      <4>2. o.configs[m] \in ToSet(Variantized)
        BY <4>1, VariantizedIs
      <4> QED  BY <1>1, <3>1, <3>2, <4>2
    <3>4. ToSet(x.configs) \subseteq DOMAIN ip.configs
      BY <3>3 DEF ToSet
    <3> QED  BY <2>2, <2>3, <2>5, <3>2, <3>4 DEF OutShape
  <2> QED  BY <2>2, <2>4, <2>5
<1>5. /\ IsSeq(ip.outputs) /\ Len(ip.outputs) # 0
      /\ \A i, j \in 1..Len(ip.outputs) : ip.outputs[i].name = ip.outputs[j].name => i = j
  BY <1>1, <1>2, OutputsOfIs
<1>6. ip.files \subseteq Files
  BY <1>1, FilesOfIs
<1>7. IsSeq(ip.rows) /\ \A r \in ToSet(ip.rows) : IsRow(r)
  BY <1>1, RowsOfIs
<1>8. IsSeq(ip.additional) /\ ToSet(ip.additional) \subseteq Sources \X Files
  BY <1>1, AdditionalOfIs
<1>9. ip.variant \in Variants \cup {None} /\ ip.variant # None
  BY <1>1, <1>2
<1> HIDE DEF ip
<1>10. IpShape(ip)
  BY <1>3, <1>4, <1>5, <1>6, <1>7, <1>8, <1>9 DEF IpShape
<1> QED  BY <1>10 DEF ip

-----------------------------------------------------------------------------
(* The outputs of several ini files: <<k, j>> is the j-th of the k-th.     *)
Pairs(ps) == {p \in Nat \X Nat : p[1] \in 1..Len(ps) /\ p[2] \in 1..Len(ps[p[1]].outputs)}

OutOf(ps, p) == ps[p[1]].outputs[p[2]]

(* Two outputs of the same name are json outputs of two variants, and have *)
(* no configuration in common.                                             *)
Apart(ps) ==
  \A p, q \in Pairs(ps) : p # q /\ OutOf(ps, p).name = OutOf(ps, q).name =>
    /\ OutOf(ps, p).kind = "json" /\ OutOf(ps, q).kind = "json" /\ p[1] # q[1]
    /\ ToSet(OutOf(ps, p).configs) \cap ToSet(OutOf(ps, q).configs) = {}

Ips(ps) ==
  /\ IsSeq(ps) /\ \A k \in 1..Len(ps) : IpShape(ps[k])
  /\ \A k, m \in 1..Len(ps) : ps[k].variant = ps[m].variant => k = m
  /\ Apart(ps)

LEMMA IniIps ==
  ASSUME setup \in Setups
  PROVE  Ips(<<ini>>)
<1> DEFINE ps == <<ini>>
<1>1. IsSeq(ps) /\ Len(ps) = 1 /\ ps[1] = ini
  BY OneSeq
<1> HIDE DEF ps
<1>2. IpShape(ini)
  BY SetupIs
<1>3. \A k \in 1..Len(ps) : k = 1
  BY <1>1
<1>4. ASSUME NEW p \in Pairs(ps), NEW q \in Pairs(ps), OutOf(ps, p).name = OutOf(ps, q).name
      PROVE  p = q
  <2>1. /\ p = <<1, p[2]>> /\ p[2] \in 1..Len(ini.outputs)
        /\ q = <<1, q[2]>> /\ q[2] \in 1..Len(ini.outputs)
    BY <1>1, <1>3 DEF Pairs
  <2>2. ini.outputs[p[2]].name = ini.outputs[q[2]].name
    BY <1>1, <1>4, <2>1 DEF OutOf
  <2>3. p[2] = q[2]
    BY <1>2, <2>1, <2>2 DEF IpShape
  <2> QED  BY <2>1, <2>3
<1>5. Apart(ps)
  BY <1>4 DEF Apart
<1> QED  BY <1>1, <1>2, <1>3, <1>5 DEF Ips, ps

(* What is known of each ini file of a variant.                            *)
LEMMA GenAt ==
  ASSUME setup \in Setups, NEW k \in 1..Len(setup.variants)
  PROVE  /\ Gen[k] = GenIp(setup.variants[k], IF k = 1 THEN FirstDefault ELSE None)
         /\ IpShape(Gen[k])
         /\ setup.variants[k] \in ToSet(setup.variants) /\ setup.variants[k] \in Variants
         /\ Gen[k].variant = setup.variants[k] /\ Gen[k].outputs = OutputsOf(setup.variants[k])
         /\ Gen[k].rows = RowsOf(setup.variants[k]) /\ Gen[k].files = FilesOf(setup.variants[k])
         /\ Gen[k].additional = AdditionalOf(setup.variants[k])
<1> DEFINE v == setup.variants[k]
           kept == IF k = 1 THEN FirstDefault ELSE None
<1>1. Gen[k] = GenIp(v, kept)
  BY DEF Gen
<1>2. v \in ToSet(setup.variants) /\ v \in Variants
  BY SetupIs, Members
<1> HIDE DEF kept, v
<1>3. IpShape(GenIp(v, kept))
  BY <1>2, GenShape
<1>4. /\ GenIp(v, kept).variant = v /\ GenIp(v, kept).outputs = OutputsOf(v)
      /\ GenIp(v, kept).rows = RowsOf(v) /\ GenIp(v, kept).files = FilesOf(v)
      /\ GenIp(v, kept).additional = AdditionalOf(v)
  BY DEF GenIp
<1> QED  BY <1>1, <1>2, <1>3, <1>4 DEF kept, v

LEMMA GenIsSeq ==
  ASSUME setup \in Setups
  PROVE  IsSeq(Gen) /\ Len(Gen) = Len(setup.variants)
<1>1. Len(setup.variants) \in Nat
  BY SetupIs, SeqShape
<1>2. Gen = [k \in 1..Len(setup.variants) |-> Gen[k]]
  BY DEF Gen
<1> QED  BY <1>1, <1>2, ShapeSeq

LEMMA GenIps ==
  ASSUME setup \in Setups
  PROVE  Ips(Gen)
<1> DEFINE n == Len(setup.variants)
<1>1. IsSeq(Gen) /\ Len(Gen) = n
  BY GenIsSeq
<1>2. \A k \in 1..n : IpShape(Gen[k]) /\ Gen[k].variant = setup.variants[k]
  BY GenAt
<1>3. ASSUME NEW k \in 1..n, NEW m \in 1..n, setup.variants[k] = setup.variants[m]
      PROVE  k = m
  <2>1. IsInjective(setup.variants) /\ DOMAIN setup.variants = 1..n
    BY SetupIs, SeqShape
  <2> QED  BY <1>3, <2>1 DEF IsInjective
<1>4. ASSUME NEW p \in Pairs(Gen)
      PROVE  /\ p[1] \in 1..n /\ p = <<p[1], p[2]>> /\ p[2] \in 1..Len(Gen[p[1]].outputs)
             /\ OutOf(Gen, p) = OutputsOf(setup.variants[p[1]])[p[2]]
             /\ \E j \in 1..Len(ini.outputs) :
                  OutputFor(OutOf(Gen, p), ini.outputs[j], setup.variants[p[1]])
  <2>1. p[1] \in 1..n /\ p = <<p[1], p[2]>> /\ p[2] \in 1..Len(Gen[p[1]].outputs)
    BY <1>1 DEF Pairs
  <2>2. Gen[p[1]].outputs = OutputsOf(setup.variants[p[1]]) /\ setup.variants[p[1]] \in Variants
    BY <2>1, GenAt
  <2>3. OutOf(Gen, p) = OutputsOf(setup.variants[p[1]])[p[2]]
    BY <2>2 DEF OutOf
  <2>4. \E j \in 1..Len(ini.outputs) :
           OutputFor(OutputsOf(setup.variants[p[1]])[p[2]], ini.outputs[j], setup.variants[p[1]])
    BY <2>1, <2>2, OutputsOfIs
  <2> QED  BY <2>1, <2>3, <2>4
<1>5. ASSUME NEW p \in Pairs(Gen)
      PROVE  LET v == setup.variants[p[1]]
                 o == OutOf(Gen, p)
             IN  /\ v \in Variants /\ o.kind \in {"json", "cmd"}
                 /\ o.kind = "json" => o.name[2] = None
                 /\ o.kind = "cmd" => o.name[2] = v
                 /\ \A c \in ToSet(o.configs) : c[2] = v
  <2> DEFINE v == setup.variants[p[1]]
             o == OutOf(Gen, p)
  <2>1. PICK j \in 1..Len(ini.outputs) : OutputFor(o, ini.outputs[j], v)
    BY <1>4
  <2> DEFINE x == ini.outputs[j]
  <2>2. /\ x.name = <<x.name[1], None>> /\ x.kind \in {"json", "cmd"} /\ IsSeq(x.configs)
        /\ x.kind = "cmd" => x.configs = <<>>
    BY OutputsAre
  <2>3. v \in Variants
    BY <1>4, GenAt
  <2> HIDE DEF v, o, x
  <2>4. o.kind = x.kind
    BY <2>1 DEF OutputFor, x
  <2>5. CASE x.kind = "json"
    <3>1. o.name = x.name /\ o.configs = [m \in DOMAIN x.configs |-> <<x.configs[m][1], v>>]
      BY <2>1, <2>5 DEF OutputFor, x
    <3>2. \A c \in ToSet(o.configs) : c[2] = v
      BY <3>1 DEF ToSet
    <3>3. o.name[2] = None
      BY <2>2, <3>1
    <3> QED  BY <2>3, <2>4, <2>5, <3>2, <3>3 DEF v, o
  <2>6. CASE x.kind = "cmd"
    <3>1. o.name = <<x.name[1], v>> /\ o.configs = <<>>
      BY <2>1, <2>2, <2>6 DEF OutputFor, x
    <3>2. ToSet(o.configs) = {}
      BY <3>1, NoSeq
    <3> QED  BY <2>3, <2>4, <2>6, <3>1, <3>2 DEF v, o
  <2> QED  BY <2>2, <2>5, <2>6
<1>6. ASSUME NEW p \in Pairs(Gen), NEW q \in Pairs(Gen), p # q,
             OutOf(Gen, p).name = OutOf(Gen, q).name
      PROVE  /\ OutOf(Gen, p).kind = "json" /\ OutOf(Gen, q).kind = "json" /\ p[1] # q[1]
             /\ ToSet(OutOf(Gen, p).configs) \cap ToSet(OutOf(Gen, q).configs) = {}
  <2> DEFINE v == setup.variants[p[1]]
             w == setup.variants[q[1]]
             o == OutOf(Gen, p)
             x == OutOf(Gen, q)
  <2>1. p[1] # q[1]
    <3> SUFFICES ASSUME p[1] = q[1]
                 PROVE  FALSE
      OBVIOUS
    <3>1. /\ p[2] \in 1..Len(Gen[p[1]].outputs) /\ q[2] \in 1..Len(Gen[p[1]].outputs)
          /\ Gen[p[1]].outputs[p[2]].name = Gen[p[1]].outputs[q[2]].name
      BY <1>4, <1>6 DEF OutOf
    <3>2. IpShape(Gen[p[1]])
      BY <1>2, <1>4
    <3>3. p[2] = q[2]
      BY <3>1, <3>2 DEF IpShape
    <3> QED  BY <1>4, <1>6, <3>3
  <2>2. v # w
    BY <1>3, <1>4, <2>1
  <2>3. /\ v \in Variants /\ o.kind \in {"json", "cmd"}
        /\ o.kind = "json" => o.name[2] = None
        /\ o.kind = "cmd" => o.name[2] = v
        /\ \A c \in ToSet(o.configs) : c[2] = v
    BY <1>5
  <2>4. /\ w \in Variants /\ x.kind \in {"json", "cmd"}
        /\ x.kind = "json" => x.name[2] = None
        /\ x.kind = "cmd" => x.name[2] = w
        /\ \A c \in ToSet(x.configs) : c[2] = w
    BY <1>5
  <2>5. o.name[2] = x.name[2]
    BY <1>6
  <2> HIDE DEF v, w, o, x
  <2>6. o.kind = "json" /\ x.kind = "json"
    BY <2>2, <2>3, <2>4, <2>5, FlashAssumption
  <2>7. ToSet(o.configs) \cap ToSet(x.configs) = {}
    BY <2>2, <2>3, <2>4
  <2> QED  BY <2>1, <2>6, <2>7 DEF o, x
<1>7. Apart(Gen)
  BY <1>6 DEF Apart
<1> QED  BY <1>1, <1>2, <1>3, <1>7 DEF Ips

LEMMA FinalIsIps ==
  ASSUME setup \in Setups
  PROVE  Ips(FinalIps)
BY IniIps, GenIps DEF FinalIps

(* The queue of outputs: each of them, once.                               *)
QueueOf(ps) == FlattenSeq([i \in DOMAIN ps |-> [j \in DOMAIN ps[i].outputs |-> <<i, j>>]])

LEMMA QueueIs ==
  ASSUME NEW ps, Ips(ps)
  PROVE  /\ IsSeq(QueueOf(ps)) /\ Len(QueueOf(ps)) \in Nat
         /\ \A q \in 1..Len(QueueOf(ps)) : QueueOf(ps)[q] \in Pairs(ps)
         /\ \A p \in Pairs(ps) : \E q \in 1..Len(QueueOf(ps)) : QueueOf(ps)[q] = p
         /\ \A q, r \in 1..Len(QueueOf(ps)) : QueueOf(ps)[q] = QueueOf(ps)[r] => q = r
<1> DEFINE s == [i \in DOMAIN ps |-> [j \in DOMAIN ps[i].outputs |-> <<i, j>>]]
           r == FlattenSeq(s)
<1>1. /\ IsSeq(s) /\ Len(s) = Len(ps) /\ DOMAIN ps = 1..Len(ps) /\ Len(ps) \in Nat
  BY MadeSeq, SeqShape DEF Ips
<1>2. ASSUME NEW i \in 1..Len(s)
      PROVE  /\ IsSeq(s[i]) /\ Len(s[i]) = Len(ps[i].outputs) /\ Len(s[i]) \in Nat
             /\ \A k \in 1..Len(s[i]) : s[i][k] = <<i, k>>
  <2>1. IsSeq(ps[i].outputs)
    BY <1>1 DEF Ips, IpShape
  <2>2. s[i] = [j \in DOMAIN ps[i].outputs |-> <<i, j>>]
    BY <1>1
  <2> HIDE DEF s
  <2>3. DOMAIN ps[i].outputs = 1..Len(ps[i].outputs) /\ Len(ps[i].outputs) \in Nat
    BY <2>1, SeqShape
  <2>4. IsSeq(s[i]) /\ Len(s[i]) = Len(ps[i].outputs)
    BY <2>1, <2>2, MadeSeq
  <2> QED  BY <2>2, <2>3, <2>4
<1>3. QueueOf(ps) = r
  BY DEF QueueOf
<1> HIDE DEF s
<1>4. PICK pos : Flattened(s, Len(s), r, pos)
  BY <1>1, <1>2, FlattenShape
<1> HIDE DEF r
<1>5. IsSeq(r) /\ Len(r) \in Nat
  BY <1>4, SeqShape DEF Flattened
<1>6. ASSUME NEW q \in 1..Len(r)
      PROVE  r[q] \in Pairs(ps) /\ q = pos[r[q][1]] + r[q][2]
  <2>1. PICK i \in 1..Len(s) : \E k \in 1..Len(s[i]) : q = pos[i] + k
    BY <1>4 DEF Flattened
  <2>2. PICK k \in 1..Len(s[i]) : q = pos[i] + k
    BY <2>1
  <2>3. r[pos[i] + k] = s[i][k]
    BY <1>4, <2>2 DEF Flattened
  <2>4. r[q] = <<i, k>>
    BY <1>2, <2>2, <2>3
  <2>5. i \in Nat /\ k \in Nat /\ i \in 1..Len(ps) /\ k \in 1..Len(ps[i].outputs)
    BY <1>1, <1>2, <2>2
  <2> QED  BY <2>2, <2>4, <2>5 DEF Pairs
<1>7. ASSUME NEW p \in Pairs(ps)
      PROVE  \E q \in 1..Len(r) : r[q] = p
  <2>1. /\ p[1] \in 1..Len(s) /\ p[2] \in 1..Len(ps[p[1]].outputs)
        /\ p = <<p[1], p[2]>>
    BY <1>1 DEF Pairs
  <2>2. p[2] \in 1..Len(s[p[1]])
    BY <1>2, <2>1
  <2>3. pos[p[1]] + p[2] \in 1..Len(r) /\ r[pos[p[1]] + p[2]] = s[p[1]][p[2]]
    BY <1>4, <2>1, <2>2 DEF Flattened
  <2> QED  BY <1>2, <2>1, <2>2, <2>3
<1>8. \A q, m \in 1..Len(r) : r[q] = r[m] => q = m
  BY <1>6
<1> QED  BY <1>3, <1>5, <1>6, <1>7, <1>8

-----------------------------------------------------------------------------
(* Bodies of json files, and what a merge of two keeps of each.            *)
For(cmds, c) == {x \in ToSet(cmds) : x.restrict = c}

WindowFor(cmds, c, chunk) == IsSeq(chunk) /\ Window(cmds, For(cmds, c), chunk)

LEMMA WindowSame ==
  ASSUME NEW s, NEW S, NEW T, NEW c, Window(s, S, c),
         \A k \in 1..Len(s) : s[k] \in S <=> s[k] \in T, Len(s) \in Nat
  PROVE  Window(s, T, c)
<1>1. PICK lo \in Nat : WindowAt(s, S, c, lo)
  BY DEF Window
<1>2. ASSUME NEW k \in 1..Len(c)
      PROVE  s[lo + k] = c[k] /\ c[k] \in T
  <2>1. lo + Len(c) <= Len(s) /\ s[lo + k] = c[k] /\ c[k] \in S
    BY <1>1 DEF WindowAt
  <2>2. \E p \in 1..Len(s) : s[p] = c[k]
    BY <1>1, <2>1 DEF WindowAt
  <2> QED  BY <2>1, <2>2
<1>3. WindowAt(s, T, c, lo)
  BY <1>1, <1>2 DEF WindowAt
<1> QED  BY <1>3 DEF Window

LEMMA ForCat ==
  ASSUME NEW s, NEW t, IsSeq(s), IsSeq(t), NEW c, NEW chunk
  PROVE  /\ WindowFor(s, c, chunk) /\ (\A x \in ToSet(t) : x.restrict # c)
              => WindowFor(s \o t, c, chunk)
         /\ WindowFor(t, c, chunk) /\ (\A x \in ToSet(s) : x.restrict # c)
              => WindowFor(s \o t, c, chunk)
<1> DEFINE u == s \o t
           T == For(u, c)
<1>1. IsSeq(u) /\ ToSet(u) = ToSet(s) \cup ToSet(t)
  BY CatMembers
<1>2. Len(s) \in Nat /\ Len(t) \in Nat
  BY SeqShape
<1>3. /\ \A k \in 1..Len(s) : s[k] \in ToSet(s)
      /\ \A k \in 1..Len(t) : t[k] \in ToSet(t)
  BY Members
<1> HIDE DEF u
<1>4. /\ \A k \in 1..Len(s) : s[k] \in T <=> s[k] \in For(s, c)
      /\ \A k \in 1..Len(t) : t[k] \in T <=> t[k] \in For(t, c)
  BY <1>1, <1>3 DEF For
<1>5. /\ (\A x \in ToSet(t) : x.restrict # c) => \A k \in 1..Len(t) : t[k] \notin T
      /\ (\A x \in ToSet(s) : x.restrict # c) => \A k \in 1..Len(s) : s[k] \notin T
  BY <1>3 DEF For
<1> HIDE DEF T
<1>6. ASSUME WindowFor(s, c, chunk), \A x \in ToSet(t) : x.restrict # c
      PROVE  Window(u, T, chunk)
  <2>1. Window(s, T, chunk)
    BY <1>2, <1>4, <1>6, WindowSame DEF WindowFor
  <2>2. \A k \in 1..Len(t) : t[k] \notin T
    BY <1>5, <1>6
  <2> QED  BY <1>6, <2>1, <2>2, WindowBehind DEF WindowFor, u
<1>7. ASSUME WindowFor(t, c, chunk), \A x \in ToSet(s) : x.restrict # c
      PROVE  Window(u, T, chunk)
  <2>1. Window(t, T, chunk)
    BY <1>2, <1>4, <1>7, WindowSame DEF WindowFor
  <2>2. \A k \in 1..Len(s) : s[k] \notin T
    BY <1>5, <1>7
  <2> QED  BY <1>7, <2>1, <2>2, WindowInFront DEF WindowFor, u
<1> QED  BY <1>6, <1>7 DEF WindowFor, T, u

(* What a parameter says: its value, and what its options are.             *)
Includes(p, q) ==
  /\ q.value # None => p.value = q.value
  /\ \A v \in DOMAIN q.options : v \in DOMAIN p.options /\ p.options[v] = q.options[v]

(* The body b has all that the body m has.                                 *)
Keeps(b, m) ==
  /\ \A c \in DOMAIN m.configurations :
       c \in DOMAIN b.configurations /\ b.configurations[c] = m.configurations[c]
  /\ \A s \in DOMAIN m.parameters :
       s \in DOMAIN b.parameters /\ Includes(b.parameters[s], m.parameters[s])
  /\ \A c \in DOMAIN m.configurations : \A chunk :
       WindowFor(m.commands, c, chunk) => WindowFor(b.commands, c, chunk)

(* Commands are for its configurations.                                    *)
Body(b) ==
  IsSeq(b.commands) /\ \A x \in ToSet(b.commands) : x.restrict \in DOMAIN b.configurations

(* Nothing is in both.                                                     *)
BodiesApart(m, n) ==
  /\ DOMAIN m.configurations \cap DOMAIN n.configurations = {}
  /\ \A s \in DOMAIN m.parameters \cap DOMAIN n.parameters :
       DOMAIN m.parameters[s].options \cap DOMAIN n.parameters[s].options = {}

(* The body that was merged from those of E has all of each and no other.  *)
BodyOf(b, M, E) ==
  /\ Body(b)
  /\ \A p \in E : Keeps(b, M[p].body)
  /\ \A c \in DOMAIN b.configurations : \E p \in E : c \in DOMAIN M[p].body.configurations

LEMMA OverIs ==
  ASSUME NEW f, NEW g
  PROVE  /\ DOMAIN Over(f, g) = DOMAIN f \cup DOMAIN g
         /\ \A x \in DOMAIN f : Over(f, g)[x] = f[x]
         /\ \A x \in DOMAIN g \ DOMAIN f : Over(f, g)[x] = g[x]
BY DEF Over

(* Two that can be merged have the same value where both have one.         *)
LEMMA MergedIncludes ==
  ASSUME NEW m, NEW b, ~CannotMerge(m, b), NEW s \in DOMAIN m.parameters \cap DOMAIN b.parameters
  PROVE  /\ Includes(MergedParameter(m.parameters[s], b.parameters[s]), m.parameters[s])
         /\ \A q : /\ Includes(b.parameters[s], q)
                   /\ DOMAIN m.parameters[s].options \cap DOMAIN q.options = {}
                   => Includes(MergedParameter(m.parameters[s], b.parameters[s]), q)
<1> DEFINE x == m.parameters[s]
           y == b.parameters[s]
           z == MergedParameter(x, y)
<1>1. x.value # None /\ y.value # None => x.value = y.value
  BY DEF CannotMerge
<1> HIDE DEF x, y
<1>2. /\ z.value = IF x.value # None THEN x.value ELSE y.value
      /\ z.options = Over(x.options, y.options)
  BY DEF MergedParameter
<1> HIDE DEF z
<1> DEFINE o == Over(x.options, y.options)
<1>5. /\ DOMAIN o = DOMAIN x.options \cup DOMAIN y.options
      /\ \A v \in DOMAIN x.options : o[v] = x.options[v]
      /\ \A v \in DOMAIN y.options \ DOMAIN x.options : o[v] = y.options[v]
  BY OverIs
<1>6. z.options = o
  BY <1>2
<1> HIDE DEF o
<1>3. Includes(z, x)
  BY <1>2, <1>5, <1>6 DEF Includes
<1>4. ASSUME NEW q, Includes(y, q), DOMAIN x.options \cap DOMAIN q.options = {}
      PROVE  Includes(z, q)
  <2>1. q.value # None => z.value = q.value
    BY <1>1, <1>2, <1>4 DEF Includes
  <2>2. ASSUME NEW v \in DOMAIN q.options
        PROVE  v \in DOMAIN z.options /\ z.options[v] = q.options[v]
    <3>1. v \in DOMAIN y.options \ DOMAIN x.options /\ y.options[v] = q.options[v]
      BY <1>4 DEF Includes
    <3> QED  BY <1>5, <1>6, <3>1
  <2> QED  BY <2>1, <2>2 DEF Includes
<1> QED  BY <1>3, <1>4 DEF x, y, z

LEMMA MergeKeeps ==
  ASSUME NEW m, NEW b, NEW M, NEW E, NEW p, BodyOf(b, M, E), Body(m), M[p].body = m,
         ~CannotMerge(m, b), \A q \in E : BodiesApart(m, M[q].body)
  PROVE  BodyOf(Merge(m, b), M, E \cup {p})
<1> DEFINE d == Merge(m, b)
           mc == m.configurations
           bc == b.configurations
<1>1. /\ d.commands = m.commands \o b.commands
      /\ d.configurations = Over(mc, bc)
      /\ DOMAIN d.parameters = DOMAIN m.parameters \cup DOMAIN b.parameters
      /\ \A s \in DOMAIN m.parameters \ DOMAIN b.parameters : d.parameters[s] = m.parameters[s]
      /\ \A s \in DOMAIN b.parameters \ DOMAIN m.parameters : d.parameters[s] = b.parameters[s]
      /\ \A s \in DOMAIN m.parameters \cap DOMAIN b.parameters :
           d.parameters[s] = MergedParameter(m.parameters[s], b.parameters[s])
  BY DEF Merge
<1> HIDE DEF d
<1>2. /\ DOMAIN d.configurations = DOMAIN mc \cup DOMAIN bc
      /\ \A c \in DOMAIN mc : d.configurations[c] = mc[c]
      /\ \A c \in DOMAIN bc \ DOMAIN mc : d.configurations[c] = bc[c]
  <2>1. /\ DOMAIN Over(mc, bc) = DOMAIN mc \cup DOMAIN bc
        /\ \A c \in DOMAIN mc : Over(mc, bc)[c] = mc[c]
        /\ \A c \in DOMAIN bc \ DOMAIN mc : Over(mc, bc)[c] = bc[c]
    BY OverIs
  <2> QED  BY <1>1, <2>1
<1>3. IsSeq(m.commands) /\ IsSeq(b.commands)
  BY DEF BodyOf, Body
<1>4. IsSeq(d.commands) /\ ToSet(d.commands) = ToSet(m.commands) \cup ToSet(b.commands)
  BY <1>1, <1>3, CatMembers
<1>5. DOMAIN mc \cap DOMAIN bc = {}
  BY DEF BodyOf, BodiesApart
<1>6. /\ \A x \in ToSet(m.commands) : x.restrict \in DOMAIN mc
      /\ \A x \in ToSet(b.commands) : x.restrict \in DOMAIN bc
  BY DEF BodyOf, Body
<1>7. Body(d)
  BY <1>2, <1>4, <1>6 DEF Body
<1>8. Keeps(d, m)
  <2>1. ASSUME NEW s \in DOMAIN m.parameters
        PROVE  s \in DOMAIN d.parameters /\ Includes(d.parameters[s], m.parameters[s])
    <3>1. Includes(m.parameters[s], m.parameters[s])
      BY DEF Includes
    <3>2. CASE s \in DOMAIN b.parameters
      <4>1. Includes(MergedParameter(m.parameters[s], b.parameters[s]), m.parameters[s])
        BY <3>2, MergedIncludes
      <4> QED  BY <1>1, <3>2, <4>1
    <3>3. CASE s \notin DOMAIN b.parameters
      BY <1>1, <3>1, <3>3
    <3> QED  BY <3>2, <3>3
  <2>2. ASSUME NEW c \in DOMAIN mc, NEW chunk, WindowFor(m.commands, c, chunk)
        PROVE  WindowFor(d.commands, c, chunk)
    <3>1. \A x \in ToSet(b.commands) : x.restrict # c
      BY <1>5, <1>6
    <3>2. WindowFor(m.commands \o b.commands, c, chunk)
      BY <1>3, <2>2, <3>1, ForCat
    <3> QED  BY <1>1, <3>2
  <2> QED  BY <1>2, <2>1, <2>2 DEF Keeps
<1>9. ASSUME NEW q \in E
      PROVE  Keeps(d, M[q].body)
  <2> DEFINE n == M[q].body
  <2>1. Keeps(b, n) /\ BodiesApart(m, n)
    BY DEF BodyOf
  <2> HIDE DEF n
  <2>2. ASSUME NEW c \in DOMAIN n.configurations
        PROVE  /\ c \in DOMAIN d.configurations /\ d.configurations[c] = n.configurations[c]
               /\ c \notin DOMAIN mc
    <3>1. c \in DOMAIN bc \ DOMAIN mc /\ bc[c] = n.configurations[c]
      BY <2>1 DEF Keeps, BodiesApart
    <3> QED  BY <1>2, <3>1
  <2>3. ASSUME NEW s \in DOMAIN n.parameters
        PROVE  s \in DOMAIN d.parameters /\ Includes(d.parameters[s], n.parameters[s])
    <3>1. s \in DOMAIN b.parameters /\ Includes(b.parameters[s], n.parameters[s])
      BY <2>1 DEF Keeps
    <3>2. CASE s \in DOMAIN m.parameters
      <4>1. DOMAIN m.parameters[s].options \cap DOMAIN n.parameters[s].options = {}
        BY <2>1, <3>2 DEF BodiesApart
      <4>2. Includes(MergedParameter(m.parameters[s], b.parameters[s]), n.parameters[s])
        BY <3>1, <3>2, <4>1, MergedIncludes
      <4> QED  BY <1>1, <3>1, <3>2, <4>2
    <3>3. CASE s \notin DOMAIN m.parameters
      BY <1>1, <3>1, <3>3
    <3> QED  BY <3>2, <3>3
  <2>4. ASSUME NEW c \in DOMAIN n.configurations, NEW chunk, WindowFor(n.commands, c, chunk)
        PROVE  WindowFor(d.commands, c, chunk)
    <3>1. \A x \in ToSet(m.commands) : x.restrict # c
      BY <1>6, <2>2
    <3>2. WindowFor(b.commands, c, chunk)
      BY <2>1, <2>4 DEF Keeps
    <3>3. WindowFor(m.commands \o b.commands, c, chunk)
      BY <1>3, <3>1, <3>2, ForCat
    <3> QED  BY <1>1, <3>3
  <2>5. Keeps(d, n)
    BY <2>2, <2>3, <2>4 DEF Keeps
  <2> QED  BY <2>5 DEF n
<1>10. ASSUME NEW c \in DOMAIN d.configurations
       PROVE  \E q \in E \cup {p} : c \in DOMAIN M[q].body.configurations
  BY <1>2 DEF BodyOf
<1>11. \A q \in E \cup {p} : Keeps(d, M[q].body)
  BY <1>8, <1>9
<1> QED  BY <1>7, <1>10, <1>11 DEF BodyOf, d

LEMMA BodyAlone ==
  ASSUME NEW m, NEW M, NEW p, Body(m), M[p].body = m
  PROVE  BodyOf(m, M, {p})
<1>1. Keeps(m, m)
  BY DEF Keeps, Includes
<1> QED  BY <1>1 DEF BodyOf

-----------------------------------------------------------------------------
(* What is made of one output.                                             *)
LEMMA UsedIs ==
  ASSUME NEW ip, NEW sets, IsSeq(ip.rows), IsSeq(sets)
  PROVE  IsSeq(Used(ip, sets)) /\ ToSet(Used(ip, sets)) \subseteq ToSet(ip.rows)
<1> DEFINE R(i) == {r \in ToSet(ip.rows) : r.set = sets[i] /\ setup.build \in r.builds}
           s == [i \in DOMAIN sets |-> Select(ip.rows, R(i))]
<1>1. IsSeq(s) /\ Len(s) = Len(sets) /\ DOMAIN sets = 1..Len(sets)
  BY MadeSeq, SeqShape
<1>2. \A i \in 1..Len(s) : s[i] = Select(ip.rows, R(i))
  BY <1>1
<1>3. Used(ip, sets) = FlattenSeq(s)
  BY DEF Used
<1> HIDE DEF s
<1>4. ASSUME NEW i \in 1..Len(s)
      PROVE  IsSeq(s[i]) /\ ToSet(s[i]) \subseteq ToSet(ip.rows)
  <2> HIDE DEF R
  <2>1. IsSeq(Select(ip.rows, R(i))) /\ ToSet(Select(ip.rows, R(i))) = ToSet(ip.rows) \cap R(i)
    BY SelectMembers
  <2> QED  BY <1>2, <2>1
<1>5. /\ IsSeq(FlattenSeq(s))
      /\ \A x : x \in ToSet(FlattenSeq(s)) <=> \E i \in 1..Len(s) : x \in ToSet(s[i])
  BY <1>1, <1>4, FlattenMembers
<1> QED  BY <1>3, <1>4, <1>5

LEMMA WithFileIs ==
  ASSUME NEW rows, IsSeq(rows)
  PROVE  IsSeq(WithFile(rows)) /\ ToSet(WithFile(rows)) = {r \in ToSet(rows) : r.file # None}
<1> DEFINE R == {r \in ToSet(rows) : r.file # None}
<1>1. WithFile(rows) = Select(rows, R)
  BY DEF WithFile
<1>2. R \subseteq ToSet(rows)
  OBVIOUS
<1> HIDE DEF R
<1>3. IsSeq(Select(rows, R)) /\ ToSet(Select(rows, R)) = ToSet(rows) \cap R
  BY SelectMembers
<1> QED  BY <1>1, <1>2, <1>3 DEF R

LEMMA ListedIs ==
  ASSUME NEW ip, NEW rows, IsSeq(rows)
  PROVE  /\ IsSeq(Listed(ip, rows))
         /\ ToSet(Listed(ip, rows)) = {<<r.source, Named(ip, r.file)>> : r \in ToSet(rows)}
<1> DEFINE t == Listed(ip, rows)
<1>1. t = [i \in DOMAIN rows |-> <<rows[i].source, Named(ip, rows[i].file)>>]
  BY DEF Listed
<1> HIDE DEF t
<1>2. IsSeq(t)
  BY <1>1, MadeSeq
<1>3. ToSet(t) = {<<r.source, Named(ip, r.file)>> : r \in ToSet(rows)}
  BY <1>1 DEF ToSet
<1> QED  BY <1>2, <1>3 DEF t

(* Lines of a cmd output.                                                  *)
LEMMA CmdMade ==
  ASSUME NEW ip, IpShape(ip), NEW o, OutShape(ip, o)
  PROVE  /\ IsSeq(Lines(ip, o)) /\ ToSet(Lines(ip, o)) \subseteq ToSet(ip.rows)
         /\ IsSeq(Cmd(ip, o).body) /\ DOMAIN Cmd(ip, o).body = DOMAIN Lines(ip, o)
         /\ \A i \in DOMAIN Lines(ip, o) : LET r == Lines(ip, o)[i] IN
              Cmd(ip, o).body[i]
                = [row |-> r.id, target |-> IF r.file = None THEN None ELSE Named(ip, r.file)]
         /\ IsSeq(Cmd(ip, o).files)
         /\ ToSet(Cmd(ip, o).files)
              = {<<r.source, Named(ip, r.file)>> : r \in {q \in ToSet(Lines(ip, o)) : q.file # None}}
<1> DEFINE used == Used(ip, o.sets)
           R == {r \in ToSet(used) : r.tool = "fastboot"}
           lines == Lines(ip, o)
<1>1. IsSeq(used) /\ ToSet(used) \subseteq ToSet(ip.rows)
  BY UsedIs DEF IpShape, OutShape
<1>2. lines = Select(used, R)
  BY DEF Lines
<1> HIDE DEF used, R
<1>3. IsSeq(Select(used, R)) /\ ToSet(Select(used, R)) = ToSet(used) \cap R
  BY <1>1, SelectMembers
<1> HIDE DEF lines
<1>4. IsSeq(lines) /\ ToSet(lines) \subseteq ToSet(ip.rows)
  BY <1>1, <1>2, <1>3
<1> DEFINE body == Cmd(ip, o).body
<1>5. body = [i \in DOMAIN lines |->
                LET r == lines[i]
                IN  [row |-> r.id, target |-> IF r.file = None THEN None ELSE Named(ip, r.file)]]
  BY DEF Cmd, lines
<1>6. Cmd(ip, o).files = Listed(ip, WithFile(lines))
  BY DEF Cmd, lines
<1> HIDE DEF body
<1>7. IsSeq(body) /\ DOMAIN body = DOMAIN lines
  BY <1>4, <1>5, MadeSeq
<1>8. IsSeq(WithFile(lines)) /\ ToSet(WithFile(lines)) = {r \in ToSet(lines) : r.file # None}
  BY <1>4, WithFileIs
<1>9. /\ IsSeq(Cmd(ip, o).files)
      /\ ToSet(Cmd(ip, o).files)
           = {<<r.source, Named(ip, r.file)>> : r \in {q \in ToSet(lines) : q.file # None}}
  BY <1>6, <1>8, ListedIs
<1> QED  BY <1>4, <1>5, <1>7, <1>9 DEF lines, body

(* Commands of a configuration.                                            *)
CommandsFor(ip, c) ==
  [j \in DOMAIN Used(ip, ip.configs[c].sets) |-> Command(c, Used(ip, ip.configs[c].sets)[j])]

JsonRows(ip, o) == WithFile(FlattenSeq(UsedBy(ip, o)))

LEMMA UsedByIs ==
  ASSUME NEW ip, IpShape(ip), NEW o, OutShape(ip, o)
  PROVE  LET u == UsedBy(ip, o) IN
         /\ IsSeq(u) /\ Len(u) = Len(o.configs) /\ DOMAIN o.configs = 1..Len(u) /\ Len(u) \in Nat
         /\ \A i \in 1..Len(u) : /\ u[i] = Used(ip, ip.configs[o.configs[i]].sets) /\ IsSeq(u[i])
                                 /\ ToSet(u[i]) \subseteq ToSet(ip.rows)
                                 /\ o.configs[i] \in ToSet(o.configs)
<1> DEFINE u == UsedBy(ip, o)
<1>1. u = [i \in DOMAIN o.configs |-> Used(ip, ip.configs[o.configs[i]].sets)]
  BY DEF UsedBy
<1> HIDE DEF u
<1>2. IsSeq(o.configs) /\ IsSeq(ip.rows)
  BY DEF OutShape, IpShape
<1>3. /\ IsSeq(u) /\ Len(u) = Len(o.configs) /\ DOMAIN o.configs = 1..Len(u) /\ Len(u) \in Nat
      /\ DOMAIN u = DOMAIN o.configs
  BY <1>1, <1>2, MadeSeq, SeqShape
<1>4. ASSUME NEW i \in 1..Len(u)
      PROVE  /\ u[i] = Used(ip, ip.configs[o.configs[i]].sets) /\ IsSeq(u[i])
             /\ ToSet(u[i]) \subseteq ToSet(ip.rows)
             /\ o.configs[i] \in ToSet(o.configs)
  <2>1. o.configs[i] \in ToSet(o.configs)
    BY <1>3 DEF ToSet
  <2>2. o.configs[i] \in DOMAIN ip.configs
    BY <2>1 DEF OutShape
  <2>3. IsSeq(ip.configs[o.configs[i]].sets)
    BY <2>2 DEF IpShape
  <2>4. u[i] = Used(ip, ip.configs[o.configs[i]].sets)
    BY <1>1, <1>3
  <2> QED  BY <1>2, <2>1, <2>3, <2>4, UsedIs
<1> QED  BY <1>3, <1>4 DEF u

LEMMA JsonRowsAre ==
  ASSUME NEW ip, IpShape(ip), NEW o, OutShape(ip, o)
  PROVE  /\ IsSeq(JsonRows(ip, o))
         /\ \A r \in ToSet(JsonRows(ip, o)) : r \in ToSet(ip.rows) /\ r.file # None
         /\ \A c \in ToSet(o.configs) : \A r \in ToSet(Used(ip, ip.configs[c].sets)) :
              r.file # None => r \in ToSet(JsonRows(ip, o))
<1> DEFINE u == UsedBy(ip, o)
           all == FlattenSeq(u)
<1>1. /\ IsSeq(u) /\ DOMAIN o.configs = 1..Len(u)
      /\ \A i \in 1..Len(u) : /\ u[i] = Used(ip, ip.configs[o.configs[i]].sets) /\ IsSeq(u[i])
                              /\ ToSet(u[i]) \subseteq ToSet(ip.rows)
  BY UsedByIs
<1> HIDE DEF u
<1>2. /\ IsSeq(all)
      /\ \A x : x \in ToSet(all) <=> \E i \in 1..Len(u) : x \in ToSet(u[i])
  BY <1>1, FlattenMembers
<1> HIDE DEF all
<1>3. /\ IsSeq(WithFile(all)) /\ ToSet(WithFile(all)) = {r \in ToSet(all) : r.file # None}
  BY <1>2, WithFileIs
<1>4. JsonRows(ip, o) = WithFile(all)
  BY DEF JsonRows, all, u
<1>5. ASSUME NEW c \in ToSet(o.configs), NEW r \in ToSet(Used(ip, ip.configs[c].sets)),
             r.file # None
      PROVE  r \in ToSet(JsonRows(ip, o))
  <2>1. PICK i \in 1..Len(u) : c = o.configs[i]
    BY <1>1 DEF ToSet
  <2>2. r \in ToSet(u[i])
    BY <1>1, <2>1
  <2> QED  BY <1>2, <1>3, <1>4, <1>5, <2>2
<1> QED  BY <1>1, <1>2, <1>3, <1>4, <1>5

JsonCommands(u, configs) ==
  [i \in DOMAIN u |-> [j \in DOMAIN u[i] |-> Command(configs[i], u[i][j])]]

LEMMA JsonIs ==
  ASSUME NEW ip, NEW o
  PROVE  /\ Json(ip, o).body.commands = FlattenSeq(JsonCommands(UsedBy(ip, o), o.configs))
         /\ DOMAIN Json(ip, o).body.configurations = ToSet(o.configs)
         /\ \A c \in ToSet(o.configs) :
              /\ Json(ip, o).body.configurations[c].default = ip.configs[c].default
              /\ Json(ip, o).body.configurations[c].parameters
                   = [s \in {Stem[f] : f \in ip.files} \cap ShortsOf(JsonRows(ip, o)) |-> ip.variant]
         /\ DOMAIN Json(ip, o).body.parameters = ShortsOf(JsonRows(ip, o))
         /\ \A s \in ShortsOf(JsonRows(ip, o)) :
              Json(ip, o).body.parameters[s] = Parameter(ip, First(JsonRows(ip, o), s).file)
         /\ Json(ip, o).files
              = Listed(ip, Select(JsonRows(ip, o),
                  {First(JsonRows(ip, o), s) : s \in ShortsOf(JsonRows(ip, o))}))
BY DEF Json, JsonCommands, JsonRows

LEMMA JsonMade ==
  ASSUME NEW ip, IpShape(ip), NEW o, OutShape(ip, o)
  PROVE  /\ Body(Json(ip, o).body)
         /\ IsInjective(o.configs) => \A c \in ToSet(o.configs) :
              WindowFor(Json(ip, o).body.commands, c, CommandsFor(ip, c))
<1> DEFINE u == UsedBy(ip, o)
           s == JsonCommands(u, o.configs)
           b == Json(ip, o).body
<1>1. /\ IsSeq(u) /\ DOMAIN o.configs = 1..Len(u) /\ Len(u) \in Nat
      /\ \A i \in 1..Len(u) : /\ u[i] = Used(ip, ip.configs[o.configs[i]].sets) /\ IsSeq(u[i])
                              /\ o.configs[i] \in ToSet(o.configs)
  BY UsedByIs
<1>2. b.commands = FlattenSeq(s) /\ DOMAIN b.configurations = ToSet(o.configs)
  BY JsonIs
<1> HIDE DEF u, b
<1>3. IsSeq(s) /\ Len(s) = Len(u) /\ DOMAIN s = 1..Len(u)
  BY <1>1, MadeSeq, SeqShape DEF JsonCommands
<1>4. \A i \in 1..Len(u) : s[i] = [j \in DOMAIN u[i] |-> Command(o.configs[i], u[i][j])]
  BY <1>1, SeqShape DEF JsonCommands
<1> HIDE DEF s
<1>5. ASSUME NEW i \in 1..Len(s)
      PROVE  /\ IsSeq(s[i]) /\ DOMAIN s[i] = 1..Len(s[i])
             /\ s[i] = CommandsFor(ip, o.configs[i])
             /\ \A k \in 1..Len(s[i]) : s[i][k].restrict = o.configs[i]
  <2>1. s[i] = [j \in DOMAIN u[i] |-> Command(o.configs[i], u[i][j])] /\ IsSeq(u[i])
    BY <1>1, <1>3, <1>4
  <2>2. IsSeq(s[i])
    BY <2>1, MadeSeq
  <2>3. DOMAIN s[i] = 1..Len(s[i])
    BY <2>2, SeqShape
  <2>4. s[i] = CommandsFor(ip, o.configs[i])
    BY <1>1, <1>3, <2>1 DEF CommandsFor
  <2> QED  BY <2>1, <2>2, <2>3, <2>4 DEF Command
<1>6. /\ IsSeq(FlattenSeq(s))
      /\ \A x : x \in ToSet(FlattenSeq(s)) <=> \E i \in 1..Len(s) : x \in ToSet(s[i])
  BY <1>3, <1>5, FlattenMembers
<1>7. ASSUME NEW x \in ToSet(b.commands)
      PROVE  x.restrict \in ToSet(o.configs)
  <2>1. PICK i \in 1..Len(s) : x \in ToSet(s[i])
    BY <1>2, <1>6
  <2>2. PICK k \in 1..Len(s[i]) : x = s[i][k]
    BY <1>5, <2>1, Members
  <2> QED  BY <1>1, <1>3, <1>5, <2>2
<1>8. Body(b)
  BY <1>2, <1>6, <1>7 DEF Body
<1>9. ASSUME IsInjective(o.configs), NEW c \in ToSet(o.configs)
      PROVE  WindowFor(b.commands, c, CommandsFor(ip, c))
  <2>1. PICK i \in 1..Len(s) : c = o.configs[i]
    BY <1>1, <1>3 DEF ToSet
  <2>2. \A j \in 1..Len(s) : j # i => o.configs[j] # c
    BY <1>1, <1>3, <1>9, <2>1 DEF IsInjective
  <2> DEFINE S == For(b.commands, c)
  <2>3. \A k \in 1..Len(s[i]) : s[i][k] \in S
    <3> SUFFICES ASSUME NEW k \in 1..Len(s[i])
                 PROVE  s[i][k] \in S
      OBVIOUS
    <3>1. s[i][k] \in ToSet(s[i])
      BY <1>5, Members
    <3>2. s[i][k] \in ToSet(b.commands)
      BY <1>2, <1>6, <3>1
    <3> QED  BY <1>5, <2>1, <3>2 DEF For
  <2>4. \A j \in 1..Len(s) : j # i => \A k \in 1..Len(s[j]) : s[j][k] \notin S
    BY <1>5, <2>2 DEF For
  <2> HIDE DEF S
  <2>5. Window(FlattenSeq(s), S, s[i])
    BY <1>3, <1>5, <2>3, <2>4, WindowFlatten
  <2> QED  BY <1>2, <1>5, <2>1, <2>5 DEF WindowFor, S
<1> QED  BY <1>8, <1>9 DEF b

(* The files that an ini file names, as they are listed.                   *)
NamedBy(ip) == {<<r.source, Named(ip, r.file)>> : r \in {q \in ToSet(ip.rows) : q.file # None}}

AlsoBy(ip) == {<<x[1], <<x[2], None>>>> : x \in ToSet(ip.additional)}

LEMMA AdditionalIs ==
  ASSUME NEW ip, IpShape(ip)
  PROVE  IsSeq(Additional(ip)) /\ ToSet(Additional(ip)) = AlsoBy(ip)
<1> DEFINE s == ip.additional
           t == Additional(ip)
<1>1. t = [i \in DOMAIN s |-> <<s[i][1], <<s[i][2], None>>>>]
  BY DEF Additional
<1>2. IsSeq(s)
  BY DEF IpShape
<1> HIDE DEF t, s
<1>3. IsSeq(t)
  BY <1>1, <1>2, MadeSeq
<1>4. ToSet(t) = {<<x[1], <<x[2], None>>>> : x \in ToSet(s)}
  BY <1>1 DEF ToSet
<1> QED  BY <1>3, <1>4 DEF AlsoBy, s, t

LEMMA JsonFiles ==
  ASSUME NEW ip, IpShape(ip), NEW o, OutShape(ip, o)
  PROVE  /\ IsSeq(Json(ip, o).files) /\ ToSet(Json(ip, o).files) \subseteq NamedBy(ip)
         /\ \A s \in ShortsOf(JsonRows(ip, o)) :
              LET r == First(JsonRows(ip, o), s)
              IN  <<r.source, Named(ip, r.file)>> \in ToSet(Json(ip, o).files)
<1> DEFINE rows == JsonRows(ip, o)
           S == {First(rows, s) : s \in ShortsOf(rows)}
           kept == Select(rows, S)
<1>1. IsSeq(rows) /\ \A r \in ToSet(rows) : r \in ToSet(ip.rows) /\ r.file # None
  BY JsonRowsAre
<1>2. Json(ip, o).files = Listed(ip, kept)
  BY JsonIs
<1> HIDE DEF rows
<1>3. \A s \in ShortsOf(rows) : First(rows, s) \in ToSet(rows) /\ First(rows, s) \in S
  BY <1>1, FirstIs
<1> HIDE DEF S
<1>4. IsSeq(kept) /\ ToSet(kept) = ToSet(rows) \cap S
  BY <1>1, SelectMembers
<1> HIDE DEF kept
<1>5. /\ IsSeq(Listed(ip, kept))
      /\ ToSet(Listed(ip, kept)) = {<<r.source, Named(ip, r.file)>> : r \in ToSet(kept)}
  BY <1>4, ListedIs
<1>6. ToSet(Listed(ip, kept)) \subseteq NamedBy(ip)
  BY <1>1, <1>4, <1>5 DEF NamedBy
<1>7. \A s \in ShortsOf(rows) :
        <<First(rows, s).source, Named(ip, First(rows, s).file)>> \in ToSet(Listed(ip, kept))
  BY <1>3, <1>4, <1>5
<1> QED  BY <1>2, <1>5, <1>6, <1>7 DEF rows

-----------------------------------------------------------------------------
(* What has been made of the outputs D, when M is what is made of each.    *)
IsResult(r) ==
  /\ r = [name |-> r.name, kind |-> r.kind, body |-> r.body, parts |-> r.parts]
  /\ r.kind \in {"json", "cmd"}

(* The outputs with a name.                                                *)
With(ps, D, name) == {p \in D : OutOf(ps, p).name = name}

ResultFor(r, ps, D, M) ==
  /\ IsResult(r)
  /\ With(ps, D, r.name) # {}
  /\ \A p \in With(ps, D, r.name) : OutOf(ps, p).kind = r.kind
  /\ r.kind = "json" => BodyOf(r.body, M, With(ps, D, r.name))
  /\ r.kind = "cmd" => \A p \in With(ps, D, r.name) : r.body = M[p].body

ResultsFor(res, ps, D, M) ==
  /\ IsSeq(res)
  /\ \A i \in 1..Len(res) : ResultFor(res[i], ps, D, M)
  /\ \A i, j \in 1..Len(res) : res[i].name = res[j].name => i = j
  /\ \A p \in D : \E i \in 1..Len(res) : res[i].name = OutOf(ps, p).name

ListedFor(list, ps, D, M) ==
  /\ IsSeq(list)
  /\ \A p \in D : /\ ToSet(M[p].files) \subseteq ToSet(list)
                  /\ p[2] = 1 => AlsoBy(ps[p[1]]) \subseteq ToSet(list)
  /\ \A x \in ToSet(list) : \E k \in 1..Len(ps) : x \in NamedBy(ps[k]) \cup AlsoBy(ps[k])

MadeAll == [p \in Pairs(ips) |-> Made(ips[p[1]], OutOf(ips, p))]

LEMMA PairIs ==
  ASSUME NEW ps, Ips(ps), NEW p \in Pairs(ps)
  PROVE  /\ p[1] \in 1..Len(ps) /\ p[2] \in 1..Len(ps[p[1]].outputs) /\ p = <<p[1], p[2]>>
         /\ IpShape(ps[p[1]]) /\ OutShape(ps[p[1]], OutOf(ps, p))
<1>1. p[1] \in 1..Len(ps) /\ p[2] \in 1..Len(ps[p[1]].outputs) /\ p = <<p[1], p[2]>>
  BY DEF Pairs
<1>2. IpShape(ps[p[1]])
  BY <1>1 DEF Ips
<1> QED  BY <1>1, <1>2 DEF IpShape, OutOf

(* What is made of one output.                                             *)
LEMMA MadeIs ==
  ASSUME Ips(ips), NEW p \in Pairs(ips)
  PROVE  LET m == MadeAll[p]
             o == OutOf(ips, p)
         IN  /\ m = Made(ips[p[1]], o) /\ o.kind \in {"json", "cmd"}
             /\ o.kind = "json" => m = Json(ips[p[1]], o) /\ Body(m.body)
             /\ o.kind = "cmd" => m = Cmd(ips[p[1]], o)
             /\ IsSeq(m.files) /\ ToSet(m.files) \subseteq NamedBy(ips[p[1]])
<1> DEFINE ip == ips[p[1]]
           o == OutOf(ips, p)
<1>1. MadeAll[p] = Made(ip, o)
  BY DEF MadeAll
<1>2. IpShape(ip) /\ OutShape(ip, o)
  BY PairIs
<1> HIDE DEF ip, o
<1>3. o.kind \in {"json", "cmd"}
  BY <1>2 DEF OutShape
<1>4. CASE o.kind = "json"
  <2>1. Made(ip, o) = Json(ip, o)
    BY <1>4 DEF Made
  <2>2. Body(Json(ip, o).body) /\ IsSeq(Json(ip, o).files) /\ ToSet(Json(ip, o).files) \subseteq NamedBy(ip)
    BY <1>2, JsonMade, JsonFiles
  <2> QED  BY <1>1, <1>4, <2>1, <2>2 DEF ip, o
<1>5. CASE o.kind = "cmd"
  <2>1. Made(ip, o) = Cmd(ip, o)
    BY <1>5 DEF Made
  <2>2. /\ IsSeq(Cmd(ip, o).files) /\ ToSet(Lines(ip, o)) \subseteq ToSet(ip.rows)
        /\ ToSet(Cmd(ip, o).files)
             = {<<r.source, Named(ip, r.file)>> : r \in {q \in ToSet(Lines(ip, o)) : q.file # None}}
    BY <1>2, CmdMade
  <2>3. ToSet(Cmd(ip, o).files) \subseteq NamedBy(ip)
    BY <2>2 DEF NamedBy
  <2> QED  BY <1>1, <1>5, <2>1, <2>2, <2>3 DEF ip, o
<1> QED  BY <1>3, <1>4, <1>5

(* The options of a parameter are for the variant.                         *)
LEMMA JsonOptions ==
  ASSUME NEW ip, NEW o
  PROVE  \A s \in DOMAIN Json(ip, o).body.parameters :
           DOMAIN Json(ip, o).body.parameters[s].options \subseteq {ip.variant}
<1>1. Json(ip, o).body.parameters
        = [s \in ShortsOf(JsonRows(ip, o)) |-> Parameter(ip, First(JsonRows(ip, o), s).file)]
  BY DEF Json, JsonRows
<1>2. \A f : DOMAIN Parameter(ip, f).options \subseteq {ip.variant}
  BY DEF Parameter
<1> QED  BY <1>1, <1>2

(* Json bodies of the same name have nothing in common.                    *)
LEMMA MadeApart ==
  ASSUME Ips(ips), NEW p \in Pairs(ips), NEW q \in Pairs(ips), p # q,
         OutOf(ips, p).name = OutOf(ips, q).name
  PROVE  BodiesApart(MadeAll[p].body, MadeAll[q].body)
<1> DEFINE ip == ips[p[1]]
           iq == ips[q[1]]
           o == OutOf(ips, p)
           x == OutOf(ips, q)
<1>1. /\ o.kind = "json" /\ x.kind = "json" /\ p[1] # q[1]
      /\ ToSet(o.configs) \cap ToSet(x.configs) = {}
  BY DEF Ips, Apart
<1>2. MadeAll[p] = Json(ip, o) /\ MadeAll[q] = Json(iq, x)
  BY <1>1, MadeIs
<1>3. ip.variant # iq.variant
  BY <1>1, PairIs DEF Ips
<1>4. /\ \A s \in DOMAIN Json(ip, o).body.parameters :
           DOMAIN Json(ip, o).body.parameters[s].options \subseteq {ip.variant}
      /\ \A s \in DOMAIN Json(iq, x).body.parameters :
           DOMAIN Json(iq, x).body.parameters[s].options \subseteq {iq.variant}
  BY JsonOptions
<1>5. DOMAIN Json(ip, o).body.configurations = ToSet(o.configs)
  BY JsonIs
<1>6. DOMAIN Json(iq, x).body.configurations = ToSet(x.configs)
  BY JsonIs
<1> QED  BY <1>1, <1>2, <1>3, <1>4, <1>5, <1>6 DEF BodiesApart

(* One more result, for one more output.                                   *)
LEMMA OneMoreResult ==
  ASSUME NEW res, NEW ps, NEW D, NEW M, NEW p, ResultsFor(res, ps, D, M),
         NEW r, ResultFor(r, ps, D \cup {p}, M), r.name = OutOf(ps, p).name,
         \A i \in 1..Len(res) : res[i].name # r.name
  PROVE  ResultsFor(Append(res, r), ps, D \cup {p}, M)
<1> DEFINE s == Append(res, r)
           E == D \cup {p}
<1>1. /\ IsSeq(res) /\ Len(res) \in Nat /\ \A i \in 1..Len(res) : ResultFor(res[i], ps, D, M)
      /\ \A i, j \in 1..Len(res) : res[i].name = res[j].name => i = j
      /\ \A q \in D : \E i \in 1..Len(res) : res[i].name = OutOf(ps, q).name
  BY SeqShape DEF ResultsFor
<1>2. /\ IsSeq(s) /\ Len(s) = Len(res) + 1 /\ s[Len(res) + 1] = r
      /\ \A i \in 1..Len(res) : s[i] = res[i]
  BY <1>1, AppendShape
<1>3. ResultFor(r, ps, E, M)
  OBVIOUS
<1> HIDE DEF s, E
<1>4. ASSUME NEW i \in 1..Len(res)
      PROVE  ResultFor(res[i], ps, E, M)
  <2>1. ResultFor(res[i], ps, D, M)
    BY <1>1
  <2>2. With(ps, E, res[i].name) = With(ps, D, res[i].name)
    BY DEF With, E
  <2> QED  BY <2>1, <2>2 DEF ResultFor
<1>5. \A i \in 1..Len(s) : i \in 1..Len(res) \/ i = Len(res) + 1
  BY <1>1, <1>2
<1>6. \A i \in 1..Len(s) : ResultFor(s[i], ps, E, M)
  BY <1>2, <1>3, <1>4, <1>5
<1>7. \A i, j \in 1..Len(s) : s[i].name = s[j].name => i = j
  BY <1>1, <1>2, <1>5
<1>8. 1..Len(res) \subseteq 1..Len(s) /\ Len(res) + 1 \in 1..Len(s)
  BY <1>1, <1>2
<1>9. \A q \in E : \E i \in 1..Len(s) : s[i].name = OutOf(ps, q).name
  BY <1>1, <1>2, <1>8 DEF E
<1>10. ResultsFor(s, ps, E, M)
  BY <1>2, <1>6, <1>7, <1>9 DEF ResultsFor
<1> QED  BY <1>10 DEF s, E

(* Another result, for one more output with its name.                      *)
LEMMA OtherResult ==
  ASSUME NEW res, NEW ps, NEW D, NEW M, NEW p, ResultsFor(res, ps, D, M),
         NEW r, ResultFor(r, ps, D \cup {p}, M), r.name = OutOf(ps, p).name,
         NEW k \in 1..Len(res), res[k].name = r.name
  PROVE  ResultsFor([res EXCEPT ![k] = r], ps, D \cup {p}, M)
<1> DEFINE s == [res EXCEPT ![k] = r]
           E == D \cup {p}
<1>1. /\ IsSeq(res) /\ \A i \in 1..Len(res) : ResultFor(res[i], ps, D, M)
      /\ \A i, j \in 1..Len(res) : res[i].name = res[j].name => i = j
      /\ \A q \in D : \E i \in 1..Len(res) : res[i].name = OutOf(ps, q).name
  BY DEF ResultsFor
<1>2. /\ IsSeq(s) /\ Len(s) = Len(res)
      /\ \A i \in 1..Len(res) : s[i] = IF i = k THEN r ELSE res[i]
  BY <1>1, ExceptShape
<1>3. ResultFor(r, ps, E, M)
  OBVIOUS
<1> HIDE DEF s, E
<1>4. ASSUME NEW i \in 1..Len(res), i # k
      PROVE  ResultFor(res[i], ps, E, M)
  <2>1. ResultFor(res[i], ps, D, M) /\ res[i].name # r.name
    BY <1>1, <1>4
  <2>2. With(ps, E, res[i].name) = With(ps, D, res[i].name)
    BY <2>1 DEF With, E
  <2> QED  BY <2>1, <2>2 DEF ResultFor
<1>5. \A i \in 1..Len(res) : ResultFor(s[i], ps, E, M)
  BY <1>2, <1>3, <1>4
<1>6. \A i \in 1..Len(res) : s[i].name = res[i].name
  BY <1>2
<1>7. \A q \in E : \E i \in 1..Len(res) : s[i].name = OutOf(ps, q).name
  BY <1>1, <1>6 DEF E
<1>8. ResultsFor(s, ps, E, M)
  BY <1>1, <1>2, <1>5, <1>6, <1>7 DEF ResultsFor
<1> QED  BY <1>8 DEF s, E

(* What the turn for the output p does.                                    *)
LEMMA ResultsOfOne ==
  ASSUME Ips(ips), NEW D, D \subseteq Pairs(ips), ResultsFor(results, ips, D, MadeAll),
         NEW p \in Pairs(ips), p \notin D, Ip = ips[p[1]], Output = OutOf(ips, p), ParseOutput
  PROVE  ResultsFor(results', ips, D \cup {p}, MadeAll)
<1> DEFINE m == MadeAll[p]
           o == OutOf(ips, p)
           k == Found(o.name)
           E == D \cup {p}
<1>1. /\ m = Made(ips[p[1]], o) /\ o.kind \in {"json", "cmd"}
      /\ o.kind = "json" => Body(m.body)
  BY MadeIs
<1>2. results' = IF k = 0
                 THEN Append(results, [name |-> o.name, kind |-> o.kind,
                                       body |-> m.body, parts |-> <<>>])
                 ELSE [results EXCEPT ![k].body = Merge(m.body, @)]
  BY <1>1 DEF ParseOutput
<1>3. k # 0 => o.kind # "cmd" /\ ~CannotMerge(m.body, results[k].body)
  BY <1>1 DEF ParseOutput, ParseFails
<1>4. /\ IsSeq(results) /\ Len(results) \in Nat /\ DOMAIN results = 1..Len(results)
      /\ \A i \in 1..Len(results) : ResultFor(results[i], ips, D, MadeAll)
      /\ \A q \in D : \E i \in 1..Len(results) : results[i].name = OutOf(ips, q).name
  BY SeqShape DEF ResultsFor
<1>5. /\ k = 0 => \A i \in 1..Len(results) : results[i].name # o.name
      /\ k # 0 => k \in 1..Len(results) /\ results[k].name = o.name
  BY <1>4, FoundOrNot
<1> HIDE DEF m, o, k
<1>6. CASE k = 0
  <2> DEFINE r == [name |-> o.name, kind |-> o.kind, body |-> m.body, parts |-> <<>>]
  <2>1. With(ips, E, o.name) = {p}
    BY <1>4, <1>5, <1>6 DEF With, o
  <2>2. IsResult(r) /\ r.name = o.name /\ r.kind = o.kind /\ r.body = m.body
    BY <1>1 DEF IsResult
  <2> HIDE DEF r
  <2>3. o.kind = "json" => BodyOf(m.body, MadeAll, {p})
    <3>1. MadeAll[p].body = m.body
      BY DEF m
    <3> QED  BY <1>1, <3>1, BodyAlone
  <2>4. ResultFor(r, ips, E, MadeAll)
    BY <2>1, <2>2, <2>3 DEF ResultFor, m, o
  <2>5. ResultsFor(Append(results, r), ips, E, MadeAll)
    BY <1>5, <1>6, <2>2, <2>4, OneMoreResult DEF o
  <2> QED  BY <1>2, <1>6, <2>5 DEF r
<1>7. CASE k # 0
  <2> DEFINE b == results[k]
             r == [name |-> b.name, kind |-> b.kind, body |-> Merge(m.body, b.body),
                   parts |-> b.parts]
  <2>1. k \in 1..Len(results) /\ b.name = o.name /\ ResultFor(b, ips, D, MadeAll)
    BY <1>4, <1>5, <1>7
  <2>2. b = [name |-> b.name, kind |-> b.kind, body |-> b.body, parts |-> b.parts]
    BY <2>1 DEF ResultFor, IsResult
  <2> HIDE DEF b
  <2>3. [b EXCEPT !.body = Merge(m.body, @)] = r
    BY <2>2
  <2>4. [results EXCEPT ![k].body = Merge(m.body, @)] = [results EXCEPT ![k] = r]
    BY <1>4, <2>1, <2>3 DEF b
  <2>5. /\ r = [name |-> r.name, kind |-> r.kind, body |-> r.body, parts |-> r.parts]
        /\ r.name = b.name /\ r.kind = b.kind /\ r.body = Merge(m.body, b.body)
    OBVIOUS
  <2> HIDE DEF r
  <2>6. \A q \in With(ips, D, o.name) :
          /\ OutOf(ips, q).name = OutOf(ips, p).name /\ q \in Pairs(ips) /\ q # p
          /\ BodiesApart(m.body, MadeAll[q].body)
    <3> TAKE q \in With(ips, D, o.name)
    <3>1. OutOf(ips, q).name = OutOf(ips, p).name /\ q \in Pairs(ips) /\ q # p
      BY DEF With, o
    <3> QED  BY <3>1, MadeApart DEF m
  <2>7. With(ips, D, o.name) # {} /\ b.kind = "json" /\ o.kind = "json"
    <3>1. With(ips, D, o.name) # {}
      BY <2>1 DEF ResultFor
    <3>2. PICK q \in With(ips, D, o.name) : TRUE
      BY <3>1
    <3>3. OutOf(ips, q).kind = b.kind
      BY <2>1 DEF ResultFor
    <3> QED  BY <3>1, <3>3, <2>6 DEF Ips, Apart, o
  <2>8. BodyOf(b.body, MadeAll, With(ips, D, o.name))
    BY <2>1, <2>7 DEF ResultFor
  <2>9. BodyOf(Merge(m.body, b.body), MadeAll, With(ips, D, o.name) \cup {p})
    <3> DEFINE W == With(ips, D, o.name)
    <3>1. /\ BodyOf(b.body, MadeAll, W) /\ Body(m.body) /\ MadeAll[p].body = m.body
          /\ ~CannotMerge(m.body, b.body) /\ \A q \in W : BodiesApart(m.body, MadeAll[q].body)
      BY <1>1, <1>3, <1>7, <2>6, <2>7, <2>8 DEF m, b
    <3> HIDE DEF W
    <3> QED  BY <3>1, MergeKeeps DEF W
  <2>10. With(ips, E, o.name) = With(ips, D, o.name) \cup {p}
    BY DEF With, o
  <2>11. \A q \in With(ips, E, o.name) : OutOf(ips, q).kind = b.kind
    BY <2>1, <2>7, <2>10 DEF ResultFor, o
  <2>12. ResultFor(r, ips, E, MadeAll)
    BY <2>1, <2>5, <2>7, <2>9, <2>10, <2>11 DEF ResultFor, IsResult
  <2>13. ResultsFor([results EXCEPT ![k] = r], ips, E, MadeAll)
    BY <2>1, <2>5, <2>12, OtherResult DEF b, o
  <2> QED  BY <1>2, <1>7, <2>4, <2>13
<1> QED  BY <1>6, <1>7

(* What the turn for the output p lists.                                   *)
LEMMA ListedOfOne ==
  ASSUME Ips(ips), NEW D, D \subseteq Pairs(ips), ListedFor(listed, ips, D, MadeAll),
         NEW p \in Pairs(ips), p = Queue[at], Ip = ips[p[1]], Output = OutOf(ips, p), ParseOutput
  PROVE  ListedFor(listed', ips, D \cup {p}, MadeAll)
<1> DEFINE ip == ips[p[1]]
           m == MadeAll[p]
           a == IF p[2] = 1 THEN Additional(ip) ELSE <<>>
<1>1. /\ m = Made(ip, OutOf(ips, p)) /\ IsSeq(m.files) /\ ToSet(m.files) \subseteq NamedBy(ip)
      /\ p[1] \in 1..Len(ips) /\ IpShape(ip)
  BY MadeIs, PairIs
<1>2. listed' = (listed \o a) \o m.files
  BY <1>1 DEF ParseOutput
<1>3. /\ IsSeq(listed)
      /\ \A q \in D : /\ ToSet(MadeAll[q].files) \subseteq ToSet(listed)
                      /\ q[2] = 1 => AlsoBy(ips[q[1]]) \subseteq ToSet(listed)
      /\ \A x \in ToSet(listed) : \E k \in 1..Len(ips) : x \in NamedBy(ips[k]) \cup AlsoBy(ips[k])
  BY DEF ListedFor
<1>4. IsSeq(a) /\ ToSet(a) \subseteq AlsoBy(ip) /\ (p[2] = 1 => ToSet(a) = AlsoBy(ip))
  <2>1. CASE p[2] = 1
    BY <1>1, <2>1, AdditionalIs
  <2>2. CASE p[2] # 1
    BY <2>2, NoSeq
  <2> QED  BY <2>1, <2>2
<1> HIDE DEF a
<1>5. IsSeq(listed \o a) /\ ToSet(listed \o a) = ToSet(listed) \cup ToSet(a)
  BY <1>3, <1>4, CatMembers
<1>6. /\ IsSeq((listed \o a) \o m.files)
      /\ ToSet((listed \o a) \o m.files) = ToSet(listed \o a) \cup ToSet(m.files)
  BY <1>1, <1>5, CatMembers
<1>7. IsSeq(listed') /\ ToSet(listed') = ToSet(listed) \cup ToSet(a) \cup ToSet(m.files)
  BY <1>2, <1>5, <1>6
<1>8. \A x \in ToSet(listed') : \E k \in 1..Len(ips) : x \in NamedBy(ips[k]) \cup AlsoBy(ips[k])
  BY <1>1, <1>3, <1>4, <1>7
<1>9. \A q \in D \cup {p} : /\ ToSet(MadeAll[q].files) \subseteq ToSet(listed')
                            /\ q[2] = 1 => AlsoBy(ips[q[1]]) \subseteq ToSet(listed')
  BY <1>3, <1>4, <1>7
<1> QED  BY <1>7, <1>8, <1>9 DEF ListedFor

(* Other names of parts change no command.                                 *)
LEMMA SameResults ==
  ASSUME NEW res, NEW s, NEW ps, NEW D, NEW M, ResultsFor(res, ps, D, M),
         IsSeq(s), Len(s) = Len(res),
         \A i \in 1..Len(res) : /\ IsResult(s[i]) /\ s[i].name = res[i].name
                                /\ s[i].kind = res[i].kind /\ s[i].body = res[i].body
  PROVE  ResultsFor(s, ps, D, M)
<1>1. ASSUME NEW i \in 1..Len(s)
      PROVE  ResultFor(s[i], ps, D, M)
  <2>1. ResultFor(res[i], ps, D, M)
    BY DEF ResultsFor
  <2> QED  BY <2>1 DEF ResultFor
<1> QED  BY <1>1 DEF ResultsFor

(* Nor does another order.                                                 *)
LEMMA OrderedResults ==
  ASSUME NEW ps, NEW D, NEW M, ResultsFor(results, ps, D, M), NEW s \in Orders
  PROVE  /\ ResultsFor(s, ps, D, M) /\ Len(s) = Len(results)
         /\ \A i \in 1..Len(s) : \E j \in 1..Len(results) : s[i] = results[j]
<1>1. /\ IsSeq(results) /\ Len(results) \in Nat /\ DOMAIN results = 1..Len(results)
      /\ \A i \in 1..Len(results) : ResultFor(results[i], ps, D, M)
      /\ \A i, j \in 1..Len(results) : results[i].name = results[j].name => i = j
      /\ \A q \in D : \E i \in 1..Len(results) : results[i].name = OutOf(ps, q).name
  BY SeqShape DEF ResultsFor
<1>2. CASE setup.python3
  BY <1>1, <1>2 DEF Orders
<1>3. CASE ~setup.python3
  <2>1. PICK p \in Bijection(DOMAIN results, DOMAIN results) :
          s = [i \in DOMAIN results |-> results[p[i]]]
    BY <1>3 DEF Orders
  <2>2. /\ \A i \in 1..Len(results) : p[i] \in 1..Len(results)
        /\ \A i, j \in 1..Len(results) : p[i] = p[j] => i = j
        /\ \A j \in 1..Len(results) : \E i \in 1..Len(results) : p[i] = j
    <3>1. /\ \A i \in DOMAIN results : p[i] \in DOMAIN results
          /\ \A i, j \in DOMAIN results : p[i] = p[j] => i = j
          /\ \A j \in DOMAIN results : \E i \in DOMAIN results : p[i] = j
      BY DEF Bijection, Injection, Surjection, IsInjective
    <3>2. DOMAIN results = 1..Len(results)
      BY <1>1
    <3> QED  BY ONLY <3>1, <3>2
  <2>3. /\ IsSeq(s) /\ Len(s) = Len(results)
        /\ \A i \in 1..Len(results) : s[i] = results[p[i]]
    BY <1>1, <2>1, MadeSeq
  <2>4. \A i \in 1..Len(s) : ResultFor(s[i], ps, D, M)
    BY <1>1, <2>2, <2>3
  <2>5. \A i, j \in 1..Len(s) : s[i].name = s[j].name => i = j
    <3> TAKE i, j \in 1..Len(s)
    <3>1. s[i] = results[p[i]] /\ s[j] = results[p[j]]
      BY <2>3
    <3>2. p[i] \in 1..Len(results) /\ p[j] \in 1..Len(results) /\ (p[i] = p[j] => i = j)
      BY <2>2, <2>3
    <3> QED  BY <1>1, <3>1, <3>2
  <2>6. \A q \in D : \E i \in 1..Len(s) : s[i].name = OutOf(ps, q).name
    <3> TAKE q \in D
    <3>1. PICK j \in 1..Len(results) : results[j].name = OutOf(ps, q).name
      BY <1>1
    <3>2. PICK i \in 1..Len(results) : p[i] = j
      BY <2>2
    <3> QED  BY <2>3, <3>1, <3>2
  <2>7. \A i \in 1..Len(s) : \E j \in 1..Len(results) : s[i] = results[j]
    BY <2>2, <2>3
  <2> QED  BY <2>3, <2>4, <2>5, <2>6, <2>7 DEF ResultsFor
<1> QED  BY <1>2, <1>3

-----------------------------------------------------------------------------
(* The invariant. Which ini files there are: of those of the variants, gen,*)
(* the ones before the n-th, and the default that was kept in the first.   *)
GeneratedTo(ps, n, kept, gen, first) ==
  /\ IsSeq(ps) /\ Len(ps) = n - 1 /\ n - 1 <= Len(gen)
  /\ \A k \in 1..(n - 1) : ps[k] = gen[k]
  /\ kept = IF n = 1 THEN None ELSE first

InputInv ==
  /\ setup \in Setups /\ at \in Nat \ {0}
  /\ pc \in {"parse", "variants", "parse_variants", "images", "done", "iso", "failed"}
  /\ pc = "parse" => ips = <<ini>> /\ default_config = None
  /\ pc = "variants" => GeneratedTo(ips, at, default_config, Gen, FirstDefault)
  /\ pc \in {"variants", "parse_variants"} => setup.variants # <<>>
  /\ pc = "parse_variants" => ips = Gen
  /\ pc \in {"images", "done", "iso"} => ips = FinalIps

(* Once a variant has its ini file no configuration is in two outputs.     *)
OnceInv ==
  /\ pc = "variants" => at = 1 \/ IsInjective(Variantized)
  /\ pc \in {"parse_variants", "images", "done", "iso"} /\ setup.variants # <<>>
       => IsInjective(Variantized)

(* What has been parsed of them, and what is known of it at the end.       *)
Turns == {Queue[q] : q \in 1..(at - 1)}

ParseInv ==
  /\ Parsing => /\ at <= Len(Queue) + 1
                /\ ResultsFor(results, ips, Turns, MadeAll)
                /\ ListedFor(listed, ips, Turns, MadeAll)
                /\ \A i \in 1..Len(results) : results[i].parts = <<>>
  /\ pc = "variants" => listed = <<>> /\ results = <<>>
  /\ pc \in {"images", "done", "iso"} => /\ ResultsFor(results, ips, Pairs(ips), MadeAll)
                                         /\ ListedFor(listed, ips, Pairs(ips), MadeAll)

(* The files of the generic ini file, without a variant.                   *)
FilesInv ==
  pc \notin {"parse", "failed"} =>
    /\ IsSeq(files) /\ AlsoBy(ini) \subseteq ToSet(files)
    /\ ToSet(files) \subseteq NamedBy(ini) \cup AlsoBy(ini)

(* An entry of the zip is the target of a job that has had its turn.       *)
ZipInv ==
  /\ Parsing \/ pc = "variants" => DOMAIN zip = {}
  /\ pc \in {"images", "done", "iso"} =>
       \A t \in DOMAIN zip : \E job \in ToSet(Jobs) :
         t = job.target /\ zip[t] = Content(job.source, job.file, job.variant)
  /\ pc = "images" => \A i \in 1..(at - 1) : Jobs[i].target \in DOMAIN zip
  /\ pc \in {"done", "iso"} => \A job \in ToSet(Jobs) : job.target \in DOMAIN zip

(* The second result has the parts of every image that is cut, the ISO the *)
(* pieces.                                                                 *)
Pieces(t) == (setup.size[t[1]] + Part - 2) \div (Part - 1)

IsoOf == {<<t>> : t \in {u \in DOMAIN zip : ~(setup.size[u[1]] > Part)}}
           \cup UNION {{<<t, i>> : i \in 0..(Pieces(t) - 1)} :
                         t \in {u \in DOMAIN zip : setup.size[u[1]] > Part}}

PartsInv ==
  /\ pc \in {"images", "done", "iso"} /\ Len(results) >= 2 =>
       /\ DOMAIN results[2].parts = {t \in DOMAIN zip : Big(t[1])}
       /\ \A t \in DOMAIN results[2].parts : results[2].parts[t] = NumberOfParts(t[1])
  /\ pc = "iso" => ~setup.fast /\ iso = IsoOf

FlashIInv ==
  FlashTypeOK /\ InputInv /\ OnceInv /\ ParseInv /\ FilesInv /\ ZipInv /\ PartsInv

-----------------------------------------------------------------------------
(* What changes only when the inputs do, the ini files do, or the lists do.*)
LEMMA SetupSame ==
  ASSUME setup' = setup
  PROVE  /\ ini' = ini /\ FirstDefault' = FirstDefault /\ Gen' = Gen /\ FinalIps' = FinalIps
         /\ Variantized' = Variantized
<1>1. FirstDefault' = FirstDefault
  BY DEF Variantized, FirstDefault, SelectInSeq, ini
<1>3. Variantized' = Variantized
  BY DEF Variantized, ini
<1>2. Gen' = Gen
  BY <1>1 DEF Gen, GenIp, AdditionalOf, RowsOf, FilesOf, Variantized, OutputsOf, ini
<1> QED  BY <1>1, <1>2, <1>3 DEF FinalIps, ini

LEMMA IpsSame ==
  ASSUME setup' = setup, ips' = ips
  PROVE  MadeAll' = MadeAll /\ Queue' = Queue
<1>1. MadeAll' = MadeAll
  BY DEF MadeAll, Made, Json, Cmd, Lines, UsedBy, Used
<1>2. Queue' = Queue
  BY DEF Queue
<1> QED  BY <1>1, <1>2

LEMMA JobsSame ==
  ASSUME setup' = setup, files' = files, listed' = listed
  PROVE  Jobs' = Jobs
BY DEF Jobs, Skipped, TargetOut, CmdFiles, Excluded, Included, Dropped, AdditionalOf, ini, Job

(* The jobs: of the files of the generic ini file, and those on top.       *)
FileJob(job) ==
  \E x \in ToSet(files), v \in ToSet(setup.variants) :
    ~Skipped(x[2][1], v) /\ job = Job(x[1], x[2][1], v, TargetOut(x[2][1], v))

OwnJob(job) ==
  \E v \in ToSet(setup.variants) : \E y \in Included(v) :
    job = Job(y[1], y[2], v, VariantFilename(y[2], v))

LEMMA JobsAre ==
  ASSUME setup \in Setups, IsSeq(files)
  PROVE  /\ IsSeq(Jobs)
         /\ setup.variants = <<>> =>
              \A job : job \in ToSet(Jobs)
                         <=> \E x \in ToSet(files) : job = Job(x[1], x[2][1], None, x[2])
         /\ setup.variants # <<>> =>
              \A job : job \in ToSet(Jobs) <=> FileJob(job) \/ OwnJob(job)
<1> DEFINE vs == setup.variants
<1>1. IsSeq(vs) /\ Len(vs) \in Nat /\ DOMAIN vs = 1..Len(vs)
  BY SetupIs, SeqShape
<1>2. Len(files) \in Nat /\ DOMAIN files = 1..Len(files)
  BY SeqShape
<1>3. CASE vs = <<>>
  <2> DEFINE s == [i \in DOMAIN files |-> Job(files[i][1], files[i][2][1], None, files[i][2])]
  <2>1. Jobs = s
    BY <1>3 DEF Jobs
  <2>2. IsSeq(s) /\ Len(s) = Len(files)
    BY MadeSeq
  <2>3. \A i \in 1..Len(s) : s[i] = Job(files[i][1], files[i][2][1], None, files[i][2])
    BY <1>2, <2>2
  <2> HIDE DEF s
  <2>4. \A job : job \in ToSet(s)
                   <=> \E x \in ToSet(files) : job = Job(x[1], x[2][1], None, x[2])
    BY <2>2, <2>3, Members
  <2> QED  BY <1>3, <2>1, <2>2, <2>4
<1>4. CASE vs # <<>>
  <2> DEFINE W(f) == {v \in ToSet(vs) : ~Skipped(f, v)}
             w(f) == Select(vs, W(f))
             A(x) == [j \in DOMAIN w(x[2][1]) |->
                        Job(x[1], x[2][1], w(x[2][1])[j], TargetOut(x[2][1], w(x[2][1])[j]))]
             O(v) == [j \in DOMAIN SetToSeq(Included(v)) |->
                        Job(SetToSeq(Included(v))[j][1], SetToSeq(Included(v))[j][2], v,
                            VariantFilename(SetToSeq(Included(v))[j][2], v))]
             a == [i \in DOMAIN files |-> A(files[i])]
             o == [i \in DOMAIN vs |-> O(vs[i])]
  <2>1. Jobs = FlattenSeq(a) \o FlattenSeq(o)
    BY <1>4 DEF Jobs
  <2>2. ASSUME NEW x
        PROVE  /\ IsSeq(A(x))
               /\ \A job : job \in ToSet(A(x)) <=>
                    \E v \in ToSet(vs) : /\ ~Skipped(x[2][1], v)
                                         /\ job = Job(x[1], x[2][1], v, TargetOut(x[2][1], v))
    <3> DEFINE u == w(x[2][1])
               t == A(x)
    <3>1. IsSeq(u) /\ ToSet(u) = ToSet(vs) \cap W(x[2][1])
      BY <1>1, SelectMembers
    <3>2. t = [j \in DOMAIN u |-> Job(x[1], x[2][1], u[j], TargetOut(x[2][1], u[j]))]
      OBVIOUS
    <3> HIDE DEF u, t
    <3>3. IsSeq(t) /\ Len(t) = Len(u)
      BY <3>1, <3>2, MadeSeq
    <3>4. \A j \in 1..Len(t) : t[j] = Job(x[1], x[2][1], u[j], TargetOut(x[2][1], u[j]))
      BY <3>1, <3>2, <3>3, SeqShape
    <3>5. \A job : job \in ToSet(t) <=>
                     \E v \in ToSet(u) : job = Job(x[1], x[2][1], v, TargetOut(x[2][1], v))
      BY <3>1, <3>3, <3>4, Members
    <3> QED  BY <3>1, <3>3, <3>5 DEF t
  <2>3. ASSUME NEW v \in ToSet(vs)
        PROVE  /\ IsSeq(O(v))
               /\ \A job : job \in ToSet(O(v)) <=>
                    \E y \in Included(v) : job = Job(y[1], y[2], v, VariantFilename(y[2], v))
    <3> DEFINE u == SetToSeq(Included(v))
               t == O(v)
    <3>1. IsFiniteSet(Included(v))
      <4>1. IsFiniteSet(ToSet(AdditionalOf(v)))
        BY AdditionalOfIs, ToSetFinite
      <4> QED  BY <4>1, FS_Subset DEF Included
    <3>2. IsSeq(u) /\ ToSet(u) = Included(v)
      BY <3>1, SetToSeqMembers
    <3>3. t = [j \in DOMAIN u |-> Job(u[j][1], u[j][2], v, VariantFilename(u[j][2], v))]
      OBVIOUS
    <3> HIDE DEF u, t
    <3>4. IsSeq(t) /\ Len(t) = Len(u)
      BY <3>2, <3>3, MadeSeq
    <3>5. \A j \in 1..Len(t) : t[j] = Job(u[j][1], u[j][2], v, VariantFilename(u[j][2], v))
      BY <3>2, <3>3, <3>4, SeqShape
    <3>6. \A job : job \in ToSet(t) <=>
                     \E y \in ToSet(u) : job = Job(y[1], y[2], v, VariantFilename(y[2], v))
      BY <3>2, <3>4, <3>5, Members
    <3> QED  BY <3>2, <3>4, <3>6 DEF t
  <2> HIDE DEF A, O
  <2>4. /\ IsSeq(a) /\ Len(a) = Len(files) /\ \A i \in 1..Len(a) : a[i] = A(files[i])
        /\ IsSeq(o) /\ Len(o) = Len(vs) /\ \A i \in 1..Len(o) : o[i] = O(vs[i])
    BY <1>1, <1>2, MadeSeq
  <2> HIDE DEF a, o
  <2>5. /\ IsSeq(FlattenSeq(a))
        /\ \A x : x \in ToSet(FlattenSeq(a)) <=> \E i \in 1..Len(a) : x \in ToSet(a[i])
    BY <2>2, <2>4, FlattenMembers
  <2>6. \A i \in 1..Len(o) : vs[i] \in ToSet(vs)
    BY <1>1, <2>4, Members
  <2>7. /\ IsSeq(FlattenSeq(o))
        /\ \A x : x \in ToSet(FlattenSeq(o)) <=> \E i \in 1..Len(o) : x \in ToSet(o[i])
    BY <2>3, <2>4, <2>6, FlattenMembers
  <2>8. \A job : job \in ToSet(FlattenSeq(a)) <=> FileJob(job)
    <3>1. \A job : job \in ToSet(FlattenSeq(a)) <=> \E x \in ToSet(files) : job \in ToSet(A(x))
      BY <2>4, <2>5, Members
    <3> QED  BY <2>2, <3>1 DEF FileJob
  <2>9. \A job : job \in ToSet(FlattenSeq(o)) <=> OwnJob(job)
    <3>1. \A job : job \in ToSet(FlattenSeq(o)) <=> \E v \in ToSet(vs) : job \in ToSet(O(v))
      BY <1>1, <2>4, <2>7, Members
    <3> QED  BY <2>3, <3>1 DEF OwnJob
  <2>10. /\ IsSeq(FlattenSeq(a) \o FlattenSeq(o))
         /\ ToSet(FlattenSeq(a) \o FlattenSeq(o)) = ToSet(FlattenSeq(a)) \cup ToSet(FlattenSeq(o))
    BY <2>5, <2>7, CatMembers
  <2> QED  BY <1>4, <2>1, <2>8, <2>9, <2>10
<1> QED  BY <1>3, <1>4

-----------------------------------------------------------------------------
(* The invariant holds at the start.                                       *)
LEMMA FlashInitInv == FlashInit => FlashIInv
<1> SUFFICES ASSUME FlashInit
             PROVE  FlashIInv
  OBVIOUS
<1>1. /\ setup \in Setups /\ pc = "parse" /\ at = 1 /\ ips = <<ini>> /\ default_config = None
      /\ results = <<>> /\ listed = <<>> /\ files = <<>> /\ DOMAIN zip = {}
  BY DEF FlashInit, ini
<1>2. FlashTypeOK
  BY <1>1, NoSeq DEF FlashTypeOK
<1>3. InputInv /\ OnceInv
  BY <1>1 DEF InputInv, OnceInv
<1>4. ParseInv
  <2>1. Ips(ips) /\ Queue = QueueOf(ips)
    BY <1>1, IniIps DEF Queue, QueueOf
  <2>2. Len(Queue) \in Nat
    BY <2>1, QueueIs
  <2>3. Turns = {}
    BY <1>1 DEF Turns
  <2>4. \A M : ResultsFor(<<>>, ips, {}, M) /\ ListedFor(<<>>, ips, {}, M)
    BY NoSeq DEF ResultsFor, ListedFor
  <2> QED  BY <1>1, <2>2, <2>3, <2>4, NoSeq DEF ParseInv
<1>5. FilesInv /\ ZipInv /\ PartsInv
  BY <1>1 DEF FilesInv, ZipInv, PartsInv
<1> QED  BY <1>2, <1>3, <1>4, <1>5 DEF FlashIInv

(* Every action keeps the program with its inputs.                         *)
LEMMA SetupKept ==
  ASSUME FlashNext
  PROVE  setup' = setup /\ (pc # "variants" => ips' = ips \/ pc' = "variants")
BY DEF FlashNext, ParseOutput, MergeFails, GenericParsed, VariantsParsed, GenerateVariantIp,
       VariantizeFails, Variantize, ProcessImage, ImageFails, WriteResults, MakeIso

LEMMA InputStep ==
  ASSUME InputInv, FlashNext
  PROVE  InputInv'
<1>1. /\ setup' = setup /\ setup \in Setups
      /\ ini' = ini /\ FirstDefault' = FirstDefault /\ Gen' = Gen /\ FinalIps' = FinalIps
  BY SetupKept, SetupSame DEF InputInv
<1>11. at \in Nat \ {0}
  BY DEF InputInv
<1>2. /\ pc = "parse" => ips = <<ini>> /\ default_config = None
      /\ pc = "variants" => GeneratedTo(ips, at, default_config, Gen, FirstDefault)
      /\ pc \in {"variants", "parse_variants"} => setup.variants # <<>>
      /\ pc = "parse_variants" => ips = Gen
      /\ pc \in {"images", "done", "iso"} => ips = FinalIps
  BY DEF InputInv
<1>3. IsSeq(Gen) /\ Len(Gen) = Len(setup.variants) /\ Len(Gen) \in Nat
  BY <1>1, GenIsSeq, SeqShape
<1>4. CASE ParseOutput \/ ProcessImage
  <2>1. /\ pc' = pc /\ ips' = ips /\ default_config' = default_config /\ at' = at + 1
        /\ pc \in {"parse", "parse_variants", "images"}
    BY <1>4 DEF ParseOutput, ProcessImage, Parsing
  <2>2. at' \in Nat \ {0}
    BY ONLY <1>11, <2>1
  <2> QED  BY <1>1, <1>2, <2>1, <2>2 DEF InputInv
<1>5. CASE MergeFails \/ VariantizeFails \/ ImageFails
  <2>1. pc' = "failed" /\ at' = at
    BY <1>5 DEF MergeFails, VariantizeFails, ImageFails
  <2> QED  BY <1>1, <1>11, <2>1 DEF InputInv
<1>6. CASE GenericParsed
  <2>1. /\ pc = "parse" /\ at' = 1 /\ default_config' = default_config
        /\ IF setup.variants = <<>> THEN pc' = "images" /\ ips' = ips
           ELSE pc' = "variants" /\ ips' = <<>>
    BY <1>6 DEF GenericParsed
  <2>2. setup.variants = <<>> => FinalIps = <<ini>>
    BY DEF FinalIps
  <2>3. GeneratedTo(<<>>, 1, None, Gen, FirstDefault)
    BY <1>3, NoSeq DEF GeneratedTo
  <2>4. 1 \in Nat \ {0}
    OBVIOUS
  <2>5. CASE setup.variants = <<>>
    BY <1>1, <1>2, <2>1, <2>2, <2>4, <2>5 DEF InputInv
  <2>6. CASE setup.variants # <<>>
    <3>1. GeneratedTo(ips', at', default_config', Gen, FirstDefault)
      BY <1>2, <2>1, <2>3, <2>6
    <3> QED  BY <1>1, <2>1, <2>4, <2>6, <3>1 DEF InputInv
  <2> QED  BY <2>5, <2>6
<1>7. CASE VariantsParsed
  <2>1. pc = "parse_variants" /\ pc' = "images" /\ at' = 1 /\ ips' = ips
    BY <1>7 DEF VariantsParsed
  <2>2. ips = FinalIps
    BY <1>2, <2>1 DEF FinalIps
  <2>3. 1 \in Nat \ {0}
    OBVIOUS
  <2> QED  BY <1>1, <2>1, <2>2, <2>3 DEF InputInv
<1>8. CASE GenerateVariantIp
  <2> DEFINE v == setup.variants[at]
             n == Len(setup.variants)
  <2>1. /\ pc = "variants" /\ pc' = pc /\ at <= n /\ ips' = Append(ips, VariantIp(v))
        /\ default_config' = IF default_config = None THEN KeptDefault ELSE default_config
        /\ at' = at + 1
    BY <1>8 DEF GenerateVariantIp
  <2>2. /\ IsSeq(ips) /\ Len(ips) = at - 1 /\ at - 1 <= Len(Gen)
        /\ \A k \in 1..(at - 1) : ips[k] = Gen[k]
        /\ default_config = IF at = 1 THEN None ELSE FirstDefault
    BY <1>2, <2>1 DEF GeneratedTo
  <2>3. KeptDefault = IF default_config = None THEN FirstDefault ELSE None
    BY <1>1, FirstDefaultIs
  <2>4. KeptDefault = IF at = 1 THEN FirstDefault ELSE None
    BY <2>2, <2>3
  <2>5. at \in 1..n
    BY <1>11, <1>3, <2>1
  <2>6. VariantIp(v) = Gen[at]
    BY <2>4, <2>5, VariantIpIs DEF Gen
  <2>7. /\ IsSeq(ips') /\ Len(ips') = Len(ips) + 1
        /\ \A k \in 1..Len(ips) : ips'[k] = ips[k]
        /\ ips'[Len(ips) + 1] = VariantIp(v)
    BY <2>1, <2>2, AppendShape
  <2>8. default_config' = FirstDefault
    BY <2>1, <2>2, <2>3
  <2>9. at' \in Nat \ {0} /\ at' - 1 = at /\ at' # 1 /\ at <= Len(Gen)
    BY ONLY <1>11, <1>3, <2>1
  <2>10. /\ Len(ips) + 1 = at /\ Len(ips') = at
         /\ \A k \in 1..at : k \in 1..(at - 1) \/ k = at
    BY ONLY <1>11, <2>2, <2>7
  <2>11. \A k \in 1..at : ips'[k] = Gen[k]
    BY <2>2, <2>6, <2>7, <2>10
  <2>12. GeneratedTo(ips', at', default_config', Gen, FirstDefault)
    BY <2>7, <2>8, <2>9, <2>10, <2>11 DEF GeneratedTo
  <2> QED  BY <1>1, <1>2, <2>1, <2>9, <2>12 DEF InputInv
<1>9. CASE Variantize
  <2>1. /\ pc = "variants" /\ at > Len(setup.variants) /\ pc' = "parse_variants" /\ at' = 1
        /\ ips' = ips
    BY <1>9 DEF Variantize
  <2>2. /\ IsSeq(ips) /\ Len(ips) = at - 1 /\ at - 1 <= Len(Gen)
        /\ \A k \in 1..(at - 1) : ips[k] = Gen[k]
    BY <1>2, <2>1 DEF GeneratedTo
  <2>3. Len(ips) = Len(Gen) /\ \A k \in 1..Len(ips) : ips[k] = Gen[k]
    BY ONLY <1>11, <1>3, <2>1, <2>2
  <2>4. ips = Gen
    BY <1>3, <2>2, <2>3, SeqSame
  <2>5. 1 \in Nat \ {0} /\ setup.variants # <<>>
    BY <1>2, <2>1
  <2> QED  BY <1>1, <2>1, <2>4, <2>5 DEF InputInv
<1>10. CASE WriteResults \/ MakeIso
  <2>1. pc \in {"images", "done"} /\ pc' \in {"done", "iso"} /\ ips' = ips /\ at' = at
    BY <1>10 DEF WriteResults, MakeIso
  <2> QED  BY <1>1, <1>2, <1>11, <2>1 DEF InputInv
<1> QED  BY <1>4, <1>5, <1>6, <1>7, <1>8, <1>9, <1>10 DEF FlashNext

LEMMA OnceStep ==
  ASSUME InputInv, OnceInv, FlashNext
  PROVE  OnceInv'
<1>1. /\ setup' = setup /\ setup \in Setups /\ Variantized' = Variantized
      /\ at \in Nat \ {0}
  BY SetupKept, SetupSame DEF InputInv
<1>2. CASE ParseOutput \/ ProcessImage
  <2>1. pc' = pc /\ pc # "variants"
    BY <1>2 DEF ParseOutput, ProcessImage, Parsing
  <2> QED  BY <1>1, <2>1 DEF OnceInv
<1>3. CASE MergeFails \/ VariantizeFails \/ ImageFails
  <2>1. pc' = "failed"
    BY <1>3 DEF MergeFails, VariantizeFails, ImageFails
  <2> QED  BY <2>1 DEF OnceInv
<1>4. CASE GenericParsed
  <2>1. at' = 1 /\ IF setup.variants = <<>> THEN pc' = "images" ELSE pc' = "variants"
    BY <1>4 DEF GenericParsed
  <2> QED  BY <1>1, <2>1 DEF OnceInv
<1>5. CASE VariantsParsed
  <2>1. pc = "parse_variants" /\ pc' = "images"
    BY <1>5 DEF VariantsParsed
  <2> QED  BY <1>1, <2>1 DEF OnceInv
<1>6. CASE GenerateVariantIp
  <2>1. pc' = "variants" /\ IsInjective(Variantized)
    BY <1>6 DEF GenerateVariantIp, CannotVariantize
  <2> QED  BY <1>1, <2>1 DEF OnceInv
<1>7. CASE Variantize
  <2>1. /\ pc = "variants" /\ at > Len(setup.variants) /\ pc' = "parse_variants"
        /\ setup.variants # <<>>
    BY <1>7 DEF Variantize, InputInv
  <2>2. IsSeq(setup.variants) /\ Len(setup.variants) \in Nat /\ Len(setup.variants) # 0
    BY <1>1, <2>1, SetupIs, SeqShape DEF IsSeq
  <2>3. at # 1
    BY ONLY <1>1, <2>1, <2>2
  <2> QED  BY <1>1, <2>1, <2>3 DEF OnceInv
<1>8. CASE WriteResults \/ MakeIso
  <2>1. pc \in {"images", "done"} /\ pc' \in {"done", "iso"}
    BY <1>8 DEF WriteResults, MakeIso
  <2> QED  BY <1>1, <2>1 DEF OnceInv
<1> QED  BY <1>2, <1>3, <1>4, <1>5, <1>6, <1>7, <1>8 DEF FlashNext

LEMMA HasIps ==
  ASSUME InputInv, pc \notin {"variants", "failed"}
  PROVE  Ips(ips) /\ Queue = QueueOf(ips)
<1>1. setup \in Setups
  BY DEF InputInv
<1>2. ips = <<ini>> \/ ips = Gen \/ ips = FinalIps
  BY DEF InputInv
<1> QED  BY <1>1, <1>2, IniIps, GenIps, FinalIsIps DEF Queue, QueueOf

(* When the loop ends, all outputs have had their turn.                    *)
LEMMA AllTurns ==
  ASSUME Ips(ips), Queue = QueueOf(ips), at \in Nat \ {0}, at = Len(Queue) + 1
  PROVE  Turns = Pairs(ips)
<1>1. Len(Queue) \in Nat /\ at - 1 = Len(Queue)
  BY QueueIs
<1>2. /\ \A q \in 1..Len(Queue) : Queue[q] \in Pairs(ips)
      /\ \A p \in Pairs(ips) : \E q \in 1..Len(Queue) : Queue[q] = p
  BY QueueIs
<1> QED  BY <1>1, <1>2 DEF Turns

(* The second result with the name of one image replaced.                  *)
MoreParts(t, f, parts) == Over([u \in {t} |-> NumberOfParts(f)], parts)

LEMMA PartsAre ==
  ASSUME NEW t, NEW f, IsSeq(results), \A i \in 1..Len(results) : IsResult(results[i]),
         Big(f) => Len(results) >= 2
  PROVE  LET s == WithParts(t, f)
         IN  /\ IsSeq(s) /\ Len(s) = Len(results)
             /\ \A i \in 1..Len(results) :
                  /\ IsResult(s[i]) /\ s[i].name = results[i].name
                  /\ s[i].kind = results[i].kind /\ s[i].body = results[i].body
                  /\ s[i].parts = IF Big(f) /\ i = 2
                                  THEN MoreParts(t, f, results[i].parts)
                                  ELSE results[i].parts
<1>1. CASE ~Big(f)
  BY <1>1 DEF WithParts
<1>2. CASE Big(f)
  <2> DEFINE s == WithParts(t, f)
             P == Over([u \in {t} |-> NumberOfParts(f)], results[2].parts)
             b == results[2]
             r == [name |-> b.name, kind |-> b.kind, body |-> b.body, parts |-> P]
  <2>1. Len(results) \in Nat /\ DOMAIN results = 1..Len(results) /\ 2 \in 1..Len(results)
    BY <1>2, SeqShape
  <2>2. b = [name |-> b.name, kind |-> b.kind, body |-> b.body, parts |-> b.parts]
    BY <2>1 DEF IsResult
  <2>3. s = [results EXCEPT ![2].parts = P]
    BY <1>2 DEF WithParts
  <2> HIDE DEF P, s
  <2>4. [results EXCEPT ![2].parts = P] = [results EXCEPT ![2] = r]
    <3>1. [b EXCEPT !.parts = P] = r
      <4> HIDE DEF b
      <4> QED  BY <2>2
    <3> QED  BY <2>1, <3>1
  <2>5. /\ IsResult(r) /\ r.name = b.name /\ r.kind = b.kind /\ r.body = b.body /\ r.parts = P
    BY <2>1 DEF IsResult
  <2> HIDE DEF r
  <2>6. /\ IsSeq(s) /\ Len(s) = Len(results)
        /\ \A i \in 1..Len(results) : s[i] = IF i = 2 THEN r ELSE results[i]
    BY <2>1, <2>3, <2>4, ExceptShape
  <2> QED  BY <1>2, <2>5, <2>6 DEF P, s, MoreParts
<1> QED  BY <1>1, <1>2

LEMMA ParseStep ==
  ASSUME InputInv, ParseInv, FlashNext
  PROVE  ParseInv'
<1>1. setup' = setup /\ setup \in Setups /\ at \in Nat \ {0}
  BY SetupKept DEF InputInv
<1>2. /\ Parsing => /\ at <= Len(Queue) + 1
                    /\ ResultsFor(results, ips, Turns, MadeAll)
                    /\ ListedFor(listed, ips, Turns, MadeAll)
                    /\ \A i \in 1..Len(results) : results[i].parts = <<>>
      /\ pc = "variants" => listed = <<>> /\ results = <<>>
      /\ pc \in {"images", "done", "iso"} => /\ ResultsFor(results, ips, Pairs(ips), MadeAll)
                                             /\ ListedFor(listed, ips, Pairs(ips), MadeAll)
  BY DEF ParseInv
<1>3. Parsing <=> pc \in {"parse", "parse_variants"}
  BY DEF Parsing
<1>4. Parsing' <=> pc' \in {"parse", "parse_variants"}
  BY DEF Parsing
<1>5. CASE ParseOutput
  <2> DEFINE p == Queue[at]
  <2>1. /\ pc \in {"parse", "parse_variants"} /\ pc' = pc /\ ips' = ips /\ at <= Len(Queue)
        /\ at' = at + 1
    BY <1>3, <1>5 DEF ParseOutput
  <2>2. Ips(ips) /\ Queue = QueueOf(ips) /\ MadeAll' = MadeAll /\ Queue' = Queue
    BY <1>1, <2>1, HasIps, IpsSame
  <2>3. /\ Len(Queue) \in Nat
        /\ \A q \in 1..Len(Queue) : Queue[q] \in Pairs(ips)
        /\ \A q, r \in 1..Len(Queue) : Queue[q] = Queue[r] => q = r
    BY <2>2, QueueIs
  <2>4. at \in 1..Len(Queue) /\ \A q \in 1..(at - 1) : q \in 1..Len(Queue) /\ q # at
    BY <1>1, <2>1, <2>3
  <2>5. p \in Pairs(ips) /\ p \notin Turns /\ Turns \subseteq Pairs(ips)
    BY <2>3, <2>4 DEF Turns
  <2>6. Turns' = Turns \cup {p}
    <3>1. 1..(at' - 1) = 1..(at - 1) \cup {at}
      BY <1>1, <2>1
    <3> QED  BY <2>2, <3>1 DEF Turns
  <2>7. Ip = ips[p[1]] /\ Output = OutOf(ips, p)
    BY DEF Ip, Output, OutOf
  <2>8. ResultsFor(results', ips, Turns \cup {p}, MadeAll)
    BY <1>2, <1>3, <1>5, <2>1, <2>2, <2>5, <2>7, ResultsOfOne
  <2>9. ListedFor(listed', ips, Turns \cup {p}, MadeAll)
    BY <1>2, <1>3, <1>5, <2>1, <2>2, <2>5, <2>7, ListedOfOne
  <2>10. at' <= Len(Queue) + 1
    BY <1>1, <2>1, <2>3
  <2>11. \A i \in 1..Len(results') : results'[i].parts = <<>>
    <3> DEFINE k == Found(Output.name)
               m == Made(Ip, Output)
    <3>1. results' = IF k = 0
                     THEN Append(results, [name |-> Output.name, kind |-> Output.kind,
                                           body |-> m.body, parts |-> <<>>])
                     ELSE [results EXCEPT ![k].body = Merge(m.body, @)]
      BY <1>5 DEF ParseOutput
    <3>2. /\ IsSeq(results) /\ Len(results) \in Nat /\ DOMAIN results = 1..Len(results)
          /\ \A i \in 1..Len(results) : results[i].parts = <<>>
          /\ \A i \in 1..Len(results) : IsResult(results[i])
      BY <1>2, <1>3, <2>1, SeqShape DEF ResultsFor, ResultFor
    <3>3. k # 0 => k \in 1..Len(results)
      BY <3>2, FoundOrNot
    <3> HIDE DEF k, m
    <3>4. CASE k = 0
      BY <3>1, <3>2, <3>4, AppendShape
    <3>5. CASE k # 0
      <4> DEFINE r == [results[k] EXCEPT !.body = Merge(m.body, @)]
      <4>1. results' = [results EXCEPT ![k] = r]
        BY <3>1, <3>2, <3>3, <3>5
      <4>2. r.parts = <<>>
        BY <3>2, <3>3, <3>5 DEF IsResult
      <4> HIDE DEF r
      <4> QED  BY <3>2, <3>3, <3>5, <4>1, <4>2, ExceptShape
    <3> QED  BY <3>4, <3>5
  <2> QED  BY <1>3, <1>4, <2>1, <2>2, <2>6, <2>8, <2>9, <2>10, <2>11 DEF ParseInv
<1>6. CASE MergeFails \/ VariantizeFails \/ ImageFails
  <2>1. pc' = "failed"
    BY <1>6 DEF MergeFails, VariantizeFails, ImageFails
  <2> QED  BY <1>4, <2>1 DEF ParseInv
<1>7. ASSUME pc \in {"parse", "parse_variants"}, at > Len(Queue), pc' = "images", ips' = ips,
             listed' = listed, results' \in Orders
      PROVE  ParseInv'
  <2>1. Ips(ips) /\ Queue = QueueOf(ips) /\ MadeAll' = MadeAll
    BY <1>1, <1>7, HasIps, IpsSame
  <2>2. at = Len(Queue) + 1
    <3>1. Len(Queue) \in Nat
      BY <2>1, QueueIs
    <3> QED  BY <1>1, <1>2, <1>3, <1>7, <3>1
  <2>3. Turns = Pairs(ips)
    BY <1>1, <2>1, <2>2, AllTurns
  <2>4. ResultsFor(results', ips, Pairs(ips), MadeAll)
    BY <1>2, <1>3, <1>7, <2>3, OrderedResults
  <2>5. ListedFor(listed', ips, Pairs(ips), MadeAll)
    BY <1>2, <1>3, <1>7, <2>3
  <2> QED  BY <1>4, <1>7, <2>1, <2>4, <2>5 DEF ParseInv
<1>8. CASE GenericParsed
  <2>1. CASE setup.variants = <<>>
    BY <1>7, <1>8, <2>1 DEF GenericParsed
  <2>2. CASE setup.variants # <<>>
    <3>1. pc' = "variants" /\ results' = <<>> /\ listed' = <<>>
      BY <1>8, <2>2 DEF GenericParsed
    <3> QED  BY <1>4, <3>1 DEF ParseInv
  <2> QED  BY <2>1, <2>2
<1>9. CASE VariantsParsed
  BY <1>7, <1>9 DEF VariantsParsed
<1>10. CASE GenerateVariantIp
  <2>1. pc = "variants" /\ pc' = pc /\ results' = results /\ listed' = listed
    BY <1>10 DEF GenerateVariantIp
  <2> QED  BY <1>2, <1>4, <2>1 DEF ParseInv
<1>11. CASE Variantize
  <2>1. /\ pc = "variants" /\ pc' = "parse_variants" /\ at' = 1
        /\ results' = results /\ listed' = listed
    BY <1>11 DEF Variantize
  <2>2. InputInv'
    BY InputStep
  <2>3. Ips(ips') /\ Queue' = QueueOf(ips')
    <3>1. setup' \in Setups /\ ips' = Gen' /\ Gen' = Gen
      BY <1>1, <2>1, <2>2, SetupSame DEF InputInv
    <3>2. Queue' = QueueOf(ips')
      BY DEF Queue, QueueOf
    <3> QED  BY <1>1, <3>1, <3>2, GenIps
  <2>4. Len(Queue') \in Nat
    BY <2>3, QueueIs
  <2>5. Turns' = {}
    BY <2>1 DEF Turns
  <2>6. \A M : ResultsFor(<<>>, ips', {}, M) /\ ListedFor(<<>>, ips', {}, M)
    BY NoSeq DEF ResultsFor, ListedFor
  <2>7. results' = <<>> /\ listed' = <<>>
    BY <1>2, <2>1
  <2>8. at' <= Len(Queue') + 1
    BY <2>1, <2>4
  <2> QED  BY <1>4, <2>1, <2>5, <2>6, <2>7, <2>8, NoSeq DEF ParseInv
<1>12. CASE ProcessImage
  <2>1. pc = "images" /\ pc' = pc /\ ips' = ips /\ listed' = listed
    BY <1>12 DEF ProcessImage
  <2>2. MadeAll' = MadeAll
    BY <1>1, <2>1, IpsSame
  <2>3. /\ IsSeq(results) /\ \A i \in 1..Len(results) : IsResult(results[i])
        /\ ResultsFor(results, ips, Pairs(ips), MadeAll)
    BY <1>2, <2>1 DEF ResultsFor, ResultFor
  <2>4. \/ results' = results
        \/ \E t, f : (Big(f) => Len(results) >= 2) /\ results' = WithParts(t, f)
    BY <1>12 DEF ProcessImage
  <2>5. ResultsFor(results', ips, Pairs(ips), MadeAll)
    <3>1. CASE results' = results
      BY <2>3, <3>1
    <3>2. ASSUME NEW t, NEW f, Big(f) => Len(results) >= 2, results' = WithParts(t, f)
          PROVE  ResultsFor(results', ips, Pairs(ips), MadeAll)
      <4>1. /\ IsSeq(results') /\ Len(results') = Len(results)
            /\ \A i \in 1..Len(results) :
                 /\ IsResult(results'[i]) /\ results'[i].name = results[i].name
                 /\ results'[i].kind = results[i].kind /\ results'[i].body = results[i].body
        BY <2>3, <3>2, PartsAre
      <4> QED  BY <2>3, <4>1, SameResults
    <3> QED  BY <2>4, <3>1, <3>2
  <2> QED  BY <1>2, <1>4, <2>1, <2>2, <2>5 DEF ParseInv
<1>13. CASE WriteResults \/ MakeIso
  <2>1. /\ pc \in {"images", "done"} /\ pc' \in {"done", "iso"} /\ ips' = ips /\ listed' = listed
        /\ results' = results
    BY <1>13 DEF WriteResults, MakeIso
  <2>2. MadeAll' = MadeAll
    BY <1>1, <2>1, IpsSame
  <2> QED  BY <1>2, <1>4, <2>1, <2>2 DEF ParseInv
<1> QED  BY <1>5, <1>6, <1>8, <1>9, <1>10, <1>11, <1>12, <1>13 DEF FlashNext

(* What the ini files name is typed.                                       *)
LEMMA NamedIs ==
  ASSUME NEW ip, IpShape(ip)
  PROVE  /\ NamedBy(ip) \cup AlsoBy(ip) \subseteq Sources \X Targets
         /\ ip.files = {} => \A x \in NamedBy(ip) \cup AlsoBy(ip) : x[2] = <<x[2][1], None>>
<1>1. ASSUME NEW x \in NamedBy(ip)
      PROVE  x \in Sources \X Targets /\ (ip.files = {} => x[2] = <<x[2][1], None>>)
  <2>1. PICK r \in ToSet(ip.rows) : r.file # None /\ x = <<r.source, Named(ip, r.file)>>
    BY DEF NamedBy
  <2>2. r.source \in Sources /\ r.file \in Files
    BY <2>1 DEF IpShape, IsRow
  <2>3. Named(ip, r.file) = IF r.file \in ip.files THEN <<r.file, ip.variant>> ELSE <<r.file, None>>
    BY DEF Named, VariantFilename
  <2>4. Named(ip, r.file) \in Targets
    BY <2>2, <2>3 DEF Targets, IpShape
  <2> QED  BY <2>1, <2>2, <2>3, <2>4
<1>2. ASSUME NEW x \in AlsoBy(ip)
      PROVE  x \in Sources \X Targets /\ x[2] = <<x[2][1], None>>
  <2>1. PICK y \in ToSet(ip.additional) : x = <<y[1], <<y[2], None>>>>
    BY DEF AlsoBy
  <2>2. y[1] \in Sources /\ y[2] \in Files
    BY DEF IpShape
  <2> QED  BY <2>1, <2>2 DEF Targets
<1> QED  BY <1>1, <1>2

LEMMA FilesStep ==
  ASSUME InputInv, ParseInv, FilesInv, FlashNext
  PROVE  FilesInv'
<1>1. setup' = setup /\ ini' = ini /\ setup \in Setups /\ at \in Nat \ {0}
  BY SetupKept, SetupSame DEF InputInv
<1>2. CASE GenericParsed
  <2>1. pc = "parse" /\ ips = <<ini>> /\ files' = Unique(listed)
    BY <1>2 DEF GenericParsed, InputInv
  <2>2. Ips(ips) /\ Queue = QueueOf(ips)
    BY <2>1, HasIps
  <2>3. at = Len(Queue) + 1
    <3>1. Len(Queue) \in Nat
      BY <2>2, QueueIs
    <3> QED  BY <1>1, <1>2, <2>1, <3>1 DEF GenericParsed, ParseInv, Parsing
  <2>4. ListedFor(listed, ips, Pairs(ips), MadeAll)
    BY <1>1, <2>1, <2>2, <2>3, AllTurns DEF ParseInv, Parsing
  <2>5. ips[1] = ini /\ Len(ips) = 1
    BY <2>1
  <2>6. <<1, 1>> \in Pairs(ips)
    <3>1. IsSeq(ini.outputs) /\ Len(ini.outputs) # 0
      BY <1>1, SetupIs DEF IpShape
    <3>2. 1 \in 1..Len(ini.outputs)
      BY <3>1, SeqShape
    <3> QED  BY <2>5, <3>2 DEF Pairs
  <2>7. AlsoBy(ini) \subseteq ToSet(listed)
    BY <2>4, <2>5, <2>6 DEF ListedFor
  <2>8. ToSet(listed) \subseteq NamedBy(ini) \cup AlsoBy(ini) /\ IsSeq(listed)
    BY <2>4, <2>5 DEF ListedFor
  <2>9. IsSeq(files') /\ ToSet(files') = ToSet(listed)
    BY <2>1, <2>8, UniqueMembers
  <2> QED  BY <1>1, <2>7, <2>8, <2>9 DEF FilesInv
<1>3. CASE ~GenericParsed
  <2>1. files' = files /\ (pc' \notin {"parse", "failed"} => pc \notin {"parse", "failed"})
    BY <1>3 DEF FlashNext, ParseOutput, MergeFails, VariantsParsed, GenerateVariantIp,
                VariantizeFails, Variantize, ProcessImage, ImageFails, WriteResults, MakeIso, Parsing
  <2> QED  BY <1>1, <2>1 DEF FilesInv
<1> QED  BY <1>2, <1>3

(* A job is typed, and its target is its file, with its variant or none.   *)
LEMMA JobIs ==
  ASSUME InputInv, FilesInv, pc \notin {"parse", "failed"}
  PROVE  /\ IsSeq(Jobs) /\ Len(Jobs) \in Nat
         /\ \A x : x \in ToSet(Jobs) <=> \E i \in 1..Len(Jobs) : x = Jobs[i]
         /\ \A job \in ToSet(Jobs) :
              /\ job.source \in Sources /\ job.file \in Files /\ job.variant \in Variants \cup {None}
              /\ job.target \in {<<job.file, None>>, <<job.file, job.variant>>}
              /\ job.variant = None => setup.variants = <<>>
<1>1. setup \in Setups /\ IpShape(ini) /\ ini.files = {} /\ ToSet(setup.variants) \subseteq Variants
  BY SetupIs DEF InputInv, IsIni
<1>2. /\ IsSeq(files) /\ ToSet(files) \subseteq NamedBy(ini) \cup AlsoBy(ini)
  BY DEF FilesInv
<1>3. \A x \in ToSet(files) : /\ x[1] \in Sources /\ x[2][1] \in Files
                              /\ x[2] = <<x[2][1], None>>
  <2>1. \A x \in ToSet(files) : x \in Sources \X Targets /\ x[2] = <<x[2][1], None>>
    BY <1>1, <1>2, NamedIs
  <2> QED  BY <2>1 DEF Targets
<1>4. IsSeq(Jobs)
  BY <1>1, <1>2, JobsAre
<1>5. Len(Jobs) \in Nat /\ \A x : x \in ToSet(Jobs) <=> \E i \in 1..Len(Jobs) : x = Jobs[i]
  BY <1>4, SeqShape, Members
<1>6. None \notin Variants
  BY FlashAssumption
<1>7. ASSUME NEW job \in ToSet(Jobs)
      PROVE  /\ job.source \in Sources /\ job.file \in Files
             /\ job.variant \in Variants \cup {None}
             /\ job.target \in {<<job.file, None>>, <<job.file, job.variant>>}
             /\ job.variant = None => setup.variants = <<>>
  <2>1. CASE setup.variants = <<>>
    <3>1. PICK x \in ToSet(files) : job = Job(x[1], x[2][1], None, x[2])
      BY <1>1, <1>2, <2>1, JobsAre
    <3> QED  BY <1>3, <2>1, <3>1 DEF Job
  <2>2. CASE setup.variants # <<>> /\ FileJob(job)
    <3>1. PICK x \in ToSet(files), v \in ToSet(setup.variants) :
            job = Job(x[1], x[2][1], v, TargetOut(x[2][1], v))
      BY <2>2 DEF FileJob
    <3>2. TargetOut(x[2][1], v) \in {<<x[2][1], None>>, <<x[2][1], v>>}
      BY DEF TargetOut, VariantFilename
    <3> QED  BY <1>1, <1>3, <1>6, <3>1, <3>2 DEF Job
  <2>3. CASE setup.variants # <<>> /\ OwnJob(job)
    <3>1. PICK v \in ToSet(setup.variants) : \E y \in Included(v) :
            job = Job(y[1], y[2], v, VariantFilename(y[2], v))
      BY <2>3 DEF OwnJob
    <3>2. PICK y \in Included(v) : job = Job(y[1], y[2], v, VariantFilename(y[2], v))
      BY <3>1
    <3>3. y[1] \in Sources /\ y[2] \in Files
      BY <1>1, AdditionalOfIs DEF Included
    <3> QED  BY <1>1, <1>6, <3>2, <3>3 DEF Job, VariantFilename
  <2> QED  BY <1>1, <1>2, <2>1, <2>2, <2>3, JobsAre
<1> QED  BY <1>4, <1>5, <1>7

LEMMA ContentSame ==
  ASSUME setup' = setup
  PROVE  \A s, f, v : Content(s, f, v)' = Content(s, f, v)
BY DEF Content

LEMMA ZipStep ==
  ASSUME InputInv, FilesInv, ZipInv, FlashNext
  PROVE  ZipInv'
<1>1. setup' = setup /\ at \in Nat \ {0}
  BY SetupKept DEF InputInv
<1>10. \A s, f, v : Content(s, f, v)' = Content(s, f, v)
  BY <1>1, ContentSame
<1>2. /\ Parsing \/ pc = "variants" => DOMAIN zip = {}
      /\ pc \in {"images", "done", "iso"} =>
           \A t \in DOMAIN zip : \E job \in ToSet(Jobs) :
             t = job.target /\ zip[t] = Content(job.source, job.file, job.variant)
      /\ pc = "images" => \A i \in 1..(at - 1) : Jobs[i].target \in DOMAIN zip
      /\ pc \in {"done", "iso"} => \A job \in ToSet(Jobs) : job.target \in DOMAIN zip
  BY DEF ZipInv
<1>3. /\ Parsing <=> pc \in {"parse", "parse_variants"}
      /\ Parsing' <=> pc' \in {"parse", "parse_variants"}
  BY DEF Parsing
<1>4. CASE ParseOutput \/ GenerateVariantIp \/ Variantize
  <2>1. /\ pc \in {"parse", "variants", "parse_variants"} /\ zip' = zip
        /\ pc' \in {"parse", "variants", "parse_variants"}
    BY <1>3, <1>4 DEF ParseOutput, GenerateVariantIp, Variantize
  <2> QED  BY <1>2, <1>3, <2>1 DEF ZipInv
<1>5. CASE MergeFails \/ VariantizeFails \/ ImageFails
  <2>1. pc' = "failed"
    BY <1>5 DEF MergeFails, VariantizeFails, ImageFails
  <2> QED  BY <1>3, <2>1 DEF ZipInv
<1>6. CASE GenericParsed \/ VariantsParsed
  <2>1. /\ pc \in {"parse", "parse_variants"} /\ zip' = zip /\ pc' \in {"variants", "images"}
        /\ at' = 1
    BY <1>6 DEF GenericParsed, VariantsParsed
  <2>2. DOMAIN zip' = {} /\ 1..(at' - 1) = {}
    BY <1>2, <1>3, <2>1
  <2> QED  BY <1>3, <2>1, <2>2 DEF ZipInv
<1>7. CASE ProcessImage
  <2> DEFINE job == Jobs[at]
             c == Content(job.source, job.file, job.variant)
  <2>1. /\ pc = "images" /\ at <= Len(Jobs) /\ at' = at + 1 /\ pc' = pc
        /\ files' = files /\ listed' = listed
    BY <1>7 DEF ProcessImage
  <2>9. \/ job.target \in DOMAIN zip /\ zip' = zip
        \/ zip' = Over(zip, [t \in {job.target} |-> c]) /\ job.target \notin DOMAIN zip
    BY <1>7, Zenon DEF ProcessImage
  <2>2. Jobs' = Jobs
    BY <1>1, <2>1, JobsSame
  <2>3. Len(Jobs) \in Nat /\ \A x : x \in ToSet(Jobs) <=> \E i \in 1..Len(Jobs) : x = Jobs[i]
    BY <2>1, JobIs
  <2>4. at \in 1..Len(Jobs) /\ 1..(at' - 1) = 1..(at - 1) \cup {at}
    BY <1>1, <2>1, <2>3
  <2>5. job \in ToSet(Jobs)
    BY <2>3, <2>4
  <2> HIDE DEF c
  <2>6. /\ DOMAIN zip' = DOMAIN zip \cup {job.target}
        /\ \A t \in DOMAIN zip : zip'[t] = zip[t]
        /\ job.target \notin DOMAIN zip => zip'[job.target] = c
    <3>1. CASE job.target \in DOMAIN zip
      BY <2>9, <3>1
    <3>2. CASE job.target \notin DOMAIN zip
      <4> DEFINE g == [t \in {job.target} |-> c]
      <4>1. DOMAIN g = {job.target} /\ g[job.target] = c
        OBVIOUS
      <4>2. zip' = Over(zip, g)
        BY <2>9, <3>2
      <4> HIDE DEF g, job
      <4>3. /\ DOMAIN Over(zip, g) = DOMAIN zip \cup DOMAIN g
            /\ \A t \in DOMAIN zip : Over(zip, g)[t] = zip[t]
            /\ \A t \in DOMAIN g \ DOMAIN zip : Over(zip, g)[t] = g[t]
        BY OverIs
      <4> QED  BY <3>2, <4>1, <4>2, <4>3
    <3> QED  BY <3>1, <3>2
  <2>7. \A t \in DOMAIN zip' : \E x \in ToSet(Jobs) :
          t = x.target /\ zip'[t] = Content(x.source, x.file, x.variant)
    <3> TAKE t \in DOMAIN zip'
    <3>1. CASE t \in DOMAIN zip
      BY <1>2, <2>1, <2>6, <3>1
    <3>2. CASE t \notin DOMAIN zip
      BY <2>5, <2>6, <3>2 DEF c
    <3> QED  BY <3>1, <3>2
  <2>8. \A i \in 1..(at' - 1) : Jobs[i].target \in DOMAIN zip'
    BY <1>2, <2>1, <2>4, <2>6
  <2> QED  BY <1>3, <1>10, <2>1, <2>2, <2>7, <2>8 DEF ZipInv
<1>8. CASE WriteResults
  <2>1. /\ pc = "images" /\ at > Len(Jobs) /\ pc' = "done" /\ zip' = zip
        /\ files' = files /\ listed' = listed
    BY <1>8 DEF WriteResults
  <2>2. Jobs' = Jobs
    BY <1>1, <2>1, JobsSame
  <2>3. Len(Jobs) \in Nat /\ \A x : x \in ToSet(Jobs) <=> \E i \in 1..Len(Jobs) : x = Jobs[i]
    BY <2>1, JobIs
  <2>4. \A i \in 1..Len(Jobs) : i \in 1..(at - 1)
    BY <1>1, <2>1, <2>3
  <2>5. \A job \in ToSet(Jobs) : job.target \in DOMAIN zip
    BY <1>2, <2>1, <2>3, <2>4
  <2> QED  BY <1>2, <1>3, <1>10, <2>1, <2>2, <2>5 DEF ZipInv
<1>9. CASE MakeIso
  <2>1. pc = "done" /\ pc' = "iso" /\ zip' = zip /\ files' = files /\ listed' = listed
    BY <1>9 DEF MakeIso
  <2>2. Jobs' = Jobs
    BY <1>1, <2>1, JobsSame
  <2> QED  BY <1>2, <1>3, <1>10, <2>1, <2>2 DEF ZipInv
<1> QED  BY <1>4, <1>5, <1>6, <1>7, <1>8, <1>9 DEF FlashNext

LEMMA PartsStep ==
  ASSUME InputInv, ParseInv, FilesInv, ZipInv, PartsInv, FlashNext
  PROVE  PartsInv'
<1>1. setup' = setup /\ at \in Nat \ {0}
  BY SetupKept DEF InputInv
<1>2. /\ \A f : Big(f)' = Big(f)
      /\ \A f : NumberOfParts(f)' = NumberOfParts(f)
  BY <1>1 DEF Big, NumberOfParts
<1>3. CASE ParseOutput \/ GenerateVariantIp \/ Variantize
           \/ MergeFails \/ VariantizeFails \/ ImageFails
  <2>1. pc' \in {"parse", "variants", "parse_variants", "failed"}
    BY <1>3 DEF ParseOutput, GenerateVariantIp, Variantize, MergeFails, VariantizeFails,
                ImageFails, Parsing
  <2> QED  BY <2>1 DEF PartsInv
<1>4. CASE GenericParsed \/ VariantsParsed
  <2>1. CASE pc' # "images"
    BY <1>4, <2>1 DEF GenericParsed, VariantsParsed, PartsInv
  <2>2. CASE pc' = "images"
    <3>1. Parsing /\ zip' = zip /\ results' \in Orders
      BY <1>4, <2>2 DEF GenericParsed, VariantsParsed, Parsing
    <3>2. /\ DOMAIN zip' = {} /\ \A i \in 1..Len(results) : results[i].parts = <<>>
          /\ ResultsFor(results, ips, Turns, MadeAll)
      BY <3>1 DEF ZipInv, ParseInv
    <3>3. /\ Len(results') = Len(results) /\ IsSeq(results')
          /\ \A i \in 1..Len(results') : \E j \in 1..Len(results) : results'[i] = results[j]
      <4>1. /\ ResultsFor(results', ips, Turns, MadeAll) /\ Len(results') = Len(results)
            /\ \A i \in 1..Len(results') : \E j \in 1..Len(results) : results'[i] = results[j]
        BY <3>1, <3>2, OrderedResults
      <4> QED  BY <4>1 DEF ResultsFor
    <3>4. Len(results') >= 2 => results'[2].parts = <<>>
      <4> HAVE Len(results') >= 2
      <4>1. 2 \in 1..Len(results')
        BY <3>3, SeqShape
      <4> QED  BY <3>2, <3>3, <4>1
    <3> QED  BY <2>2, <3>2, <3>4 DEF PartsInv
  <2> QED  BY <2>1, <2>2
<1>5. CASE ProcessImage
  <2> DEFINE t == Jobs[at].target
             f == Jobs[at].file
  <2>7. /\ pc = "images" /\ at <= Len(Jobs) /\ pc' = pc
        /\ \/ zip' = zip /\ results' = results
           \/ /\ zip' = Over(zip, [u \in {t} |-> Content(Jobs[at].source, f, Jobs[at].variant)])
              /\ Big(f) => Len(results) >= 2
              /\ results' = WithParts(t, f)
    BY <1>5, Zenon DEF ProcessImage
  <2>1. /\ pc = "images" /\ at <= Len(Jobs) /\ pc' = pc
        /\ \/ zip' = zip /\ results' = results
           \/ /\ \E c : zip' = Over(zip, [u \in {t} |-> c])
              /\ Big(f) => Len(results) >= 2
              /\ results' = WithParts(t, f)
    BY <2>7, Zenon
  <2>2. t[1] = f
    <3>1. Jobs[at] \in ToSet(Jobs)
      BY <1>1, <2>1, JobIs
    <3>2. t \in {<<f, None>>, <<f, Jobs[at].variant>>}
      BY <2>1, <3>1, JobIs
    <3> QED  BY <3>2
  <2>3. /\ IsSeq(results) /\ Len(results) \in Nat /\ \A i \in 1..Len(results) : IsResult(results[i])
    BY <2>1, SeqShape DEF ParseInv, ResultsFor, ResultFor
  <2>4. Len(results) >= 2 =>
          /\ DOMAIN results[2].parts = {u \in DOMAIN zip : Big(u[1])}
          /\ \A u \in DOMAIN results[2].parts : results[2].parts[u] = NumberOfParts(u[1])
    BY <2>1 DEF PartsInv
  <2> HIDE DEF t, f
  <2>5. CASE zip' = zip /\ results' = results
    BY <1>2, <2>1, <2>4, <2>5 DEF PartsInv
  <2>6. ASSUME NEW c, zip' = Over(zip, [u \in {t} |-> c]), Big(f) => Len(results) >= 2,
               results' = WithParts(t, f)
        PROVE  PartsInv'
    <3>1. DOMAIN zip' = {t} \cup DOMAIN zip
      <4>1. DOMAIN Over(zip, [u \in {t} |-> c]) = {t} \cup DOMAIN zip
        BY DEF Over
      <4> QED  BY <2>6, <4>1
    <3>2. /\ Len(results') = Len(results)
          /\ \A i \in 1..Len(results) :
               results'[i].parts = IF Big(f) /\ i = 2 THEN MoreParts(t, f, results[i].parts)
                                   ELSE results[i].parts
      BY <2>3, <2>6, PartsAre
    <3>3. \A parts : /\ DOMAIN MoreParts(t, f, parts) = {t} \cup DOMAIN parts
                     /\ MoreParts(t, f, parts)[t] = NumberOfParts(f)
                     /\ \A u \in DOMAIN parts \ {t} : MoreParts(t, f, parts)[u] = parts[u]
      BY DEF MoreParts, Over
    <3>4. Len(results') >= 2 =>
            /\ DOMAIN results'[2].parts = {u \in DOMAIN zip' : Big(u[1])}
            /\ \A u \in DOMAIN results'[2].parts : results'[2].parts[u] = NumberOfParts(u[1])
      <4> SUFFICES ASSUME Len(results') >= 2
                   PROVE  /\ DOMAIN results'[2].parts = {u \in DOMAIN zip' : Big(u[1])}
                          /\ \A u \in DOMAIN results'[2].parts :
                               results'[2].parts[u] = NumberOfParts(u[1])
        OBVIOUS
      <4>1. 2 \in 1..Len(results) /\ Len(results) >= 2
        BY <2>3, <3>2
      <4>2. results'[2].parts = IF Big(f) THEN MoreParts(t, f, results[2].parts)
                                ELSE results[2].parts
        BY <3>2, <4>1
      <4>3. CASE Big(f)
        <5> DEFINE P == MoreParts(t, f, results[2].parts)
        <5>1. results'[2].parts = P
          BY <4>2, <4>3
        <5>2. /\ DOMAIN P = {t} \cup DOMAIN results[2].parts
              /\ P[t] = NumberOfParts(f)
              /\ \A u \in DOMAIN results[2].parts \ {t} : P[u] = results[2].parts[u]
          BY <3>3
        <5> HIDE DEF P
        <5>3. {u \in DOMAIN zip' : Big(u[1])} = {t} \cup {u \in DOMAIN zip : Big(u[1])}
          BY <2>2, <3>1, <4>3
        <5> QED  BY <2>2, <2>4, <4>1, <5>1, <5>2, <5>3
      <4>4. CASE ~Big(f)
        BY <2>2, <2>4, <3>1, <4>1, <4>2, <4>4
      <4> QED  BY <4>3, <4>4
    <3> QED  BY <1>2, <2>1, <3>4 DEF PartsInv
  <2> QED  BY <2>1, <2>5, <2>6
<1>6. CASE WriteResults
  <2>1. pc = "images" /\ pc' = "done" /\ zip' = zip /\ results' = results
    BY <1>6 DEF WriteResults
  <2> QED  BY <1>2, <2>1 DEF PartsInv
<1>7. CASE MakeIso
  <2>1. /\ pc = "done" /\ pc' = "iso" /\ zip' = zip /\ results' = results /\ ~setup.fast
        /\ iso' = IsoOf
    BY <1>7 DEF MakeIso, IsoOf, Pieces
  <2>2. IsoOf' = IsoOf
    BY <1>1, <2>1 DEF IsoOf, Pieces
  <2> QED  BY <1>1, <1>2, <2>1, <2>2 DEF PartsInv
<1> QED  BY <1>3, <1>4, <1>5, <1>6, <1>7 DEF FlashNext

(* The parts of the type invariant, each for what can change it.           *)
LEMMA TypeStep ==
  ASSUME FlashTypeOK, InputInv, ParseInv, FilesInv, ParseInv', InputInv', FlashNext
  PROVE  FlashTypeOK'
<1>1. setup' = setup /\ ini' = ini /\ setup \in Setups /\ at \in Nat \ {0}
  BY SetupKept, SetupSame DEF InputInv
<1>2. /\ pc' \in {"json", "parse", "variants", "parse_variants", "images", "done", "iso", "failed"}
      /\ at' \in Nat \ {0}
  BY DEF InputInv
<1>3. default_config' \in DOMAIN ini.configs \cup {None}
  <2>1. default_config \in DOMAIN ini.configs \cup {None}
    BY DEF FlashTypeOK
  <2>2. KeptDefault \in DOMAIN ini.configs \cup {None}
    BY <1>1, FirstDefaultIs, VariantizedIs
  <2>3. \/ default_config' = default_config
        \/ default_config' = IF default_config = None THEN KeptDefault ELSE default_config
    BY DEF FlashNext, ParseOutput, MergeFails, GenericParsed, VariantsParsed, GenerateVariantIp,
           VariantizeFails, Variantize, ProcessImage, ImageFails, WriteResults, MakeIso
  <2> QED  BY <2>1, <2>2, <2>3
<1>4. \A i \in DOMAIN results' : /\ results'[i].kind \in {"json", "cmd"}
                                 /\ DOMAIN results'[i].parts \subseteq Targets
  <2>1. \A i \in DOMAIN results : /\ results[i].kind \in {"json", "cmd"}
                                  /\ DOMAIN results[i].parts \subseteq Targets
    BY DEF FlashTypeOK
  <2>2. CASE ParseOutput
    <3>1. /\ ResultsFor(results', ips', Turns', MadeAll')
          /\ \A i \in 1..Len(results') : results'[i].parts = <<>>
      BY <2>2 DEF ParseOutput, Parsing, ParseInv
    <3>2. DOMAIN results' = 1..Len(results')
      BY <3>1, SeqShape DEF ResultsFor
    <3> QED  BY <3>1, <3>2, EmptyIsSeq DEF ResultsFor, ResultFor, IsResult
  <2>3. CASE GenericParsed \/ VariantsParsed
    <3>1. CASE results' = <<>>
      BY <3>1, EmptyIsSeq
    <3>2. CASE results' # <<>>
      <4>1. Parsing /\ results' \in Orders
        BY <2>3, <3>2 DEF GenericParsed, VariantsParsed, Parsing
      <4>2. ResultsFor(results, ips, Turns, MadeAll)
        BY <4>1 DEF ParseInv
      <4>3. /\ ResultsFor(results', ips, Turns, MadeAll)
            /\ \A i \in 1..Len(results') : \E j \in 1..Len(results) : results'[i] = results[j]
        BY <4>1, <4>2, OrderedResults
      <4>4. DOMAIN results' = 1..Len(results') /\ DOMAIN results = 1..Len(results)
        BY <4>2, <4>3, SeqShape DEF ResultsFor
      <4> QED  BY <2>1, <4>3, <4>4
    <3> QED  BY <3>1, <3>2
  <2>4. CASE ProcessImage
    <3> DEFINE t == Jobs[at].target
               f == Jobs[at].file
    <3>1. /\ pc = "images" /\ at <= Len(Jobs)
          /\ \/ results' = results
             \/ (Big(f) => Len(results) >= 2) /\ results' = WithParts(t, f)
      BY <2>4 DEF ProcessImage
    <3>2. IsSeq(results) /\ \A i \in 1..Len(results) : IsResult(results[i])
      BY <3>1 DEF ParseInv, ResultsFor, ResultFor
    <3>3. Jobs[at] \in ToSet(Jobs)
      BY <1>1, <3>1, JobIs
    <3>4. t \in Targets
      BY <3>1, <3>3, JobIs DEF Targets
    <3> HIDE DEF t, f
    <3>5. CASE results' = results
      BY <2>1, <3>5
    <3>6. CASE (Big(f) => Len(results) >= 2) /\ results' = WithParts(t, f)
      <4>1. /\ IsSeq(results') /\ Len(results') = Len(results)
            /\ \A i \in 1..Len(results) :
                 /\ results'[i].kind = results[i].kind
                 /\ results'[i].parts = IF Big(f) /\ i = 2 THEN MoreParts(t, f, results[i].parts)
                                        ELSE results[i].parts
        BY <3>2, <3>6, PartsAre
      <4>2. DOMAIN results' = 1..Len(results) /\ DOMAIN results = 1..Len(results)
        BY <3>2, <4>1, SeqShape
      <4>3. \A p : DOMAIN MoreParts(t, f, p) = {t} \cup DOMAIN p
        BY DEF MoreParts, Over
      <4> QED  BY <2>1, <3>4, <4>1, <4>2, <4>3
    <3> QED  BY <3>1, <3>5, <3>6
  <2>5. CASE MergeFails \/ GenerateVariantIp \/ VariantizeFails \/ Variantize \/ ImageFails
             \/ WriteResults \/ MakeIso
    <3>1. results' = results
      BY <2>5 DEF MergeFails, GenerateVariantIp, VariantizeFails, Variantize, ImageFails,
                  WriteResults, MakeIso
    <3> QED  BY <2>1, <3>1
  <2> QED  BY <2>2, <2>3, <2>4, <2>5 DEF FlashNext
<1>5. ToSet(listed') \subseteq Sources \X Targets
  <2>1. ToSet(listed) \subseteq Sources \X Targets
    BY DEF FlashTypeOK
  <2>2. CASE ParseOutput
    <3>1. /\ pc \in {"parse", "parse_variants"} /\ ips' = ips
          /\ ListedFor(listed', ips', Turns', MadeAll')
      BY <2>2 DEF ParseOutput, Parsing, ParseInv
    <3>2. Ips(ips)
      BY <3>1, HasIps
    <3>3. ASSUME NEW x \in ToSet(listed')
          PROVE  x \in Sources \X Targets
      <4>1. PICK k \in 1..Len(ips) : x \in NamedBy(ips[k]) \cup AlsoBy(ips[k])
        BY <3>1 DEF ListedFor
      <4>2. IpShape(ips[k])
        BY <3>2 DEF Ips
      <4> QED  BY <4>1, <4>2, NamedIs
    <3> QED  BY <3>3
  <2>3. CASE ~ParseOutput
    <3>1. listed' = listed \/ listed' = <<>>
      BY <2>3 DEF FlashNext, MergeFails, GenericParsed, VariantsParsed, GenerateVariantIp,
             VariantizeFails, Variantize, ProcessImage, ImageFails, WriteResults, MakeIso
    <3> QED  BY <2>1, <3>1, NoSeq
  <2> QED  BY <2>2, <2>3
<1>6. ToSet(files') \subseteq Sources \X Targets
  <2>1. ToSet(listed) \cup ToSet(files) \subseteq Sources \X Targets
    BY DEF FlashTypeOK
  <2>2. CASE GenericParsed
    <3>1. Parsing /\ files' = Unique(listed)
      BY <2>2 DEF GenericParsed, Parsing
    <3>2. IsSeq(listed)
      BY <3>1 DEF ParseInv, ListedFor
    <3> QED  BY <2>1, <3>1, <3>2, UniqueMembers
  <2>3. CASE ~GenericParsed
    <3>1. files' = files
      BY <2>3 DEF FlashNext, ParseOutput, MergeFails, VariantsParsed, GenerateVariantIp,
             VariantizeFails, Variantize, ProcessImage, ImageFails, WriteResults, MakeIso
    <3> QED  BY <2>1, <3>1
  <2> QED  BY <2>2, <2>3
<1> DEFINE Entry(t, c) == /\ t \in Targets /\ c \in Sources \X Files \X (Variants \cup {None})
                          /\ c[2] = t[1] /\ (t[2] # None => c[3] \in {None, t[2]})
<1>7. \A t \in DOMAIN zip' : Entry(t, zip'[t])
  <2>1. \A t \in DOMAIN zip : Entry(t, zip[t])
    <3>1. /\ DOMAIN zip \subseteq Targets
          /\ \A t \in DOMAIN zip : /\ zip[t] \in Sources \X Files \X (Variants \cup {None})
                                   /\ zip[t][2] = t[1]
                                   /\ t[2] # None => zip[t][3] \in {None, t[2]}
      BY DEF FlashTypeOK
    <3> QED  BY <3>1
  <2>2. CASE ProcessImage
    <3> DEFINE job == Jobs[at]
               c == Content(job.source, job.file, job.variant)
    <3>1. pc = "images" /\ at <= Len(Jobs)
      BY <2>2 DEF ProcessImage
    <3>2. \/ zip' = zip
          \/ zip' = Over(zip, [t \in {job.target} |-> c])
      BY <2>2, Zenon DEF ProcessImage
    <3>3. job \in ToSet(Jobs)
      BY <1>1, <3>1, JobIs
    <3>4. /\ job.source \in Sources /\ job.file \in Files /\ job.variant \in Variants \cup {None}
          /\ job.target \in {<<job.file, None>>, <<job.file, job.variant>>}
      BY <3>1, <3>3, JobIs
    <3>5. c = <<job.source, job.file,
                IF job.source = "images" \/ (job.source = "bootloader" /\ setup.fast)
                THEN None ELSE job.variant>>
      BY DEF Content
    <3> HIDE DEF c, job
    <3>6. Entry(job.target, c)
      BY <3>4, <3>5 DEF Targets
    <3> HIDE DEF Entry
    <3>7. CASE zip' = zip
      BY <2>1, <3>7
    <3>8. CASE zip' = Over(zip, [t \in {job.target} |-> c])
      <4> DEFINE z == Over(zip, [t \in {job.target} |-> c])
      <4>1. \A t \in DOMAIN z : Entry(t, z[t])
        BY <2>1, <3>6 DEF Over
      <4> QED  BY <3>8, <4>1
    <3> QED  BY <3>2, <3>7, <3>8
  <2>3. CASE ~ProcessImage
    <3>1. zip' = zip
      BY <2>3 DEF FlashNext, ParseOutput, MergeFails, GenericParsed, VariantsParsed,
             GenerateVariantIp, VariantizeFails, Variantize, ImageFails, WriteResults, MakeIso
    <3> QED  BY <2>1, <3>1
  <2> QED  BY <2>2, <2>3
<1>8. \A t \in DOMAIN zip' : /\ t \in Targets
                             /\ zip'[t] \in Sources \X Files \X (Variants \cup {None})
                             /\ zip'[t][2] = t[1]
                             /\ t[2] # None => zip'[t][3] \in {None, t[2]}
  BY <1>7
<1> HIDE DEF Entry
<1> QED  BY <1>1, <1>2, <1>3, <1>4, <1>5, <1>6, <1>8 DEF FlashTypeOK

(* Every step keeps the invariant.                                         *)
LEMMA FlashKept ==
  ASSUME FlashIInv, [FlashNext]_flashVars
  PROVE  FlashIInv'
<1>1. FlashTypeOK /\ InputInv /\ OnceInv /\ ParseInv /\ FilesInv /\ ZipInv /\ PartsInv
  BY DEF FlashIInv
<1>2. CASE FlashNext
  <2>1. InputInv' /\ OnceInv' /\ ParseInv' /\ FilesInv' /\ ZipInv' /\ PartsInv'
    BY <1>1, <1>2, InputStep, OnceStep, ParseStep, FilesStep, ZipStep, PartsStep
  <2>2. FlashTypeOK'
    BY <1>1, <1>2, <2>1, TypeStep
  <2> QED  BY <2>1, <2>2 DEF FlashIInv
<1>3. CASE UNCHANGED flashVars
  <2>1. /\ setup' = setup /\ pc' = pc /\ at' = at /\ ips' = ips /\ results' = results
        /\ default_config' = default_config /\ listed' = listed /\ files' = files
        /\ zip' = zip /\ iso' = iso
    BY <1>3 DEF flashVars
  <2>2. /\ ini' = ini /\ FirstDefault' = FirstDefault /\ Gen' = Gen /\ FinalIps' = FinalIps
        /\ MadeAll' = MadeAll /\ Queue' = Queue /\ Jobs' = Jobs /\ Variantized' = Variantized
    BY <2>1, SetupSame, IpsSame, JobsSame
  <2>3. Turns' = Turns /\ Parsing' = Parsing /\ IsoOf' = IsoOf
    BY <2>1, <2>2 DEF Turns, Parsing, IsoOf, Pieces
  <2>4. /\ \A f : Big(f)' = Big(f)
        /\ \A f : NumberOfParts(f)' = NumberOfParts(f)
    BY <2>1 DEF Big, NumberOfParts
  <2>5. InputInv' /\ OnceInv'
    BY <1>1, <2>1, <2>2 DEF InputInv, OnceInv
  <2>6. ParseInv'
    BY <1>1, <2>1, <2>2, <2>3 DEF ParseInv
  <2>7. FilesInv' /\ FlashTypeOK'
    BY <1>1, <2>1, <2>2 DEF FilesInv, FlashTypeOK
  <2>8. ZipInv'
    <3>1. \A s, f, v : Content(s, f, v)' = Content(s, f, v)
      BY <2>1, ContentSame
    <3> QED  BY <1>1, <2>1, <2>2, <2>3, <3>1 DEF ZipInv
  <2>9. PartsInv'
    BY <1>1, <2>1, <2>3, <2>4 DEF PartsInv
  <2> QED  BY <2>5, <2>6, <2>7, <2>8, <2>9 DEF FlashIInv
<1> QED  BY <1>2, <1>3

-----------------------------------------------------------------------------
(* The invariant holds in every state.                                     *)
THEOREM FlashInvariant == FlashSpec => []FlashIInv
<1>1. FlashInit => FlashIInv
  BY FlashInitInv
<1>2. FlashIInv /\ [FlashNext]_flashVars => FlashIInv'
  BY FlashKept
<1> QED  BY <1>1, <1>2, PTL DEF FlashSpec

(* What is listed, taken and written is typed, and an entry that is named  *)
(* by a variant is not that of another.                                    *)
THEOREM FlashTypes == FlashSpec => []FlashTypeOK
<1>1. FlashIInv => FlashTypeOK
  BY DEF FlashIInv
<1> QED  BY <1>1, FlashInvariant, PTL

-----------------------------------------------------------------------------
(* What is known when the program has finished.                            *)
LEMMA AtTheEnd ==
  ASSUME FlashIInv, Finished
  PROVE  /\ setup \in Setups /\ Ips(ips) /\ ips = FinalIps /\ FlashTypeOK
         /\ IsSeq(files) /\ AlsoBy(ini) \subseteq ToSet(files)
         /\ ToSet(files) \subseteq NamedBy(ini) \cup AlsoBy(ini)
         /\ ResultsFor(results, ips, Pairs(ips), MadeAll)
         /\ ListedFor(listed, ips, Pairs(ips), MadeAll)
         /\ CmdFiles = {x[2] : x \in ToSet(listed)}
         /\ \A job \in ToSet(Jobs) : job.target \in DOMAIN zip
         /\ \A t \in DOMAIN zip : \E job \in ToSet(Jobs) :
              t = job.target /\ zip[t] = Content(job.source, job.file, job.variant)
<1>1. pc \in {"done", "iso"} /\ InputInv /\ ParseInv /\ FilesInv /\ ZipInv /\ FlashTypeOK
  BY DEF Finished, FlashIInv
<1>2. setup \in Setups /\ ips = FinalIps
  BY <1>1 DEF InputInv
<1>3. Ips(ips)
  BY <1>2, FinalIsIps
<1>4. CmdFiles = {x[2] : x \in ToSet(listed)}
  BY DEF CmdFiles, ToSet
<1>5. /\ IsSeq(files) /\ AlsoBy(ini) \subseteq ToSet(files)
      /\ ToSet(files) \subseteq NamedBy(ini) \cup AlsoBy(ini)
  BY <1>1 DEF FilesInv
<1>6. /\ ResultsFor(results, ips, Pairs(ips), MadeAll)
      /\ ListedFor(listed, ips, Pairs(ips), MadeAll)
  BY <1>1 DEF ParseInv
<1>7. /\ \A job \in ToSet(Jobs) : job.target \in DOMAIN zip
      /\ \A t \in DOMAIN zip : \E job \in ToSet(Jobs) :
           t = job.target /\ zip[t] = Content(job.source, job.file, job.variant)
  BY <1>1 DEF ZipInv
<1> QED  BY <1>1, <1>2, <1>3, <1>4, <1>5, <1>6, <1>7

(* The ini files that commands are made of.                                *)
LEMMA IpsAre ==
  ASSUME setup \in Setups, Ips(ips), ips = FinalIps
  PROVE  /\ DOMAIN ips = 1..Len(ips) /\ Len(ips) \in Nat /\ \A k \in 1..Len(ips) : IpShape(ips[k])
         /\ setup.variants = <<>> => /\ ips = <<ini>> /\ Len(ips) = 1 /\ ips[1] = ini
         /\ setup.variants # <<>> =>
              /\ Len(ips) = Len(setup.variants)
              /\ \A k \in 1..Len(ips) :
                   /\ ips[k] = GenIp(setup.variants[k], IF k = 1 THEN FirstDefault ELSE None)
                   /\ setup.variants[k] \in ToSet(setup.variants)
                   /\ setup.variants[k] \in Variants
                   /\ ips[k].variant = setup.variants[k]
                   /\ ips[k].outputs = OutputsOf(setup.variants[k])
                   /\ ips[k].rows = RowsOf(setup.variants[k])
                   /\ ips[k].files = FilesOf(setup.variants[k])
                   /\ ips[k].additional = AdditionalOf(setup.variants[k])
<1>1. DOMAIN ips = 1..Len(ips) /\ Len(ips) \in Nat /\ \A k \in 1..Len(ips) : IpShape(ips[k])
  BY SeqShape DEF Ips
<1>2. CASE setup.variants = <<>>
  <2>1. ips = <<ini>>
    BY <1>2 DEF FinalIps
  <2> QED  BY <1>1, <1>2, <2>1, OneSeq
<1>3. CASE setup.variants # <<>>
  <2>1. ips = Gen
    BY <1>3 DEF FinalIps
  <2>2. Len(ips) = Len(setup.variants)
    BY <2>1, GenIsSeq
  <2> QED  BY <1>1, <1>3, <2>1, <2>2, GenAt
<1> QED  BY <1>2, <1>3

(* Additional files of an ini file are listed with its first output.       *)
LEMMA AdditionalListed ==
  ASSUME Ips(ips), ListedFor(listed, ips, Pairs(ips), MadeAll), NEW k \in 1..Len(ips)
  PROVE  AlsoBy(ips[k]) \subseteq ToSet(listed)
<1>1. IpShape(ips[k]) /\ Len(ips) \in Nat
  BY SeqShape DEF Ips
<1>2. 1 \in 1..Len(ips[k].outputs)
  <2>1. IsSeq(ips[k].outputs) /\ Len(ips[k].outputs) # 0
    BY <1>1 DEF IpShape
  <2> QED  BY <2>1, SeqShape
<1>3. <<k, 1>> \in Pairs(ips)
  BY <1>1, <1>2 DEF Pairs
<1> QED  BY <1>3 DEF ListedFor

-----------------------------------------------------------------------------
(* Additional files of every variant are in the zip, under their own name  *)
(* or that of the variant, whatever other variants drop or add.            *)
LEMMA AdditionalAtEnd == FlashIInv => AdditionalThere
<1> SUFFICES ASSUME FlashIInv, Finished,
                    \A v \in ToSet(setup.variants) :
                      \A x \in Dropped(v), y \in ToSet(AdditionalOf(v)) : x[2] # y[2],
                    NEW k \in DOMAIN ips, NEW f \in ToSet(ips[k].additional)
             PROVE  {<<f[2], None>>, <<f[2], ips[k].variant>>} \cap DOMAIN zip # {}
  BY DEF AdditionalThere
<1> DEFINE x == <<f[1], <<f[2], None>>>>
           v == setup.variants[k]
<1>1. /\ setup \in Setups /\ Ips(ips) /\ ips = FinalIps
      /\ IsSeq(files) /\ AlsoBy(ini) \subseteq ToSet(files)
      /\ ListedFor(listed, ips, Pairs(ips), MadeAll)
      /\ CmdFiles = {z[2] : z \in ToSet(listed)}
      /\ \A job \in ToSet(Jobs) : job.target \in DOMAIN zip
  BY AtTheEnd
<1>2. k \in 1..Len(ips)
  BY <1>1, IpsAre
<1>3. f \in ToSet(ini.additional) => x \in ToSet(files)
  BY <1>1 DEF AlsoBy
<1>4. CASE setup.variants = <<>>
  <2>1. f \in ToSet(ini.additional)
    BY <1>1, <1>2, <1>4, IpsAre
  <2>2. Job(x[1], x[2][1], None, x[2]) \in ToSet(Jobs)
    BY <1>1, <1>3, <1>4, <2>1, JobsAre
  <2>3. Job(x[1], x[2][1], None, x[2]).target = <<f[2], None>>
    BY DEF Job
  <2> QED  BY <1>1, <2>2, <2>3
<1>5. CASE setup.variants # <<>>
  <2>1. /\ v \in ToSet(setup.variants) /\ ips[k].variant = v
        /\ ips[k].additional = AdditionalOf(v)
    BY <1>1, <1>2, <1>5, IpsAre
  <2> HIDE DEF v
  <2>2. CASE f \in ToSet(ini.additional)
    <3>1. x \in ToSet(listed)
      BY <1>1, <1>2, AdditionalListed DEF AlsoBy
    <3>2. <<f[2], None>> \in CmdFiles
      BY <1>1, <3>1
    <3>3. VariantFilename(f[2], v) \notin Excluded
      <4> SUFFICES ASSUME VariantFilename(f[2], v) \in Excluded
                   PROVE  FALSE
        OBVIOUS
      <4>1. PICK w \in ToSet(setup.variants) :
              <<f[2], v>> \in {VariantFilename(g[2], w) : g \in Dropped(w)}
        BY DEF Excluded, VariantFilename
      <4>2. PICK g \in Dropped(w) : <<f[2], v>> = <<g[2], w>>
        BY <4>1 DEF VariantFilename
      <4>3. g \in Dropped(v) /\ g[2] = f[2] /\ f \in ToSet(AdditionalOf(v))
        BY <2>1, <4>2
      <4> QED  BY <2>1, <4>3
    <3>4. ~Skipped(x[2][1], v)
      BY <3>2, <3>3 DEF Skipped
    <3> DEFINE job == Job(x[1], x[2][1], v, TargetOut(x[2][1], v))
    <3>5. FileJob(job)
      BY <1>3, <2>1, <2>2, <3>4 DEF FileJob
    <3>6. job.target = TargetOut(f[2], v)
      BY DEF Job
    <3> HIDE DEF job
    <3>7. TargetOut(f[2], v) \in DOMAIN zip
      BY <1>1, <1>5, <3>5, <3>6, JobsAre
    <3>8. TargetOut(f[2], v) \in {<<f[2], None>>, <<f[2], v>>}
      BY DEF TargetOut, VariantFilename
    <3> QED  BY <2>1, <3>7, <3>8
  <2>3. CASE f \notin ToSet(ini.additional)
    <3>1. f \in Included(v)
      BY <2>1, <2>3 DEF Included
    <3> DEFINE job == Job(f[1], f[2], v, VariantFilename(f[2], v))
    <3>2. OwnJob(job)
      BY <2>1, <3>1 DEF OwnJob
    <3>3. job.target = <<f[2], v>>
      BY DEF Job, VariantFilename
    <3> HIDE DEF job
    <3>4. <<f[2], v>> \in DOMAIN zip
      BY <1>1, <1>5, <3>2, <3>3, JobsAre
    <3> QED  BY <2>1, <3>4
  <2> QED  BY <2>2, <2>3
<1> QED  BY <1>4, <1>5

THEOREM AdditionalFilesThere == FlashSpec => []AdditionalThere
BY FlashInvariant, AdditionalAtEnd, PTL

-----------------------------------------------------------------------------
(* Parts of a flattened sequence do not overlap.                           *)
LEMMA FlattenBefore ==
  ASSUME NEW s, NEW m \in Nat, NEW r, NEW pos, Flattened(s, m, r, pos),
         \A i \in 1..m : IsSeq(s[i]),
         NEW i \in 1..m, NEW j \in 1..m, i < j
  PROVE  pos[i] + Len(s[i]) <= pos[j]
<1> DEFINE Q == {n \in Nat : i + 1 + n <= m => pos[i] + Len(s[i]) <= pos[i + 1 + n]}
<1>1. /\ pos \in [1..(m + 1) -> Nat]
      /\ \A k \in 1..m : pos[k + 1] = pos[k] + Len(s[k])
  BY DEF Flattened
<1>2. \A k \in 1..m : Len(s[k]) \in Nat
  BY SeqShape
<1>3. 0 \in Q
  <2>1. pos[i] \in Nat /\ Len(s[i]) \in Nat /\ pos[i + 1] = pos[i] + Len(s[i]) /\ i + 1 + 0 = i + 1
    BY <1>1, <1>2
  <2> QED  BY <2>1
<1>4. ASSUME NEW n \in Nat, n \in Q
      PROVE  n + 1 \in Q
  <2> SUFFICES ASSUME i + 1 + (n + 1) <= m
               PROVE  pos[i] + Len(s[i]) <= pos[i + 1 + (n + 1)]
    OBVIOUS
  <2> DEFINE k == i + 1 + n
  <2>1. k \in 1..m /\ i + 1 + (n + 1) = k + 1 /\ k <= m
    OBVIOUS
  <2>2. pos[i] + Len(s[i]) <= pos[k]
    BY <1>4, <2>1
  <2> HIDE DEF k, Q
  <2>3. pos[k + 1] = pos[k] + Len(s[k]) /\ Len(s[k]) \in Nat /\ pos[k] \in Nat /\ pos[i] \in Nat
    BY <1>1, <1>2, <2>1
  <2>4. Len(s[i]) \in Nat
    BY <1>2
  <2> QED  BY <2>1, <2>2, <2>3, <2>4
<1> HIDE DEF Q
<1>5. \A n \in Nat : n \in Q
  BY <1>3, <1>4, SetInduction
<1>6. j - i - 1 \in Nat /\ i + 1 + (j - i - 1) = j
  OBVIOUS
<1>7. j - i - 1 \in Q
  BY <1>5, <1>6
<1> QED  BY <1>6, <1>7 DEF Q

(* What is in two parts is in a flattened sequence twice.                  *)
LEMMA FlattenOnce ==
  ASSUME NEW s, IsSeq(s), \A i \in 1..Len(s) : IsSeq(s[i]), IsInjective(FlattenSeq(s)),
         NEW i \in 1..Len(s), NEW j \in 1..Len(s), NEW x \in ToSet(s[i]), x \in ToSet(s[j])
  PROVE  i = j
<1> DEFINE r == FlattenSeq(s)
<1>1. PICK pos : Flattened(s, Len(s), r, pos)
  BY FlattenShape
<1>2. IsInjective(r)
  OBVIOUS
<1> HIDE DEF r
<1>3. PICK k \in 1..Len(s[i]) : x = s[i][k]
  BY Members
<1>4. PICK n \in 1..Len(s[j]) : x = s[j][n]
  BY Members
<1>5. /\ IsSeq(r) /\ pos \in [1..(Len(s) + 1) -> Nat]
      /\ pos[i] + k \in 1..Len(r) /\ r[pos[i] + k] = x
      /\ pos[j] + n \in 1..Len(r) /\ r[pos[j] + n] = x
  BY <1>1, <1>3, <1>4 DEF Flattened
<1>6. pos[i] + k = pos[j] + n
  <2>1. DOMAIN r = 1..Len(r)
    BY <1>5, SeqShape
  <2>2. \A a, b \in DOMAIN r : r[a] = r[b] => a = b
    BY <1>2 DEF IsInjective
  <2>3. ASSUME NEW a \in 1..Len(r), NEW b \in 1..Len(r), r[a] = x, r[b] = x
        PROVE  a = b
    BY <2>1, <2>2, <2>3
  <2> QED  BY <1>5, <2>3
<1>7. Len(s) \in Nat /\ Len(s[i]) \in Nat /\ Len(s[j]) \in Nat
  BY SeqShape
<1>8. pos[i] \in Nat /\ pos[j] \in Nat
  <2>1. i \in 1..(Len(s) + 1) /\ j \in 1..(Len(s) + 1)
    BY <1>7
  <2>2. pos \in [1..(Len(s) + 1) -> Nat]
    BY <1>5
  <2> HIDE <1>5
  <2> QED  BY <2>1, <2>2
<1>9. CASE i < j
  <2>1. pos[i] + Len(s[i]) <= pos[j]
    BY <1>1, <1>7, <1>9, FlattenBefore
  <2> QED  BY <1>6, <1>7, <1>8, <2>1
<1>10. CASE j < i
  <2>1. pos[j] + Len(s[j]) <= pos[i]
    BY <1>1, <1>7, <1>10, FlattenBefore
  <2> QED  BY <1>6, <1>7, <1>8, <2>1
<1> QED  BY <1>7, <1>9, <1>10

(* Of outputs whose configurations can get a variant, one has each.        *)
LEMMA OnceOutput ==
  ASSUME setup \in Setups, IsInjective(Variantized),
         NEW i \in 1..Len(ini.outputs), NEW j \in 1..Len(ini.outputs),
         NEW c \in ToSet(ini.outputs[i].configs), c \in ToSet(ini.outputs[j].configs)
  PROVE  i = j
<1> DEFINE s == [k \in DOMAIN ini.outputs |-> ini.outputs[k].configs]
<1>1. IsSeq(ini.outputs) /\ DOMAIN ini.outputs = 1..Len(ini.outputs)
  BY SetupIs, SeqShape DEF IpShape
<1>2. IsSeq(s) /\ Len(s) = Len(ini.outputs)
  BY <1>1, MadeSeq
<1>3. \A k \in 1..Len(s) : s[k] = ini.outputs[k].configs
  BY <1>1, <1>2
<1>4. IsInjective(FlattenSeq(s))
  BY DEF Variantized
<1> HIDE DEF s
<1>5. \A k \in 1..Len(s) : IsSeq(s[k])
  BY <1>2, <1>3, OutputsAre
<1> QED  BY <1>2, <1>3, <1>4, <1>5, FlattenOnce

-----------------------------------------------------------------------------
(* Configurations of a json body and which is a default.                   *)
LEMMA JsonDefault ==
  ASSUME NEW ip, NEW o
  PROVE  /\ DOMAIN Json(ip, o).body.configurations = ToSet(o.configs)
         /\ \A c \in ToSet(o.configs) :
              Json(ip, o).body.configurations[c].default = ip.configs[c].default
BY DEF Json

(* What a configuration of a json output of a variant was made of.         *)
LEMMA GenConfig ==
  ASSUME setup \in Setups, Ips(ips), ips = FinalIps, setup.variants # <<>>,
         NEW p \in Pairs(ips), OutOf(ips, p).kind = "json", NEW c \in ToSet(OutOf(ips, p).configs)
  PROVE  \E j \in 1..Len(ini.outputs) : \E d \in ToSet(ini.outputs[j].configs) :
           /\ OutOf(ips, p).name = ini.outputs[j].name
           /\ c = <<d[1], setup.variants[p[1]]>>
           /\ d = <<d[1], None>> /\ d \in DOMAIN ini.configs
           /\ ips[p[1]].configs[c].default <=> (d = IF p[1] = 1 THEN FirstDefault ELSE None)
<1> DEFINE k == p[1]
           v == setup.variants[k]
           kept == IF k = 1 THEN FirstDefault ELSE None
           o == OutOf(ips, p)
<1>1. /\ k \in 1..Len(ips) /\ p[2] \in 1..Len(ips[k].outputs)
  BY PairIs
<1>2. ips[k] = GenIp(v, kept) /\ v \in Variants /\ ips[k].outputs = OutputsOf(v)
  BY <1>1, IpsAre
<1>3. PICK j \in 1..Len(ini.outputs) : OutputFor(o, ini.outputs[j], v)
  BY <1>1, <1>2, OutputsOfIs DEF OutOf
<1> DEFINE x == ini.outputs[j]
<1>4. IsSeq(x.configs) /\ ToSet(x.configs) \subseteq DOMAIN ini.configs
  BY OutputsAre
<1>5. o.kind = "json" /\ c \in ToSet(o.configs)
  OBVIOUS
<1> HIDE DEF o, x, v, kept
<1>6. o.name = x.name /\ o.configs = [m \in DOMAIN x.configs |-> <<x.configs[m][1], v>>]
  BY <1>3, <1>5 DEF OutputFor, x
<1>7. PICK m \in DOMAIN x.configs : c = <<x.configs[m][1], v>>
  BY <1>5, <1>6 DEF ToSet
<1> DEFINE d == x.configs[m]
<1>8. d \in ToSet(x.configs)
  BY DEF ToSet
<1>9. d \in DOMAIN ini.configs /\ d = <<d[1], None>>
  BY <1>4, <1>8, SetupIs DEF IsIni
<1>10. d \in ToSet(Variantized)
  BY <1>8, VariantizedIs DEF x
<1> HIDE DEF d
<1>11. c = <<d[1], v>> /\ <<c[1], None>> = d
  BY <1>7, <1>9 DEF d
<1>12. GenIp(v, kept).configs[c].default <=> d = kept
  <2>1. c \in {<<e[1], v>> : e \in ToSet(Variantized)}
    BY <1>10, <1>11
  <2> QED  BY <1>11, <2>1 DEF GenIp
<1> QED  BY <1>2, <1>6, <1>8, <1>9, <1>11, <1>12 DEF o, x, v, kept

(* Which configuration of which command file is the default.               *)
LEMMA DefaultIs ==
  ASSUME FlashIInv, Finished, setup.variants # <<>>, NEW i \in DOMAIN results,
         results[i].kind = "json", NEW c \in DOMAIN results[i].body.configurations
  PROVE  /\ results[i].body.configurations[c].default
              <=> FirstDefault # None /\ c = <<FirstDefault[1], setup.variants[1]>>
         /\ results[i].body.configurations[c].default =>
              \E j \in 1..Len(ini.outputs) :
                /\ FirstDefault \in ToSet(ini.outputs[j].configs)
                /\ ini.outputs[j].name = results[i].name
<1> DEFINE r == results[i]
           E == With(ips, Pairs(ips), r.name)
<1>1. /\ setup \in Setups /\ Ips(ips) /\ ips = FinalIps
      /\ ResultsFor(results, ips, Pairs(ips), MadeAll)
  BY AtTheEnd
<1>2. i \in 1..Len(results)
  BY <1>1, SeqShape DEF ResultsFor
<1>3. ResultFor(r, ips, Pairs(ips), MadeAll) /\ r.kind = "json"
  BY <1>1, <1>2 DEF ResultsFor
<1>4. /\ \A p \in E : OutOf(ips, p).kind = "json"
      /\ BodyOf(r.body, MadeAll, E)
      /\ \A p \in E : p \in Pairs(ips) /\ OutOf(ips, p).name = r.name
  BY <1>3 DEF ResultFor, With
<1>5. PICK p \in E : c \in DOMAIN MadeAll[p].body.configurations
  BY <1>4 DEF BodyOf
<1> DEFINE o == OutOf(ips, p)
           ip == ips[p[1]]
<1>6. /\ p \in Pairs(ips) /\ o.kind = "json" /\ o.name = r.name
      /\ Keeps(r.body, MadeAll[p].body)
  BY <1>4 DEF BodyOf
<1>7. MadeAll[p] = Json(ip, o)
  BY <1>1, <1>6, MadeIs
<1>8. /\ c \in ToSet(o.configs)
      /\ Json(ip, o).body.configurations[c].default = ip.configs[c].default
  BY <1>5, <1>7, JsonDefault
<1>9. r.body.configurations[c].default = ip.configs[c].default
  BY <1>5, <1>6, <1>7, <1>8 DEF Keeps
<1>10. PICK j \in 1..Len(ini.outputs) : \E d \in ToSet(ini.outputs[j].configs) :
         /\ o.name = ini.outputs[j].name
         /\ c = <<d[1], setup.variants[p[1]]>>
         /\ d = <<d[1], None>> /\ d \in DOMAIN ini.configs
         /\ ip.configs[c].default <=> (d = IF p[1] = 1 THEN FirstDefault ELSE None)
  BY <1>1, <1>6, <1>8, GenConfig
<1>11. PICK d \in ToSet(ini.outputs[j].configs) :
         /\ o.name = ini.outputs[j].name
         /\ c = <<d[1], setup.variants[p[1]]>>
         /\ d = <<d[1], None>> /\ d \in DOMAIN ini.configs
         /\ ip.configs[c].default <=> (d = IF p[1] = 1 THEN FirstDefault ELSE None)
  BY <1>10
<1>12. None \notin DOMAIN ini.configs /\ \A e \in DOMAIN ini.configs : e = <<e[1], None>>
  BY <1>1, SetupIs DEF IsIni
<1>13. FirstDefault # None => FirstDefault = <<FirstDefault[1], None>>
  BY <1>1, <1>12, FirstDefaultIs, VariantizedIs
<1>14. p[1] \in 1..Len(setup.variants) /\ 1 \in 1..Len(setup.variants)
  <2>1. p[1] \in 1..Len(setup.variants) /\ Len(ips) \in Nat /\ Len(ips) = Len(setup.variants)
    BY <1>1, <1>6, PairIs, IpsAre
  <2> QED  BY <2>1
<1>15. setup.variants[p[1]] = setup.variants[1] => p[1] = 1
  <2>1. IsInjective(setup.variants) /\ DOMAIN setup.variants = 1..Len(setup.variants)
    BY <1>1, SetupIs, SeqShape
  <2> QED  BY <1>14, <2>1 DEF IsInjective
<1> HIDE DEF r, E, o, ip
<1>16. r.body.configurations[c].default <=> FirstDefault # None /\ p[1] = 1 /\ d = FirstDefault
  BY <1>9, <1>11, <1>12
<1>17. ASSUME FirstDefault # None, c = <<FirstDefault[1], setup.variants[1]>>
       PROVE  p[1] = 1 /\ d = FirstDefault
  <2>1. d[1] = FirstDefault[1] /\ setup.variants[p[1]] = setup.variants[1]
    BY <1>11, <1>17
  <2> QED  BY <1>11, <1>13, <1>15, <1>17, <2>1
<1>18. r.body.configurations[c].default
         <=> FirstDefault # None /\ c = <<FirstDefault[1], setup.variants[1]>>
  BY <1>11, <1>16, <1>17
<1>19. r.body.configurations[c].default =>
         FirstDefault \in ToSet(ini.outputs[j].configs) /\ ini.outputs[j].name = r.name
  BY <1>6, <1>11, <1>16
<1> QED  BY <1>18, <1>19 DEF r

(* The default configuration of the ini file is that of a command file.    *)
LEMMA DefaultMade ==
  ASSUME FlashIInv, Finished, setup.variants # <<>>, FirstDefault # None
  PROVE  \E i \in DOMAIN results :
           /\ results[i].kind = "json"
           /\ <<FirstDefault[1], setup.variants[1]>> \in DOMAIN results[i].body.configurations
<1> DEFINE c == <<FirstDefault[1], setup.variants[1]>>
           v == setup.variants[1]
<1>1. /\ setup \in Setups /\ Ips(ips) /\ ips = FinalIps
      /\ ResultsFor(results, ips, Pairs(ips), MadeAll)
  BY AtTheEnd
<1>2. FirstDefault \in ToSet(Variantized)
  BY <1>1, FirstDefaultIs
<1>3. PICK j \in 1..Len(ini.outputs) : FirstDefault \in ToSet(ini.outputs[j].configs)
  BY <1>1, <1>2, VariantizedIs
<1> DEFINE x == ini.outputs[j]
<1>4. x.kind = "json" /\ IsSeq(x.configs)
  <2>1. x.kind \in {"json", "cmd"} /\ (x.kind = "cmd" => x.configs = <<>>) /\ IsSeq(x.configs)
    BY <1>1, OutputsAre
  <2> QED  BY <1>3, <2>1, NoSeq
<1>5. 1 \in 1..Len(ips)
  <2>1. IsSeq(setup.variants) /\ Len(ips) = Len(setup.variants) /\ Len(ips) \in Nat
    BY <1>1, SetupIs, IpsAre
  <2>2. Len(ips) # 0
    BY <2>1 DEF IsSeq
  <2> QED  BY <2>1, <2>2
<1>6. v \in Variants /\ ips[1].outputs = OutputsOf(v)
  BY <1>1, <1>5, IpsAre
<1>7. PICK m \in 1..Len(OutputsOf(v)) : OutputFor(OutputsOf(v)[m], x, v)
  BY <1>1, <1>6, OutputsOfIs
<1> DEFINE p == <<1, m>>
           o == OutOf(ips, p)
<1>8. Len(ips) \in Nat /\ Len(ips[1].outputs) \in Nat
  BY <1>1, <1>5, IpsAre, SeqShape DEF IpShape
<1>9. p \in Pairs(ips) /\ o = OutputsOf(v)[m]
  BY <1>5, <1>6, <1>8 DEF Pairs, OutOf
<1> HIDE DEF o, x, p
<1>10. /\ o.kind = "json"
       /\ o.configs = [n \in DOMAIN x.configs |-> <<x.configs[n][1], v>>]
  BY <1>4, <1>7, <1>9 DEF OutputFor
<1>11. c \in ToSet(o.configs)
  <2>1. PICK n \in DOMAIN x.configs : FirstDefault = x.configs[n]
    BY <1>3 DEF ToSet, x
  <2>2. n \in DOMAIN o.configs /\ o.configs[n] = c
    BY <1>10, <2>1
  <2> QED  BY <2>2 DEF ToSet
<1>12. PICK i \in 1..Len(results) : results[i].name = o.name
  BY <1>1, <1>9 DEF ResultsFor, o
<1>13. p \in With(ips, Pairs(ips), results[i].name)
  BY <1>9, <1>12 DEF With, o
<1>14. ResultFor(results[i], ips, Pairs(ips), MadeAll) /\ i \in DOMAIN results
  BY <1>1, <1>12, SeqShape DEF ResultsFor
<1>15. results[i].kind = "json" /\ Keeps(results[i].body, MadeAll[p].body)
  BY <1>10, <1>13, <1>14 DEF ResultFor, BodyOf, o
<1>16. MadeAll[p] = Json(ips[p[1]], o)
  BY <1>1, <1>9, <1>10, MadeIs DEF o
<1>17. c \in DOMAIN MadeAll[p].body.configurations
  BY <1>11, <1>16, JsonDefault
<1> QED  BY <1>14, <1>15, <1>17 DEF Keeps

LEMMA DefaultAtEnd == FlashIInv => OneDefault
<1> DEFINE jsons == {i \in DOMAIN results : results[i].kind = "json"}
           defaults == UNION {{<<i, c>> : c \in {d \in DOMAIN results[i].body.configurations :
                                results[i].body.configurations[d].default}} : i \in jsons}
           any == \E i \in DOMAIN Variantized : ini.configs[Variantized[i]].default
           d == <<FirstDefault[1], setup.variants[1]>>
<1> SUFFICES ASSUME FlashIInv, Finished, setup.variants # <<>>
             PROVE  Cardinality(defaults) = (IF any THEN 1 ELSE 0)
  BY DEF OneDefault
<1>1. /\ setup \in Setups /\ ResultsFor(results, ips, Pairs(ips), MadeAll)
      /\ IsInjective(Variantized)
  <2>1. OnceInv /\ pc \in {"done", "iso"}
    BY DEF FlashIInv, Finished
  <2> QED  BY <2>1, AtTheEnd DEF OnceInv
<1>2. any <=> FirstDefault # None
  <2>1. any <=> \E c \in ToSet(Variantized) : IsDefault(c)
    BY DEF ToSet, IsDefault
  <2> QED  BY <1>1, <2>1, FirstDefaultIs
<1>3. \A x : x \in defaults <=>
        \E i \in jsons : \E c \in DOMAIN results[i].body.configurations :
          x = <<i, c>> /\ results[i].body.configurations[c].default
  OBVIOUS
<1> HIDE DEF defaults, any
<1>4. CASE FirstDefault = None
  <2>1. defaults = {}
    BY <1>3, <1>4, DefaultIs
  <2> QED  BY <1>2, <1>4, <2>1, FS_EmptySet
<1>5. CASE FirstDefault # None
  <2>1. PICK i \in jsons : d \in DOMAIN results[i].body.configurations
    BY <1>5, DefaultMade
  <2>2. results[i].body.configurations[d].default
    BY <1>5, <2>1, DefaultIs
  <2>3. <<i, d>> \in defaults
    BY <1>3, <2>1, <2>2
  <2>4. ASSUME NEW x \in defaults
        PROVE  x = <<i, d>>
    <3>1. PICK k \in jsons : \E c \in DOMAIN results[k].body.configurations :
            x = <<k, c>> /\ results[k].body.configurations[c].default
      BY <1>3
    <3>2. PICK c \in DOMAIN results[k].body.configurations :
            x = <<k, c>> /\ results[k].body.configurations[c].default
      BY <3>1
    <3>3. c = d
      BY <3>2, DefaultIs
    <3>4. PICK m \in 1..Len(ini.outputs) : /\ FirstDefault \in ToSet(ini.outputs[m].configs)
                                           /\ ini.outputs[m].name = results[k].name
      BY <3>2, DefaultIs
    <3>5. PICK n \in 1..Len(ini.outputs) : /\ FirstDefault \in ToSet(ini.outputs[n].configs)
                                           /\ ini.outputs[n].name = results[i].name
      BY <2>1, <2>2, DefaultIs
    <3>6. m = n
      BY <1>1, <3>4, <3>5, OnceOutput
    <3>7. k \in 1..Len(results) /\ i \in 1..Len(results)
      BY <1>1, SeqShape DEF ResultsFor
    <3>8. k = i
      BY <1>1, <3>4, <3>5, <3>6, <3>7 DEF ResultsFor
    <3> QED  BY <3>2, <3>3, <3>8
  <2>5. defaults = {<<i, d>>}
    BY <2>3, <2>4
  <2> QED  BY <1>2, <1>5, <2>5, FS_Singleton
<1> QED  BY <1>4, <1>5

(* All command files for several variants have one default together.       *)
THEOREM OneDefaultOfAll == FlashSpec => []OneDefault
BY FlashInvariant, DefaultAtEnd, PTL

-----------------------------------------------------------------------------
(* The files with their sources: of rows, and additional ones.             *)
RowFiles == {<<r.source, r.file>> : r \in {q \in Rows : q.file # None}}

AlsoFiles == ToSet(ini.additional) \cup UNION {ToSet(ips[k].additional) : k \in DOMAIN ips}

LEMMA ConsistentIs ==
  ASSUME Consistent
  PROVE  /\ \A x, y \in RowFiles \cup AlsoFiles : Short[x[2]] = Short[y[2]] => x = y
         /\ \A x \in RowFiles : \E y \in ToSet(files) : y[1] = x[1] /\ y[2][1] = x[2]
         /\ \A v \in ToSet(setup.variants) : Dropped(v) \cap RowFiles = {}
         /\ \A f \in Files : Short[f] = Stem[f]
         /\ \A o \in ToSet(ini.outputs) : IsInjective(o.configs)
<1>1. /\ \A x, y \in RowFiles \cup AlsoFiles : Short[x[2]] = Short[y[2]] => x = y
      /\ RowFiles \subseteq {<<files[i][1], files[i][2][1]>> : i \in DOMAIN files}
      /\ \A v \in ToSet(setup.variants) : Dropped(v) \cap RowFiles = {}
      /\ \A f \in Files : Short[f] = Stem[f]
      /\ \A o \in ToSet(ini.outputs) : IsInjective(o.configs)
  BY DEF Consistent, RowFiles, AlsoFiles
<1>2. \A x \in RowFiles : \E y \in ToSet(files) : y[1] = x[1] /\ y[2][1] = x[2]
  <2> SUFFICES ASSUME NEW x \in RowFiles
               PROVE  \E y \in ToSet(files) : y[1] = x[1] /\ y[2][1] = x[2]
    OBVIOUS
  <2>1. PICK i \in DOMAIN files : x = <<files[i][1], files[i][2][1]>>
    BY <1>1
  <2>2. files[i] \in ToSet(files)
    BY DEF ToSet
  <2> QED  BY <2>1, <2>2
<1> QED  BY <1>1, <1>2

LEMMA RowFileIs ==
  ASSUME NEW k \in DOMAIN ips, NEW r \in ToSet(ips[k].rows), r.file # None
  PROVE  <<r.source, r.file>> \in RowFiles
<1>1. r \in Rows
  BY DEF Rows
<1> QED  BY <1>1 DEF RowFiles

(* A file of the generic ini file is one of a row or an additional one.    *)
LEMMA FileNames ==
  ASSUME setup \in Setups, Ips(ips), ips = FinalIps,
         ToSet(files) \subseteq NamedBy(ini) \cup AlsoBy(ini), NEW x \in ToSet(files)
  PROVE  <<x[1], x[2][1]>> \in RowFiles \cup AlsoFiles
<1>1. CASE x \in NamedBy(ini)
  <2>1. PICK r \in ToSet(ini.rows) : r.file # None /\ x = <<r.source, Named(ini, r.file)>>
    BY <1>1 DEF NamedBy
  <2>2. x[1] = r.source /\ x[2][1] = r.file
    BY <2>1 DEF Named, VariantFilename
  <2>3. \E k \in DOMAIN ips : r \in ToSet(ips[k].rows)
    <3>1. CASE setup.variants = <<>>
      <4>1. ips[1] = ini /\ Len(ips) = 1 /\ DOMAIN ips = 1..Len(ips)
        BY <3>1, IpsAre
      <4> QED  BY <2>1, <4>1
    <3>2. CASE setup.variants # <<>>
      <4>1. Len(ips) = Len(setup.variants) /\ DOMAIN ips = 1..Len(ips) /\ Len(ips) \in Nat
        BY <3>2, IpsAre
      <4>2. 1 \in DOMAIN ips
        <5>1. Len(setup.variants) # 0
          BY <3>2, SetupIs DEF IsSeq
        <5> QED  BY <4>1, <5>1
      <4>3. ips[1].rows = RowsOf(setup.variants[1]) /\ setup.variants[1] \in ToSet(setup.variants)
        BY <3>2, <4>1, <4>2, IpsAre
      <4>4. ToSet(ini.rows) \subseteq ToSet(RowsOf(setup.variants[1]))
        BY <4>3, RowsOfIs
      <4> QED  BY <4>2, <4>3, <4>4
    <3> QED  BY <3>1, <3>2
  <2> QED  BY <2>1, <2>2, <2>3, RowFileIs
<1>2. CASE x \in AlsoBy(ini)
  <2>1. PICK y \in ToSet(ini.additional) : x = <<y[1], <<y[2], None>>>>
    BY <1>2 DEF AlsoBy
  <2>2. y \in Sources \X Files
    BY SetupIs DEF IpShape
  <2>3. <<x[1], x[2][1]>> = y
    BY <2>1, <2>2
  <2>4. y \in AlsoFiles
    BY <2>1 DEF AlsoFiles
  <2> QED  BY <2>3, <2>4
<1> QED  BY <1>1, <1>2

(* So is the file of a job, with its source.                               *)
LEMMA JobNames ==
  ASSUME setup \in Setups, Ips(ips), ips = FinalIps, IsSeq(files),
         ToSet(files) \subseteq NamedBy(ini) \cup AlsoBy(ini), NEW job \in ToSet(Jobs)
  PROVE  <<job.source, job.file>> \in RowFiles \cup AlsoFiles
<1>1. CASE setup.variants = <<>>
  <2>1. PICK x \in ToSet(files) : job = Job(x[1], x[2][1], None, x[2])
    BY <1>1, JobsAre
  <2> QED  BY <2>1, FileNames DEF Job
<1>2. CASE setup.variants # <<>> /\ FileJob(job)
  <2>1. PICK x \in ToSet(files), v \in ToSet(setup.variants) :
          job = Job(x[1], x[2][1], v, TargetOut(x[2][1], v))
    BY <1>2 DEF FileJob
  <2> QED  BY <2>1, FileNames DEF Job
<1>3. CASE setup.variants # <<>> /\ OwnJob(job)
  <2>1. PICK v \in ToSet(setup.variants) : \E y \in Included(v) :
          job = Job(y[1], y[2], v, VariantFilename(y[2], v))
    BY <1>3 DEF OwnJob
  <2>2. PICK y \in Included(v) : job = Job(y[1], y[2], v, VariantFilename(y[2], v))
    BY <2>1
  <2>3. PICK k \in 1..Len(setup.variants) : v = setup.variants[k]
    BY SetupIs, Members
  <2>4. k \in DOMAIN ips /\ ips[k].additional = AdditionalOf(v)
    BY <1>3, <2>3, IpsAre
  <2>5. y \in ToSet(ips[k].additional) /\ y \in Sources \X Files
    BY <2>4, AdditionalOfIs DEF Included
  <2>6. y \in AlsoFiles
    BY <2>4, <2>5 DEF AlsoFiles
  <2>7. job.source = y[1] /\ job.file = y[2] /\ y = <<y[1], y[2]>>
    BY <2>2, <2>5 DEF Job
  <2> QED  BY <2>6, <2>7
<1> QED  BY <1>1, <1>2, <1>3, JobsAre

(* Only the ini file of a variant names a file by it.                      *)
LEMMA NamedOnce ==
  ASSUME Ips(ips), ListedFor(listed, ips, Pairs(ips), MadeAll),
         NEW k \in 1..Len(ips), NEW f, ips[k].variant # None,
         <<f, ips[k].variant>> \in {x[2] : x \in ToSet(listed)}
  PROVE  f \in ips[k].files
<1> DEFINE v == ips[k].variant
<1>1. PICK x \in ToSet(listed) : x[2] = <<f, v>>
  OBVIOUS
<1>2. PICK m \in 1..Len(ips) : x \in NamedBy(ips[m]) \cup AlsoBy(ips[m])
  BY DEF ListedFor
<1>3. x \notin AlsoBy(ips[m])
  BY <1>1 DEF AlsoBy
<1>4. PICK q \in ToSet(ips[m].rows) : x = <<q.source, Named(ips[m], q.file)>>
  BY <1>2, <1>3 DEF NamedBy
<1>5. <<f, v>> = Named(ips[m], q.file)
  BY <1>1, <1>4
<1>6. q.file \in ips[m].files /\ f = q.file /\ v = ips[m].variant
  BY <1>5 DEF Named, VariantFilename
<1>7. m = k
  BY <1>6 DEF Ips
<1> QED  BY <1>6, <1>7

(* A file that a row names, when its name is among those of the commands,  *)
(* is in the zip with what the row means.                                  *)
LEMMA InZip ==
  ASSUME FlashIInv, Finished, Consistent, NEW k \in 1..Len(ips), NEW r \in ToSet(ips[k].rows),
         r.file # None, Named(ips[k], r.file) \in CmdFiles
  PROVE  /\ Named(ips[k], r.file) \in DOMAIN zip
         /\ zip[Named(ips[k], r.file)] = Content(r.source, r.file, ips[k].variant)
<1> DEFINE ip == ips[k]
           f == r.file
           t == Named(ips[k], r.file)
<1>1. /\ setup \in Setups /\ Ips(ips) /\ ips = FinalIps
      /\ IsSeq(files) /\ ToSet(files) \subseteq NamedBy(ini) \cup AlsoBy(ini)
      /\ ListedFor(listed, ips, Pairs(ips), MadeAll)
      /\ CmdFiles = {x[2] : x \in ToSet(listed)}
      /\ \A job \in ToSet(Jobs) : job.target \in DOMAIN zip
      /\ \A u \in DOMAIN zip : \E job \in ToSet(Jobs) :
           u = job.target /\ zip[u] = Content(job.source, job.file, job.variant)
  BY AtTheEnd
<1>2. k \in DOMAIN ips /\ IpShape(ip)
  BY <1>1, IpsAre
<1>3. <<r.source, f>> \in RowFiles
  BY <1>2, RowFileIs
<1>4. /\ \A x, y \in RowFiles \cup AlsoFiles : Short[x[2]] = Short[y[2]] => x = y
      /\ \A x \in RowFiles : \E y \in ToSet(files) : y[1] = x[1] /\ y[2][1] = x[2]
      /\ \A v \in ToSet(setup.variants) : Dropped(v) \cap RowFiles = {}
  BY ConsistentIs
<1>5. PICK x \in ToSet(files) : x[1] = r.source /\ x[2][1] = f
  BY <1>3, <1>4
<1>6. x[2] = <<f, None>>
  <2>1. IpShape(ini) /\ ini.files = {}
    BY <1>1, SetupIs DEF IsIni
  <2>2. x[2] = <<x[2][1], None>>
    BY <1>1, <2>1, NamedIs
  <2> QED  BY <1>5, <2>2
<1>7. t = IF f \in ip.files THEN <<f, ip.variant>> ELSE <<f, None>>
  BY DEF Named, VariantFilename
<1>8. t \in CmdFiles /\ r \in ToSet(ip.rows) /\ f # None
  OBVIOUS
<1>9. pc \notin {"parse", "failed"} /\ InputInv /\ FilesInv
  BY DEF Finished, FlashIInv
<1> HIDE DEF ip, f, t
<1>10. setup.variants # <<>> =>
         LET v == setup.variants[k]
         IN  /\ v \in ToSet(setup.variants) /\ v \in Variants /\ v # None
             /\ ip.variant = v /\ ip.files = FilesOf(v) /\ ip.rows = RowsOf(v)
  <2> HAVE setup.variants # <<>>
  <2>1. /\ setup.variants[k] \in ToSet(setup.variants) /\ setup.variants[k] \in Variants
        /\ ip.variant = setup.variants[k] /\ ip.files = FilesOf(setup.variants[k])
        /\ ip.rows = RowsOf(setup.variants[k])
    BY <1>1, IpsAre DEF ip
  <2> QED  BY <2>1, FlashAssumption
<1>11. t \in DOMAIN zip
  <2>1. CASE setup.variants = <<>>
    <3>10. ips[1] = ini /\ Len(ips) = 1
      BY <1>1, <2>1, IpsAre
    <3>1. ips[k] = ini
      BY <3>10
    <3>2. ip.files = {}
      BY <1>1, <3>1, SetupIs DEF IsIni, ip
    <3>3. t = <<f, None>>
      BY <1>7, <3>2
    <3>4. Job(x[1], x[2][1], None, x[2]) \in ToSet(Jobs)
      BY <1>1, <2>1, JobsAre
    <3>5. Job(x[1], x[2][1], None, x[2]).target = t
      BY <1>6, <3>3 DEF Job
    <3> QED  BY <1>1, <3>4, <3>5
  <2>2. CASE setup.variants # <<>>
    <3> DEFINE v == setup.variants[k]
    <3>1. /\ v \in ToSet(setup.variants) /\ v \in Variants /\ v # None
          /\ ip.variant = v /\ ip.files = FilesOf(v) /\ ip.rows = RowsOf(v)
      BY <1>10, <2>2
    <3> HIDE DEF v
    <3>2. TargetOut(f, v) = t
      <4>1. CASE f \in ip.files
        BY <1>7, <1>8, <3>1, <4>1 DEF TargetOut, VariantFilename
      <4>2. CASE f \notin ip.files
        <5>1. f \notin VariantFiles
          BY <1>1, <1>8, <3>1, <4>2, FilesOfIs DEF f
        <5>2. <<f, v>> \notin CmdFiles
          BY <1>1, <3>1, <4>2, NamedOnce DEF ip
        <5> QED  BY <1>7, <4>2, <5>1, <5>2 DEF TargetOut, VariantFilename
      <4> QED  BY <4>1, <4>2
    <3>3. VariantFilename(f, v) \notin Excluded
      <4> SUFFICES ASSUME VariantFilename(f, v) \in Excluded
                   PROVE  FALSE
        OBVIOUS
      <4>1. PICK w \in ToSet(setup.variants) :
              <<f, v>> \in {VariantFilename(g[2], w) : g \in Dropped(w)}
        BY DEF Excluded, VariantFilename
      <4>2. PICK g \in Dropped(w) : <<f, v>> = <<g[2], w>>
        BY <4>1 DEF VariantFilename
      <4>3. g \in AlsoFiles
        BY <4>2 DEF Dropped, AlsoFiles
      <4>4. g = <<r.source, f>>
        BY <1>3, <1>4, <4>2, <4>3
      <4> QED  BY <1>3, <1>4, <4>1, <4>2, <4>4
    <3>4. ~Skipped(x[2][1], v)
      BY <1>5, <1>8, <3>2, <3>3 DEF Skipped
    <3> DEFINE job == Job(x[1], x[2][1], v, TargetOut(x[2][1], v))
    <3>5. FileJob(job)
      BY <3>1, <3>4 DEF FileJob
    <3>6. job.target = t
      BY <1>5, <3>2 DEF Job
    <3> HIDE DEF job
    <3> QED  BY <1>1, <2>2, <3>5, <3>6, JobsAre
  <2> QED  BY <2>1, <2>2
<1>12. PICK job \in ToSet(Jobs) : t = job.target /\ zip[t] = Content(job.source, job.file, job.variant)
  BY <1>1, <1>11
<1>13. /\ job.target \in {<<job.file, None>>, <<job.file, job.variant>>}
       /\ job.source \in Sources
       /\ job.variant = None => setup.variants = <<>>
  BY <1>9, JobIs
<1>14. job.file = f
  BY <1>7, <1>12, <1>13
<1>15. job.source = r.source
  <2>1. <<job.source, f>> \in RowFiles \cup AlsoFiles
    BY <1>1, <1>14, JobNames
  <2>2. <<job.source, f>> = <<r.source, f>>
    BY <1>3, <1>4, <2>1
  <2> QED  BY <2>2
<1>16. r.source = "images" \/ job.variant = ip.variant
  <2>1. CASE setup.variants = <<>>
    <3>1. job.variant = None
      <4>1. PICK y \in ToSet(files) : job = Job(y[1], y[2][1], None, y[2])
        BY <1>1, <2>1, JobsAre
      <4> QED  BY <4>1 DEF Job
    <3>10. ips[1] = ini /\ Len(ips) = 1
      BY <1>1, <2>1, IpsAre
    <3>2. ips[k] = ini
      BY <3>10
    <3>3. ip.variant = None
      BY <1>1, <3>2, SetupIs DEF IsIni, ip
    <3> QED  BY <3>1, <3>3
  <2>2. CASE setup.variants # <<>> /\ r.source # "images"
    <3> DEFINE v == setup.variants[k]
    <3>1. /\ v \in ToSet(setup.variants) /\ v # None
          /\ ip.variant = v /\ ip.files = FilesOf(v) /\ ip.rows = RowsOf(v)
      BY <1>10, <2>2
    <3> HIDE DEF v
    <3>2. f \in ip.files
      BY <1>1, <1>8, <2>2, <3>1, FilesOfIs DEF f
    <3>3. t = <<f, v>>
      BY <1>7, <3>1, <3>2
    <3> QED  BY <1>12, <1>13, <3>1, <3>3
  <2> QED  BY <2>1, <2>2
<1>17. zip[t] = Content(r.source, f, ip.variant)
  BY <1>12, <1>14, <1>15, <1>16 DEF Content
<1> QED  BY <1>11, <1>17 DEF t, f, ip

-----------------------------------------------------------------------------
(* The result of an output, and the files of it among those of the results.*)
LEMMA ResultIs ==
  ASSUME Ips(ips), ResultsFor(results, ips, Pairs(ips), MadeAll), NEW p \in Pairs(ips)
  PROVE  LET o == OutOf(ips, p)
             r == results[Found(o.name)]
         IN  /\ Found(o.name) \in DOMAIN results /\ r.name = o.name /\ r.kind = o.kind
             /\ o.kind = "json" => /\ IsSeq(r.body.commands)
                                   /\ Keeps(r.body, Json(ips[p[1]], o).body)
             /\ o.kind = "cmd" => r.body = Cmd(ips[p[1]], o).body
<1> DEFINE o == OutOf(ips, p)
<1>1. /\ IsSeq(results) /\ DOMAIN results = 1..Len(results)
      /\ \A i, j \in 1..Len(results) : results[i].name = results[j].name => i = j
  BY SeqShape DEF ResultsFor
<1>2. PICK i \in 1..Len(results) : results[i].name = o.name
  BY DEF ResultsFor
<1>3. Found(o.name) = i
  BY <1>1, <1>2, FoundIs
<1>4. ResultFor(results[i], ips, Pairs(ips), MadeAll)
  BY DEF ResultsFor
<1>5. p \in With(ips, Pairs(ips), results[i].name)
  BY <1>2 DEF With
<1>6. /\ results[i].kind = o.kind
      /\ o.kind = "json" => Body(results[i].body) /\ Keeps(results[i].body, MadeAll[p].body)
      /\ o.kind = "cmd" => results[i].body = MadeAll[p].body
  BY <1>4, <1>5 DEF ResultFor, BodyOf
<1>7. /\ o.kind = "json" => MadeAll[p] = Json(ips[p[1]], o)
      /\ o.kind = "cmd" => MadeAll[p] = Cmd(ips[p[1]], o)
  BY MadeIs
<1> HIDE DEF o
<1>8. /\ o.kind = "json" => /\ IsSeq(results[i].body.commands)
                            /\ Keeps(results[i].body, Json(ips[p[1]], o).body)
      /\ o.kind = "cmd" => results[i].body = Cmd(ips[p[1]], o).body
  BY <1>6, <1>7 DEF Body
<1> QED  BY <1>1, <1>2, <1>3, <1>6, <1>8 DEF o

LEMMA MadeListed ==
  ASSUME Ips(ips), ListedFor(listed, ips, Pairs(ips), MadeAll), NEW p \in Pairs(ips)
  PROVE  LET o == OutOf(ips, p) IN
         /\ o.kind = "json" => \A x \in ToSet(Json(ips[p[1]], o).files) : x[2] \in CmdFiles
         /\ o.kind = "cmd" => \A x \in ToSet(Cmd(ips[p[1]], o).files) : x[2] \in CmdFiles
<1> DEFINE o == OutOf(ips, p)
<1>1. \A x \in ToSet(MadeAll[p].files) : x[2] \in CmdFiles
  <2>1. CmdFiles = {x[2] : x \in ToSet(listed)}
    BY DEF CmdFiles, ToSet
  <2>2. ToSet(MadeAll[p].files) \subseteq ToSet(listed)
    BY DEF ListedFor
  <2> QED  BY <2>1, <2>2
<1>2. /\ o.kind = "json" => MadeAll[p] = Json(ips[p[1]], o)
      /\ o.kind = "cmd" => MadeAll[p] = Cmd(ips[p[1]], o)
  BY MadeIs
<1> HIDE DEF o
<1>3. /\ o.kind = "json" => \A x \in ToSet(Json(ips[p[1]], o).files) : x[2] \in CmdFiles
      /\ o.kind = "cmd" => \A x \in ToSet(Cmd(ips[p[1]], o).files) : x[2] \in CmdFiles
  BY <1>1, <1>2
<1> QED  BY <1>3 DEF o

(* A name among the targets of the zip is that of an image.                *)
LEMMA NoneNotThere ==
  ASSUME FlashTypeOK
  PROVE  None \notin DOMAIN zip
<1>1. DOMAIN zip \subseteq Targets
  BY DEF FlashTypeOK
<1> QED  BY <1>1, FlashAssumption

(* The configurations of a json output are different ones.                 *)
LEMMA ConfigsOnce ==
  ASSUME setup \in Setups, Ips(ips), ips = FinalIps, Consistent,
         NEW p \in Pairs(ips), OutOf(ips, p).kind = "json"
  PROVE  IsInjective(OutOf(ips, p).configs)
<1> DEFINE k == p[1]
           o == OutOf(ips, p)
<1>1. k \in 1..Len(ips) /\ p[2] \in 1..Len(ips[k].outputs)
  BY PairIs
<1>2. \A x \in ToSet(ini.outputs) : IsInjective(x.configs)
  BY ConsistentIs
<1>3. IsSeq(ini.outputs)
  BY SetupIs DEF IpShape
<1>4. CASE setup.variants = <<>>
  <2>1. ips[1] = ini /\ Len(ips) = 1
    BY <1>4, IpsAre
  <2>2. o = ini.outputs[p[2]] /\ p[2] \in 1..Len(ini.outputs)
    BY <1>1, <2>1 DEF OutOf
  <2>3. o \in ToSet(ini.outputs)
    BY <1>3, <2>2, Members
  <2> QED  BY <1>2, <2>3
<1>5. CASE setup.variants # <<>>
  <2> DEFINE v == setup.variants[k]
  <2>1. v \in Variants /\ ips[k].outputs = OutputsOf(v)
    BY <1>1, <1>5, IpsAre
  <2>2. PICK j \in 1..Len(ini.outputs) : OutputFor(o, ini.outputs[j], v)
    BY <1>1, <2>1, OutputsOfIs DEF OutOf
  <2> DEFINE x == ini.outputs[j]
  <2>3. x \in ToSet(ini.outputs)
    BY <1>3, Members
  <2>4. ToSet(x.configs) \subseteq DOMAIN ini.configs
    BY OutputsAre
  <2>5. o.kind = "json"
    OBVIOUS
  <2> HIDE DEF o, x, v
  <2>6. o.configs = [n \in DOMAIN x.configs |-> <<x.configs[n][1], v>>]
    BY <2>2, <2>5 DEF OutputFor, x
  <2>7. \A n \in DOMAIN x.configs : x.configs[n] = <<x.configs[n][1], None>>
    <3> SUFFICES ASSUME NEW n \in DOMAIN x.configs
                 PROVE  x.configs[n] = <<x.configs[n][1], None>>
      OBVIOUS
    <3>1. x.configs[n] \in ToSet(x.configs)
      BY DEF ToSet
    <3> QED  BY <2>4, <3>1, SetupIs DEF IsIni
  <2>8. IsInjective(x.configs)
    BY <1>2, <2>3
  <2>9. ASSUME NEW a \in DOMAIN o.configs, NEW b \in DOMAIN o.configs,
               o.configs[a] = o.configs[b]
        PROVE  a = b
    <3>1. a \in DOMAIN x.configs /\ b \in DOMAIN x.configs
      BY <2>6
    <3>2. <<x.configs[a][1], v>> = <<x.configs[b][1], v>>
      BY <2>6, <2>9, <3>1
    <3>3. x.configs[a] = x.configs[b]
      BY <2>7, <3>1, <3>2
    <3> QED  BY <2>8, <3>1, <3>3 DEF IsInjective
  <2>10. IsInjective(o.configs)
    BY <2>9 DEF IsInjective
  <2> QED  BY <2>10 DEF o
<1> QED  BY <1>4, <1>5

-----------------------------------------------------------------------------
(* What a parameter of a configuration stands for.                         *)
TargetOf(json, c, s) ==
  LET chosen == json.configurations[c].parameters
  IN  IF s \in DOMAIN chosen /\ chosen[s] \in DOMAIN json.parameters[s].options
      THEN json.parameters[s].options[chosen[s]]
      ELSE json.parameters[s].value

LEMMA ParametersAre ==
  ASSUME NEW ip, NEW o
  PROVE  /\ \A c \in ToSet(o.configs) :
              LET chosen == Json(ip, o).body.configurations[c].parameters
              IN  /\ DOMAIN chosen = {Stem[f] : f \in ip.files} \cap ShortsOf(JsonRows(ip, o))
                  /\ \A s \in DOMAIN chosen : chosen[s] = ip.variant
         /\ DOMAIN Json(ip, o).body.parameters = ShortsOf(JsonRows(ip, o))
         /\ \A s \in ShortsOf(JsonRows(ip, o)) :
              Json(ip, o).body.parameters[s] = Parameter(ip, First(JsonRows(ip, o), s).file)
BY DEF Json, JsonRows

(* A file with a section has a row.                                        *)
LEMMA FilesHaveRows ==
  ASSUME setup \in Setups, Ips(ips), ips = FinalIps, NEW k \in 1..Len(ips), NEW f \in ips[k].files
  PROVE  f \in Files /\ \E r \in ToSet(ips[k].rows) : r.file = f /\ r.file # None
<1>1. CASE setup.variants = <<>>
  <2>1. ips[1] = ini /\ Len(ips) = 1
    BY <1>1, IpsAre
  <2>2. ips[k].files = {}
    BY <2>1, SetupIs DEF IsIni
  <2> QED  BY <2>2
<1>2. CASE setup.variants # <<>>
  <2> DEFINE v == setup.variants[k]
  <2>1. v \in ToSet(setup.variants) /\ ips[k].rows = RowsOf(v) /\ ips[k].files = FilesOf(v)
    BY <1>2, IpsAre
  <2> HIDE DEF v
  <2> QED  BY <2>1, FilesOfIs
<1> QED  BY <1>1, <1>2

(* The parameter of a command stands for the file that its row names.      *)
LEMMA TargetNamed ==
  ASSUME FlashIInv, Finished, Consistent, NEW p \in Pairs(ips), NEW b,
         OutOf(ips, p).kind = "json", Keeps(b, Json(ips[p[1]], OutOf(ips, p)).body),
         NEW c \in ToSet(OutOf(ips, p).configs),
         NEW r \in ToSet(Used(ips[p[1]], ips[p[1]].configs[c].sets)), r.file # None
  PROVE  /\ TargetOf(b, c, Short[r.file]) = Named(ips[p[1]], r.file)
         /\ Named(ips[p[1]], r.file) \in CmdFiles
         /\ r \in ToSet(ips[p[1]].rows) /\ r.file \in Files
<1> DEFINE k == p[1]
           ip == ips[k]
           o == OutOf(ips, p)
           s == Short[r.file]
           rows == JsonRows(ip, o)
           g == First(rows, s)
           m == Json(ip, o).body
           f == r.file
<1>1. /\ setup \in Setups /\ Ips(ips) /\ ips = FinalIps
      /\ ListedFor(listed, ips, Pairs(ips), MadeAll)
  BY AtTheEnd
<1>2. k \in 1..Len(ips) /\ IpShape(ip) /\ OutShape(ip, o) /\ k \in DOMAIN ips
  BY <1>1, PairIs, IpsAre
<1>3. /\ IsSeq(rows) /\ r \in ToSet(rows)
      /\ \A q \in ToSet(rows) : q \in ToSet(ip.rows) /\ q.file # None
  BY <1>2, JsonRowsAre
<1>4. s \in ShortsOf(rows)
  BY <1>3 DEF ShortsOf
<1>5. g \in ToSet(rows) /\ Short[g.file] = s
  BY <1>3, <1>4, FirstIs
<1>6. /\ \A x, y \in RowFiles \cup AlsoFiles : Short[x[2]] = Short[y[2]] => x = y
      /\ \A h \in Files : Short[h] = Stem[h]
  BY ConsistentIs
<1>7. \A q \in ToSet(ip.rows) : q.file # None => <<q.source, q.file>> \in RowFiles
  BY <1>2, RowFileIs
<1>8. ASSUME NEW q \in ToSet(ip.rows), q.file # None, Short[q.file] = s
      PROVE  q.file = f
  <2>1. <<q.source, q.file>> = <<r.source, f>>
    BY <1>3, <1>6, <1>7, <1>8
  <2> QED  BY <2>1
<1>9. g.file = f
  BY <1>3, <1>5, <1>8
<1>10. Named(ip, f) \in CmdFiles
  <2>1. <<g.source, Named(ip, g.file)>> \in ToSet(Json(ip, o).files)
    BY <1>2, <1>4, JsonFiles
  <2>2. \A x \in ToSet(Json(ip, o).files) : x[2] \in CmdFiles
    BY <1>1, MadeListed
  <2> QED  BY <1>9, <2>1, <2>2
<1>11. f \in Files
  BY <1>2, <1>3 DEF IpShape, IsRow
<1>12. /\ DOMAIN m.configurations = ToSet(o.configs)
       /\ DOMAIN m.configurations[c].parameters = {Stem[h] : h \in ip.files} \cap ShortsOf(rows)
       /\ \A u \in DOMAIN m.configurations[c].parameters :
            m.configurations[c].parameters[u] = ip.variant
       /\ DOMAIN m.parameters = ShortsOf(rows)
       /\ m.parameters[s] = Parameter(ip, g.file)
  BY <1>4, ParametersAre, JsonDefault
<1>13. Keeps(b, m) /\ c \in ToSet(o.configs)
  OBVIOUS
<1>14. \A h \in ip.files : h \in Files /\ \E q \in ToSet(ip.rows) : q.file = h /\ q.file # None
  BY <1>1, <1>2, FilesHaveRows
<1>15. <<f, None>> # None
  <2>1. <<f, None>> \in Targets
    BY <1>11 DEF Targets
  <2> QED  BY <2>1, FlashAssumption
<1>16. Named(ip, f) = IF f \in ip.files THEN <<f, ip.variant>> ELSE <<f, None>>
  BY DEF Named, VariantFilename
<1>17. r.file # None /\ r \in ToSet(ip.rows)
  BY <1>3
<1>18. \A h : Parameter(ip, h) =
         IF h \in ip.files
         THEN [value |-> None, options |-> [v \in {ip.variant} |-> <<h, v>>]]
         ELSE [value |-> <<h, None>>, options |-> <<>>]
  BY DEF Parameter, VariantFilename
<1> HIDE DEF ip, o, rows, g, m, f
<1>19. b.configurations[c] = m.configurations[c]
  BY <1>12, <1>13 DEF Keeps
<1>20. Includes(b.parameters[s], Parameter(ip, f))
  BY <1>4, <1>9, <1>12, <1>13 DEF Keeps
<1> DEFINE chosen == b.configurations[c].parameters
<1>21. /\ DOMAIN chosen = {Stem[h] : h \in ip.files} \cap ShortsOf(rows)
       /\ \A u \in DOMAIN chosen : chosen[u] = ip.variant
  BY <1>12, <1>19
<1>22. TargetOf(b, c, s) = IF s \in DOMAIN chosen /\ chosen[s] \in DOMAIN b.parameters[s].options
                           THEN b.parameters[s].options[chosen[s]] ELSE b.parameters[s].value
  BY DEF TargetOf
<1> HIDE DEF chosen
<1>23. s = Short[f]
  BY DEF f
<1> HIDE DEF s
<1>24. CASE f \in ip.files
  <2>1. s \in DOMAIN chosen /\ chosen[s] = ip.variant
    BY <1>4, <1>6, <1>11, <1>21, <1>23, <1>24
  <2> DEFINE q == Parameter(ip, f)
  <2>2. q.options = [v \in {ip.variant} |-> <<f, v>>]
    BY <1>18, <1>24
  <2>3. ip.variant \in DOMAIN q.options /\ q.options[ip.variant] = <<f, ip.variant>>
    BY <2>2
  <2> HIDE DEF q
  <2>4. /\ ip.variant \in DOMAIN b.parameters[s].options
        /\ b.parameters[s].options[ip.variant] = <<f, ip.variant>>
    BY <1>20, <2>3 DEF Includes, q
  <2>5. TargetOf(b, c, s) = Named(ip, f)
    BY <1>16, <1>22, <1>24, <2>1, <2>4
  <2> QED  BY <1>10, <1>11, <1>17, <1>23, <2>5 DEF f, ip, s
<1>25. CASE f \notin ip.files
  <2>1. s \notin DOMAIN chosen
    <3> SUFFICES ASSUME s \in DOMAIN chosen
                 PROVE  FALSE
      OBVIOUS
    <3>1. PICK h \in ip.files : s = Stem[h]
      BY <1>21
    <3>2. PICK q \in ToSet(ip.rows) : q.file = h /\ q.file # None
      BY <1>14, <3>1
    <3>3. Short[q.file] = s
      BY <1>6, <1>14, <3>1, <3>2
    <3>4. q.file = f
      BY <1>8, <3>2, <3>3
    <3> QED  BY <1>25, <3>1, <3>2, <3>4
  <2>2. Parameter(ip, f).value = <<f, None>>
    BY <1>18, <1>25
  <2>3. b.parameters[s].value = <<f, None>>
    BY <1>15, <1>20, <2>2 DEF Includes
  <2>4. TargetOf(b, c, s) = Named(ip, f)
    BY <1>16, <1>22, <1>25, <2>1, <2>3
  <2> QED  BY <1>10, <1>11, <1>17, <1>23, <2>4 DEF f, ip, s
<1> QED  BY <1>24, <1>25

FlashedBy(json, c, mine) ==
  [i \in DOMAIN mine |->
     <<mine[i].row,
       IF mine[i].parameter = None THEN None
       ELSE IF TargetOf(json, c, mine[i].parameter) \in DOMAIN zip
            THEN zip[TargetOf(json, c, mine[i].parameter)] ELSE None>>]

LEMMA FlashedIs ==
  ASSUME NEW json, NEW c
  PROVE  Flashed(json, c) = FlashedBy(json, c, Select(json.commands, For(json.commands, c)))
BY DEF Flashed, FlashedBy, TargetOf, For

(* What a row asks for is what the program takes: of the variant, images   *)
(* and the bootloader of a --fast run excepted.                            *)
LEMMA WantedIs ==
  ASSUME NEW r, NEW v
  PROVE  Wanted(r, v) = Content(r.source, r.file, v)
BY DEF Wanted, Content

(* A command and what it flashes.                                          *)
LEMMA CommandFlashes ==
  ASSUME FlashIInv, Finished, Consistent, NEW p \in Pairs(ips), NEW b,
         OutOf(ips, p).kind = "json", Keeps(b, Json(ips[p[1]], OutOf(ips, p)).body),
         NEW c \in ToSet(OutOf(ips, p).configs),
         NEW r \in ToSet(Used(ips[p[1]], ips[p[1]].configs[c].sets)),
         NEW x, x = Command(c, r)
  PROVE  /\ x.row = r.id
         /\ r.file = None => x.parameter = None
         /\ r.file # None => LET t == TargetOf(b, c, x.parameter)
                             IN  /\ x.parameter # None /\ t \in DOMAIN zip
                                 /\ zip[t] = Content(r.source, r.file, ips[p[1]].variant)
<1>1. x.row = r.id /\ x.parameter = IF r.file = None THEN None ELSE Short[r.file]
  BY DEF Command
<1>2. ASSUME r.file # None
      PROVE  LET t == TargetOf(b, c, x.parameter)
             IN  /\ x.parameter # None /\ t \in DOMAIN zip
                 /\ zip[t] = Content(r.source, r.file, ips[p[1]].variant)
  <2>1. x.parameter = Short[r.file]
    BY <1>1, <1>2
  <2>2. /\ TargetOf(b, c, Short[r.file]) = Named(ips[p[1]], r.file)
        /\ Named(ips[p[1]], r.file) \in CmdFiles
        /\ r \in ToSet(ips[p[1]].rows) /\ r.file \in Files
    BY <1>2, TargetNamed
  <2>3. p[1] \in 1..Len(ips)
    BY AtTheEnd, PairIs
  <2>4. /\ Named(ips[p[1]], r.file) \in DOMAIN zip
        /\ zip[Named(ips[p[1]], r.file)] = Content(r.source, r.file, ips[p[1]].variant)
    BY <1>2, <2>2, <2>3, InZip
  <2>5. Short[r.file] # None
    BY <2>2, FlashAssumption
  <2> QED  BY <2>1, <2>2, <2>4, <2>5
<1> QED  BY <1>1, <1>2

LEMMA JsonFlashes ==
  ASSUME FlashIInv, Finished, Consistent, NEW p \in Pairs(ips), OutOf(ips, p).kind = "json",
         NEW c \in ToSet(OutOf(ips, p).configs)
  PROVE  Flashed(results[Found(OutOf(ips, p).name)].body, c)
           = Meant(ips[p[1]], Used(ips[p[1]], ips[p[1]].configs[c].sets))
<1> DEFINE ip == ips[p[1]]
           o == OutOf(ips, p)
           b == results[Found(o.name)].body
           used == Used(ip, ip.configs[c].sets)
           mine == CommandsFor(ip, c)
<1>1. /\ setup \in Setups /\ Ips(ips) /\ ips = FinalIps /\ FlashTypeOK
      /\ ResultsFor(results, ips, Pairs(ips), MadeAll)
  BY AtTheEnd
<1>2. IpShape(ip) /\ OutShape(ip, o)
  BY <1>1, PairIs
<1>3. IsSeq(b.commands) /\ Keeps(b, Json(ip, o).body)
  BY <1>1, ResultIs
<1>4. IsInjective(o.configs)
  BY <1>1, ConfigsOnce
<1>5. WindowFor(Json(ip, o).body.commands, c, mine)
  BY <1>2, <1>4, JsonMade
<1>6. c \in DOMAIN Json(ip, o).body.configurations
  BY JsonDefault
<1>7. mine = [j \in DOMAIN used |-> Command(c, used[j])]
  BY DEF CommandsFor
<1>8. IsSeq(used)
  <2>1. IsSeq(ip.configs[c].sets) /\ IsSeq(ip.rows)
    BY <1>2 DEF IpShape, OutShape
  <2> QED  BY <2>1, UsedIs
<1>9. \A j \in DOMAIN used : used[j] \in ToSet(used)
  BY DEF ToSet
<1>10. ASSUME NEW j \in DOMAIN used, NEW x, x = Command(c, used[j])
       PROVE  /\ x.row = used[j].id
              /\ used[j].file = None => x.parameter = None
              /\ used[j].file # None => LET t == TargetOf(b, c, x.parameter)
                                        IN  /\ x.parameter # None /\ t \in DOMAIN zip
                                            /\ zip[t] = Content(used[j].source, used[j].file, ip.variant)
  BY <1>3, <1>9, <1>10, CommandFlashes
<1> HIDE DEF mine, used, b, ip, o
<1>11. WindowFor(b.commands, c, mine)
  BY <1>3, <1>5, <1>6 DEF Keeps
<1>12. Select(b.commands, For(b.commands, c)) = mine
  BY <1>3, <1>11, SelectWindow DEF WindowFor
<1>13. Flashed(b, c) = FlashedBy(b, c, mine)
  BY <1>12, FlashedIs
<1>14. DOMAIN mine = DOMAIN used
  BY <1>7
<1>15. ASSUME NEW j \in DOMAIN used
       PROVE  <<mine[j].row,
                IF mine[j].parameter = None THEN None
                ELSE IF TargetOf(b, c, mine[j].parameter) \in DOMAIN zip
                     THEN zip[TargetOf(b, c, mine[j].parameter)] ELSE None>>
              = <<used[j].id, IF used[j].file = None THEN None
                              ELSE Content(used[j].source, used[j].file, ip.variant)>>
  <2>1. mine[j] = Command(c, used[j])
    BY <1>7
  <2> DEFINE x == mine[j]
             t == TargetOf(b, c, x.parameter)
  <2>2. /\ x.row = used[j].id
        /\ used[j].file = None => x.parameter = None
        /\ used[j].file # None => /\ x.parameter # None /\ t \in DOMAIN zip
                                  /\ zip[t] = Content(used[j].source, used[j].file, ip.variant)
    BY <1>10, <2>1
  <2> HIDE DEF t
  <2>3. IF x.parameter = None THEN TRUE ELSE t \in DOMAIN zip
    BY <2>2
  <2> QED  BY <2>2, <2>3 DEF t
<1>16. \A j \in DOMAIN used :
         Wanted(used[j], ip.variant) = Content(used[j].source, used[j].file, ip.variant)
  BY WantedIs
<1>17. FlashedBy(b, c, mine) = Meant(ip, used)
  BY <1>14, <1>15, <1>16 DEF FlashedBy, Meant
<1> QED  BY <1>13, <1>17 DEF b, ip, o, used

LEMMA LinesFlash ==
  ASSUME FlashIInv, Finished, Consistent, NEW p \in Pairs(ips), OutOf(ips, p).kind = "cmd"
  PROVE  LET made == results[Found(OutOf(ips, p).name)].body
         IN  [i \in DOMAIN made |->
                <<made[i].row,
                  IF made[i].target \in DOMAIN zip THEN zip[made[i].target] ELSE None>>]
               = Meant(ips[p[1]], Lines(ips[p[1]], OutOf(ips, p)))
<1> DEFINE ip == ips[p[1]]
           o == OutOf(ips, p)
           made == results[Found(o.name)].body
           lines == Lines(ip, o)
<1>1. /\ setup \in Setups /\ Ips(ips) /\ ips = FinalIps /\ FlashTypeOK
      /\ ResultsFor(results, ips, Pairs(ips), MadeAll)
      /\ ListedFor(listed, ips, Pairs(ips), MadeAll)
  BY AtTheEnd
<1>2. IpShape(ip) /\ OutShape(ip, o) /\ p[1] \in 1..Len(ips)
  BY <1>1, PairIs
<1>3. made = Cmd(ip, o).body
  BY <1>1, ResultIs
<1>4. /\ IsSeq(lines) /\ ToSet(lines) \subseteq ToSet(ip.rows)
      /\ DOMAIN Cmd(ip, o).body = DOMAIN lines
      /\ \A i \in DOMAIN lines : Cmd(ip, o).body[i]
           = [row |-> lines[i].id,
              target |-> IF lines[i].file = None THEN None ELSE Named(ip, lines[i].file)]
  BY <1>2, CmdMade
<1>5. \A r \in ToSet(lines) : r.file # None => Named(ip, r.file) \in CmdFiles
  <2> SUFFICES ASSUME NEW r \in ToSet(lines), r.file # None
               PROVE  Named(ip, r.file) \in CmdFiles
    OBVIOUS
  <2>1. <<r.source, Named(ip, r.file)>> \in ToSet(Cmd(ip, o).files)
    <3>1. ToSet(Cmd(ip, o).files)
            = {<<q.source, Named(ip, q.file)>> : q \in {z \in ToSet(lines) : z.file # None}}
      BY <1>2, CmdMade
    <3> HIDE DEF lines, ip
    <3> QED  BY <3>1
  <2>2. \A x \in ToSet(Cmd(ip, o).files) : x[2] \in CmdFiles
    BY <1>1, MadeListed
  <2> HIDE DEF ip
  <2> QED  BY <2>1, <2>2
<1>6. ASSUME NEW i \in DOMAIN lines, lines[i].file # None
      PROVE  /\ Named(ip, lines[i].file) \in DOMAIN zip
             /\ zip[Named(ip, lines[i].file)] = Content(lines[i].source, lines[i].file, ip.variant)
  <2>1. lines[i] \in ToSet(lines)
    BY DEF ToSet
  <2>2. lines[i] \in ToSet(ip.rows) /\ Named(ip, lines[i].file) \in CmdFiles
    BY <1>4, <1>5, <1>6, <2>1
  <2> QED  BY <1>2, <1>6, <2>2, InZip
<1>7. None \notin DOMAIN zip
  BY <1>1, NoneNotThere
<1> HIDE DEF made, lines, ip, o
<1>8. DOMAIN made = DOMAIN lines
  BY <1>3, <1>4
<1>9. ASSUME NEW i \in DOMAIN lines
      PROVE  <<made[i].row, IF made[i].target \in DOMAIN zip THEN zip[made[i].target] ELSE None>>
             = <<lines[i].id, IF lines[i].file = None THEN None
                              ELSE Content(lines[i].source, lines[i].file, ip.variant)>>
  <2>1. /\ made[i].row = lines[i].id
        /\ made[i].target = IF lines[i].file = None THEN None ELSE Named(ip, lines[i].file)
    <3>1. made[i] = [row |-> lines[i].id,
                     target |-> IF lines[i].file = None THEN None ELSE Named(ip, lines[i].file)]
      BY <1>3, <1>4
    <3> QED  BY <3>1
  <2>2. CASE lines[i].file = None
    BY <1>7, <2>1, <2>2
  <2>3. CASE lines[i].file # None
    BY <1>6, <2>1, <2>3
  <2> QED  BY <2>2, <2>3
<1>10. [i \in DOMAIN made |->
          <<made[i].row, IF made[i].target \in DOMAIN zip THEN zip[made[i].target] ELSE None>>]
         = Meant(ip, lines)
  <2>1. \A i \in DOMAIN lines :
          Wanted(lines[i], ip.variant) = Content(lines[i].source, lines[i].file, ip.variant)
    BY WantedIs
  <2> QED  BY <1>8, <1>9, <2>1 DEF Meant
<1> QED  BY <1>10 DEF made, ip, o, lines

(* Every command of every configuration flashes what its row says.         *)
LEMMA CommandsAtEnd == FlashIInv => CommandsFlashTheirFiles
<1> SUFFICES ASSUME FlashIInv, Finished, Consistent, NEW k \in DOMAIN ips,
                    NEW o \in ToSet(ips[k].outputs)
             PROVE  LET made == results[Found(o.name)].body
                    IN  IF o.kind = "json"
                        THEN \A c \in ToSet(o.configs) :
                               Flashed(made, c) = Meant(ips[k], Used(ips[k], ips[k].configs[c].sets))
                        ELSE LET lines == [i \in DOMAIN made |->
                                             <<made[i].row,
                                               IF made[i].target \in DOMAIN zip THEN zip[made[i].target]
                                               ELSE None>>]
                             IN  lines = Meant(ips[k], Lines(ips[k], o))
  BY DEF CommandsFlashTheirFiles
<1>1. setup \in Setups /\ Ips(ips) /\ ips = FinalIps
  BY AtTheEnd
<1>2. k \in 1..Len(ips) /\ Len(ips) \in Nat /\ IpShape(ips[k])
  BY <1>1, IpsAre
<1>3. PICK j \in 1..Len(ips[k].outputs) : o = ips[k].outputs[j]
  BY <1>2, Members DEF IpShape
<1> DEFINE p == <<k, j>>
<1>4. Len(ips[k].outputs) \in Nat
  BY <1>2, SeqShape DEF IpShape
<1>5. p \in Pairs(ips) /\ OutOf(ips, p) = o /\ p[1] = k
  BY <1>2, <1>3, <1>4 DEF Pairs, OutOf
<1>6. o.kind \in {"json", "cmd"}
  BY <1>2, <1>3 DEF IpShape, OutShape
<1> HIDE DEF p
<1>7. CASE o.kind = "json"
  BY <1>5, <1>7, JsonFlashes
<1>8. CASE o.kind = "cmd"
  <2>1. LET made == results[Found(o.name)].body
        IN  [i \in DOMAIN made |->
               <<made[i].row,
                 IF made[i].target \in DOMAIN zip THEN zip[made[i].target] ELSE None>>]
              = Meant(ips[k], Lines(ips[k], o))
    BY <1>5, <1>8, LinesFlash
  <2> QED  BY <1>8, <2>1
<1> QED  BY <1>6, <1>7, <1>8

(* In every configuration of every variant each command flashes an entry   *)
(* of the zip that holds the file its row names, taken for that variant;   *)
(* a bootloader of a --fast run, however, is the generic one, as Wanted    *)
(* says: for it, only source and name are shown.                           *)
THEOREM CommandsFlash == FlashSpec => []CommandsFlashTheirFiles
BY FlashInvariant, CommandsAtEnd, PTL

-----------------------------------------------------------------------------
(* Quotient and remainder are what makes the number.                       *)
LEMMA QuotientIs ==
  ASSUME NEW n \in Int, NEW a \in Nat \ {0}, NEW q \in Int, NEW r \in Nat, r < a, n = q * a + r
  PROVE  n \div a = q
<1> DEFINE m == n \div a
           z == n % a
           x == q * a
           y == m * a
<1>1. m \in Int /\ z \in Nat /\ z < a /\ n = y + z
  BY Quotient
<1> HIDE DEF m, z
<1>2. (q < m => x + a <= y) /\ (m < q => y + a <= x) /\ x \in Int /\ y \in Int
  BY <1>1, ProductOrder
<1>3. n = x + r
  OBVIOUS
<1> HIDE DEF x, y
<1>4. m = q
  BY <1>1, <1>2, <1>3
<1> QED  BY <1>4 DEF m

(* A remainder of multiples is a multiple.                                 *)
LEMMA RemainderFits ==
  ASSUME NEW s \in Int, NEW p \in Nat \ {0}, NEW b \in Nat \ {0}, p % b = 0, s % b = 0
  PROVE  (s % p) + b <= p
<1> DEFINE q == s \div p
           r == s % p
<1>1. q \in Int /\ r \in Nat /\ r < p /\ s = q * p + r
  BY Quotient
<1>2. PICK i \in Int : s = i * b
  BY Multiples
<1>3. PICK j \in Int : p = j * b
  BY Multiples
<1> HIDE DEF q, r
<1> DEFINE t == i - q * j
           x == t * b
           y == j * b
<1>4. t \in Int
  BY <1>1
<1>5. q * p = (q * j) * b /\ q * j \in Int
  BY <1>1, <1>3
<1>6. x = i * b - (q * j) * b
  BY <1>5
<1>7. x = r
  BY <1>1, <1>2, <1>5, <1>6
<1> HIDE DEF t
<1>8. (j < t => y + b <= x) /\ (t < j => x + b <= y) /\ (t = j => x = y)
  BY <1>4, ProductOrder
<1>9. y = p
  BY <1>3
<1> HIDE DEF x, y
<1>10. t < j \/ t = j \/ j < t
  BY <1>4
<1>11. r + b <= p
  BY <1>1, <1>7, <1>8, <1>9, <1>10
<1> QED  BY <1>11 DEF r

(* As many parts of p bytes as pieces of one byte less.                    *)
LEMMA AsMany ==
  ASSUME NEW s \in Nat, NEW p \in Nat \ {0, 1}, NEW b \in Nat \ {0}, p % b = 0, s % b = 0,
         p < s, s < p * b
  PROVE  /\ (s + p - 2) \div (p - 1) = (s \div p) + 1
         /\ (s \div p) + 1 \in Nat
<1> DEFINE q == s \div p
           r == s % p
           x == q * p
           z == b * p
<1>1. q \in Int /\ r \in Nat /\ r < p /\ s = x + r
  BY Quotient
<1>2. r + b <= p
  <2>1. p \in Nat \ {0} /\ s \in Int
    OBVIOUS
  <2> QED  BY ONLY <2>1, p % b = 0, s % b = 0, b \in Nat \ {0}, RemainderFits
<1> HIDE DEF q, r
<1>3. x \in Int /\ z \in Int /\ z = p * b
  BY <1>1
<1>4. (b < q => z + p <= x) /\ (b = q => z = x)
  BY <1>1, ProductOrder
<1>5. (q < 0 => x + p <= 0) /\ (q = 0 => x = 0)
  <2>1. q < 0 => x + p <= 0 * p
    BY <1>1, ProductOrder
  <2>2. 0 * p = 0
    OBVIOUS
  <2> QED  BY <2>1, <2>2
<1>6. (q + 1) * (p - 1) = x - q + p - 1
  BY <1>1
<1> HIDE DEF x, z
<1>7. q < b
  BY <1>1, <1>3, <1>4
<1>8. 1 <= q
  BY <1>1, <1>3, <1>5
<1> DEFINE n == s + p - 2
           a == p - 1
           k == q + 1
           l == q + r - 1
           w == k * a
<1>9. /\ n \in Int /\ a \in Nat \ {0} /\ k \in Int /\ l \in Nat /\ l < a
  BY <1>1, <1>2, <1>7, <1>8
<1>10. w = x - q + p - 1
  BY <1>6
<1> HIDE DEF w
<1>11. n = w + l
  BY <1>1, <1>3, <1>10
<1>12. n = k * a + l
  BY <1>11 DEF w
<1> HIDE DEF n, a, k, l
<1>13. n \div a = k
  BY <1>9, <1>12, QuotientIs
<1>14. k \in Nat
  BY <1>1, <1>8 DEF k
<1> QED  BY <1>13, <1>14 DEF n, a, k, q

(* A line of an installer.cmd names an entry of the zip.                   *)
LEMMA TargetThere ==
  ASSUME FlashIInv, Finished, Consistent, NEW n \in 1..Len(results), results[n].kind = "cmd",
         NEW line \in ToSet(results[n].body), line.target # None
  PROVE  line.target \in DOMAIN zip
<1>1. /\ setup \in Setups /\ Ips(ips) /\ ips = FinalIps
      /\ ResultsFor(results, ips, Pairs(ips), MadeAll)
      /\ ListedFor(listed, ips, Pairs(ips), MadeAll)
  BY AtTheEnd
<1>2. ResultFor(results[n], ips, Pairs(ips), MadeAll)
  BY <1>1 DEF ResultsFor
<1>3. PICK p \in Pairs(ips) : OutOf(ips, p).kind = "cmd" /\ results[n].body = MadeAll[p].body
  BY <1>2 DEF ResultFor, With
<1> DEFINE ip == ips[p[1]]
           o == OutOf(ips, p)
           lines == Lines(ip, o)
<1>4. results[n].body = Cmd(ip, o).body
  BY <1>1, <1>3, MadeIs
<1>5. IpShape(ip) /\ OutShape(ip, o) /\ p[1] \in 1..Len(ips)
  BY <1>1, <1>3, PairIs
<1>6. /\ ToSet(lines) \subseteq ToSet(ip.rows)
      /\ DOMAIN Cmd(ip, o).body = DOMAIN lines
      /\ \A i \in DOMAIN lines : LET r == lines[i] IN
           Cmd(ip, o).body[i]
             = [row |-> r.id, target |-> IF r.file = None THEN None ELSE Named(ip, r.file)]
      /\ ToSet(Cmd(ip, o).files)
           = {<<r.source, Named(ip, r.file)>> : r \in {q \in ToSet(lines) : q.file # None}}
  BY <1>5, CmdMade
<1>7. \A x \in ToSet(Cmd(ip, o).files) : x[2] \in CmdFiles
  BY <1>1, <1>3, MadeListed
<1> HIDE DEF ip, o, lines
<1>8. PICK i \in DOMAIN lines : line = Cmd(ip, o).body[i]
  BY <1>4, <1>6 DEF ToSet
<1>9. /\ lines[i] \in ToSet(lines)
      /\ line.target = IF lines[i].file = None THEN None ELSE Named(ip, lines[i].file)
  <2>1. line = [row |-> lines[i].id,
                target |-> IF lines[i].file = None THEN None ELSE Named(ip, lines[i].file)]
    BY <1>6, <1>8
  <2>2. lines[i] \in ToSet(lines)
    BY <1>8 DEF ToSet
  <2> QED  BY <2>1, <2>2
<1> DEFINE r == lines[i]
<1>10. r \in ToSet(ip.rows) /\ r.file # None /\ line.target = Named(ip, r.file)
  BY <1>6, <1>9
<1>11. Named(ip, r.file) \in CmdFiles
  <2>1. <<r.source, Named(ip, r.file)>> \in ToSet(Cmd(ip, o).files)
    BY <1>6, <1>9, <1>10
  <2> HIDE DEF r
  <2> QED  BY <1>7, <2>1
<1> HIDE DEF r
<1>12. Named(ip, r.file) \in DOMAIN zip
  BY <1>5, <1>10, <1>11, InZip DEF ip
<1> QED  BY <1>10, <1>12

(* An image is cut into as many parts as pieces, or not at all.            *)
LEMMA PartsArePieces ==
  ASSUME FlashIInv, pc = "iso", Part % Block = 0, NEW t \in DOMAIN zip,
         setup.size[t[1]] # Part, setup.size[t[1]] % Block = 0, setup.size[t[1]] < Part * Block
  PROVE  /\ Big(t[1]) <=> setup.size[t[1]] > Part
         /\ Big(t[1]) => NumberOfParts(t[1]) = Pieces(t)
<1> DEFINE s == setup.size[t[1]]
<1>1. setup \in Setups /\ FlashTypeOK /\ ~setup.fast
  <2>1. Finished
    BY DEF Finished
  <2>2. setup \in Setups /\ FlashTypeOK
    BY <2>1, AtTheEnd
  <2> QED  BY <2>2 DEF FlashIInv, PartsInv
<1>2. t[1] \in Files
  <2>1. DOMAIN zip \subseteq Targets
    BY <1>1 DEF FlashTypeOK
  <2> QED  BY <2>1 DEF Targets
<1>3. s \in Nat
  BY <1>1, <1>2, FlashAssumption DEF IsSetup
<1>4. Part \in Nat \ {0, 1} /\ Block \in Nat \ {0}
  BY FlashAssumption
<1>5. Big(t[1]) <=> s >= Part
  BY <1>1 DEF Big
<1>6. NumberOfParts(t[1]) = (s \div Part) + 1 /\ Pieces(t) = (s + Part - 2) \div (Part - 1)
  BY DEF NumberOfParts, Pieces
<1>7. s # Part /\ s % Block = 0 /\ s < Part * Block
  OBVIOUS
<1> HIDE DEF s
<1>8. Big(t[1]) <=> s > Part
  BY <1>3, <1>4, <1>5, <1>7
<1>9. s > Part => (s + Part - 2) \div (Part - 1) = (s \div Part) + 1
  <2>1. s > Part => Part < s
    BY <1>3, <1>4
  <2> QED  BY <1>3, <1>4, <1>7, <2>1, AsMany
<1> QED  BY <1>6, <1>8, <1>9 DEF s

(* The names on the ISO that begin with one entry of the zip.              *)
LEMMA NamesOf ==
  ASSUME NEW t \in DOMAIN zip
  PROVE  {n \in IsoOf : n[1] = t}
           = IF setup.size[t[1]] > Part THEN {<<t, i>> : i \in 0..(Pieces(t) - 1)} ELSE {<<t>>}
<1> DEFINE cut(u) == setup.size[u[1]] > Part
           names(u) == {<<u, i>> : i \in 0..(Pieces(u) - 1)}
<1>1. \A n : n \in IsoOf <=> \/ \E u \in DOMAIN zip : ~cut(u) /\ n = <<u>>
                             \/ \E u \in DOMAIN zip : cut(u) /\ n \in names(u)
  BY DEF IsoOf
<1>2. \A u : \A n \in names(u) : n[1] = u
  OBVIOUS
<1> HIDE DEF cut, names
<1>3. \A n : n \in IsoOf /\ n[1] = t <=> IF cut(t) THEN n \in names(t) ELSE n = <<t>>
  <2> SUFFICES ASSUME NEW n
               PROVE  n \in IsoOf /\ n[1] = t <=> IF cut(t) THEN n \in names(t) ELSE n = <<t>>
    OBVIOUS
  <2>1. \A u : <<u>>[1] = u
    OBVIOUS
  <2> QED  BY <1>1, <1>2, <2>1
<1>4. {n \in IsoOf : n[1] = t} = IF cut(t) THEN names(t) ELSE {<<t>>}
  BY <1>3
<1> QED  BY <1>4 DEF cut, names

LEMMA InstallerAtEnd == FlashIInv => InstallerFindsFiles
<1> SUFFICES ASSUME FlashIInv, pc = "iso", Consistent,
                    Len(results) = 2, results[2].kind = "cmd", Part % Block = 0,
                    \A f \in Files : /\ setup.size[f] # Part /\ setup.size[f] % Block = 0
                                     /\ setup.size[f] < Part * Block,
                    NEW line \in ToSet(results[2].body), line.target # None
             PROVE  LET t == line.target
                        parts == results[2].parts
                        names == IF t \in DOMAIN parts THEN {<<t, i>> : i \in 0..(parts[t] - 1)}
                                 ELSE {<<t>>}
                    IN  names = {n \in iso : n[1] = t}
  BY DEF InstallerFindsFiles
<1> DEFINE t == line.target
           parts == results[2].parts
<1>1. Finished
  BY DEF Finished
<1>2. t \in DOMAIN zip
  BY <1>1, TargetThere
<1>3. t[1] \in Files
  <2>1. DOMAIN zip \subseteq Targets
    BY DEF FlashIInv, FlashTypeOK
  <2> QED  BY <1>2, <2>1 DEF Targets
<1>4. /\ DOMAIN parts = {u \in DOMAIN zip : Big(u[1])}
      /\ \A u \in DOMAIN parts : parts[u] = NumberOfParts(u[1])
      /\ iso = IsoOf
  <2>1. Len(results) >= 2
    OBVIOUS
  <2> QED  BY <2>1 DEF FlashIInv, PartsInv
<1> HIDE DEF parts, t
<1>5. /\ Big(t[1]) <=> setup.size[t[1]] > Part
      /\ Big(t[1]) => NumberOfParts(t[1]) = Pieces(t)
  BY <1>2, <1>3, PartsArePieces
<1>6. {n \in iso : n[1] = t}
        = IF setup.size[t[1]] > Part THEN {<<t, i>> : i \in 0..(Pieces(t) - 1)} ELSE {<<t>>}
  BY <1>2, <1>4, NamesOf
<1>7. CASE t \in DOMAIN parts
  <2>1. Big(t[1]) /\ parts[t] = Pieces(t)
    BY <1>4, <1>5, <1>7
  <2> QED  BY <1>5, <1>6, <1>7, <2>1 DEF t, parts
<1>8. CASE t \notin DOMAIN parts
  <2>1. ~Big(t[1])
    BY <1>2, <1>4, <1>8
  <2> QED  BY <1>5, <1>6, <1>8, <2>1 DEF t, parts
<1> QED  BY <1>7, <1>8

(* The parts that an installer.cmd names are the pieces on the ISO, and    *)
(* what it names whole is there whole.                                     *)
THEOREM InstallerFinds == FlashSpec => []InstallerFindsFiles
BY FlashInvariant, InstallerAtEnd, PTL
=============================================================================
