-------------------------- MODULE FlashJsonProofs --------------------------
(***************************************************************************)
(* Proofs about FlashJson, for all instructions that FlashJsonAssumption   *)
(* allows, any builds, platforms, subgroups and orders of outputs and of   *)
(* dictionaries.                                                           *)
(*                                                                         *)
(* What is made of an output is told apart by places: the elements a list  *)
(* keeps when it is filtered (Enum, Select...), filtered again, or when it *)
(* is one part of a longer one. Commands that outputs share stay alike     *)
(* (Alike) but for their mark as a list. Names lead from an entry through  *)
(* parameters, list of files and zip to what the instructions name         *)
(* (ShortsMean, ListsAll, EntriesInv).                                     *)
(***************************************************************************)
EXTENDS FlashJson, FlashFilesProofs

-----------------------------------------------------------------------------
(* What is selected, by the places where it was: e counts the places of I  *)
(* in their order.                                                         *)
Enum(e, n, I) ==
  /\ I \subseteq Nat /\ n \in Nat /\ e \in [1..n -> I]
  /\ \A j, k \in 1..n : j < k => e[j] < e[k]
  /\ \A i \in I : \E k \in 1..n : e[k] = i

Agree(e, n, f, m) == \A k \in 1..n : k \in 1..m => e[k] = f[k]

(* What was equal so far is equal at the next place, too.                  *)
LEMMA EnumNext ==
  ASSUME NEW I, NEW e, NEW n, Enum(e, n, I), NEW f, NEW m, Enum(f, m, I),
         NEW k \in 1..n, k \in 1..m, \A j \in 1..(k - 1) : e[j] = f[j]
  PROVE  e[k] <= f[k]
<1>1. n \in Nat /\ m \in Nat /\ f[k] \in I /\ e[k] \in Nat
  BY DEF Enum
<1>2. PICK l \in 1..n : e[l] = f[k]
  BY <1>1 DEF Enum
<1>3. CASE l < k
  <2>1. l \in 1..(k - 1) /\ l \in 1..m
    BY <1>1, <1>2, <1>3
  <2>2. f[l] = f[k] /\ f[l] < f[k] /\ f[k] \in Nat
    BY <1>1, <1>2, <1>3, <2>1 DEF Enum
  <2> QED  BY <2>2
<1>4. CASE l = k
  BY <1>1, <1>2, <1>4
<1>5. CASE k < l
  <2>1. e[k] < e[l] /\ e[l] \in Nat
    BY <1>2, <1>5 DEF Enum
  <2> QED  BY <1>1, <1>2, <2>1
<1> QED  BY <1>1, <1>3, <1>4, <1>5

LEMMA EnumSame ==
  ASSUME NEW I, NEW e, NEW n, Enum(e, n, I), NEW f, NEW m, Enum(f, m, I)
  PROVE  Agree(e, n, f, m)
<1> DEFINE Q == {b \in Nat : \A k \in 1..b : k \in 1..n /\ k \in 1..m => e[k] = f[k]}
<1>1. 0 \in Q
  OBVIOUS
<1>2. ASSUME NEW b \in Nat, b \in Q
      PROVE  b + 1 \in Q
  <2> SUFFICES ASSUME b + 1 \in 1..n, b + 1 \in 1..m
               PROVE  e[b + 1] = f[b + 1]
    <3>1. \A k \in 1..(b + 1) : k \in 1..b \/ k = b + 1
      OBVIOUS
    <3> QED  BY <1>2, <3>1
  <2>1. n \in Nat /\ m \in Nat
    BY DEF Enum
  <2>2. \A j \in 1..((b + 1) - 1) : e[j] = f[j] /\ f[j] = e[j]
    BY <1>2, <2>1
  <2>3. e[b + 1] <= f[b + 1]
    BY <2>2, EnumNext
  <2>4. f[b + 1] <= e[b + 1]
    BY <2>2, EnumNext
  <2>5. e[b + 1] \in Nat /\ f[b + 1] \in Nat
    BY DEF Enum
  <2> QED  BY <2>3, <2>4, <2>5
<1> HIDE DEF Q
<1>3. n \in Nat /\ n \in Q
  BY <1>1, <1>2, SetInduction DEF Enum
<1> QED  BY <1>3 DEF Q, Agree

(* There is one way to count.                                              *)
LEMMA EnumAtMost ==
  ASSUME NEW I, NEW e, NEW n, Enum(e, n, I), NEW f, NEW m, Enum(f, m, I)
  PROVE  ~(n < m)
<1> SUFFICES ASSUME n < m
             PROVE  FALSE
  OBVIOUS
<1>1. n \in Nat /\ m \in Nat
  BY DEF Enum
<1>2. f[m] \in I /\ m \in 1..m
  BY <1>1 DEF Enum
<1>3. PICK k \in 1..n : e[k] = f[m]
  BY <1>2 DEF Enum
<1>4. k \in 1..m /\ k < m
  BY <1>1, <1>3
<1>5. Agree(e, n, f, m)
  BY EnumSame
<1>7. e[k] = f[k]
  BY <1>4, <1>5 DEF Agree
<1>6. f[k] < f[m] /\ f[m] \in Nat
  BY <1>2, <1>4 DEF Enum
<1> QED  BY <1>3, <1>6, <1>7

LEMMA EnumUnique ==
  ASSUME NEW I, NEW e, NEW n, Enum(e, n, I), NEW f, NEW m, Enum(f, m, I)
  PROVE  n = m /\ Agree(e, n, f, m)
<1>1. ~(n < m) /\ ~(m < n)
  BY EnumAtMost
<1>2. n \in Nat /\ m \in Nat
  BY DEF Enum
<1>3. Agree(e, n, f, m)
  BY EnumSame
<1> QED  BY <1>1, <1>2, <1>3

PlacesOf(s, S) == {i \in 1..Len(s) : s[i] \in S}

Picks(e, s, S, r) ==
  /\ IsSeq(r) /\ Enum(e, Len(r), PlacesOf(s, S))
  /\ \A k \in 1..Len(r) : r[k] = s[e[k]]

LEMMA SelectPicks ==
  ASSUME NEW s, NEW S, IsSeq(s)
  PROVE  \E e : Picks(e, s, S, Select(s, S))
<1> DEFINE z == [i \in DOMAIN s |-> IF s[i] \in S THEN <<s[i]>> ELSE <<>>]
           r == FlattenSeq(z)
           I == PlacesOf(s, S)
<1>1. IsSeq(z) /\ Len(z) = Len(s) /\ DOMAIN s = 1..Len(s) /\ Len(s) \in Nat
  BY MadeSeq, SeqShape
<1>2. \A i \in 1..Len(s) : z[i] = IF s[i] \in S THEN <<s[i]>> ELSE <<>>
  BY <1>1
<1>3. Select(s, S) = r
  BY DEF Select
<1> HIDE DEF z
<1>4. ASSUME NEW i \in 1..Len(s)
      PROVE  /\ IsSeq(z[i]) /\ Len(z[i]) = IF s[i] \in S THEN 1 ELSE 0
             /\ s[i] \in S => z[i][1] = s[i]
  <2>1. CASE s[i] \in S
    BY <1>2, <2>1, OneSeq
  <2>2. CASE s[i] \notin S
    BY <1>2, <2>2, NoSeq
  <2> QED  BY <2>1, <2>2
<1>5. PICK pos : Flattened(z, Len(s), r, pos)
  BY <1>1, <1>4, FlattenShape
<1> HIDE DEF r
<1>6. /\ IsSeq(r) /\ pos \in [1..(Len(s) + 1) -> Nat]
      /\ \A i \in 1..Len(s) : \A k \in 1..Len(z[i]) :
           pos[i] + k \in 1..Len(r) /\ r[pos[i] + k] = z[i][k]
      /\ \A p \in 1..Len(r) : \E i \in 1..Len(s) : \E k \in 1..Len(z[i]) : p = pos[i] + k
  BY <1>5 DEF Flattened
<1>7. /\ Len(r) \in Nat
      /\ \A i \in 1..Len(s) : pos[i] \in Nat
  BY <1>1, <1>6, SeqShape
<1>8. ASSUME NEW p \in 1..Len(r)
      PROVE  \E i \in I : pos[i] + 1 = p
  <2>1. PICK i \in 1..Len(s) : \E k \in 1..Len(z[i]) : p = pos[i] + k
    BY <1>6
  <2>2. PICK k \in 1..Len(z[i]) : p = pos[i] + k
    BY <2>1
  <2>3. s[i] \in S /\ k = 1
    BY <1>4, <2>2
  <2> QED  BY <2>2, <2>3 DEF PlacesOf
<1> DEFINE e == [p \in 1..Len(r) |-> CHOOSE i \in I : pos[i] + 1 = p]
<1>9. e \in [1..Len(r) -> I] /\ \A p \in 1..Len(r) : pos[e[p]] + 1 = p
  BY <1>8
<1> HIDE DEF e, I
<1>10. \A i \in I : i \in 1..Len(s) /\ s[i] \in S /\ Len(z[i]) = 1 /\ z[i][1] = s[i]
  BY <1>4 DEF I, PlacesOf
<1>11. \A i \in I : pos[i] + 1 \in 1..Len(r) /\ r[pos[i] + 1] = s[i]
  <2> TAKE i \in I
  <2>1. i \in 1..Len(s) /\ 1 \in 1..Len(z[i])
    BY <1>10
  <2> QED  BY <1>6, <1>10, <2>1
<1>12. ASSUME NEW i \in I, NEW j \in I, i < j
       PROVE  pos[i] + 1 <= pos[j]
  <2>1. i \in 1..Len(s) /\ j \in 1..Len(s)
    BY <1>10
  <2>2. pos[i] + Len(z[i]) <= pos[j]
    BY <1>1, <1>4, <1>5, <1>12, <2>1, FlattenBefore
  <2> QED  BY <1>10, <2>2
<1>13. \A p \in 1..Len(r) : r[p] = s[e[p]]
  BY <1>9, <1>11
<1>14. ASSUME NEW p \in 1..Len(r), NEW q \in 1..Len(r), p < q
       PROVE  e[p] < e[q]
  <2>1. e[p] \in I /\ e[q] \in I /\ pos[e[p]] + 1 = p /\ pos[e[q]] + 1 = q
    BY <1>9
  <2>2. e[p] \in 1..Len(s) /\ e[q] \in 1..Len(s)
    BY <1>10, <2>1
  <2>3. pos[e[p]] \in Nat /\ pos[e[q]] \in Nat
    BY <1>7, <2>2
  <2>4. CASE e[p] = e[q]
    BY <1>14, <2>1, <2>4
  <2>5. CASE e[q] < e[p]
    <3>1. pos[e[q]] + 1 <= pos[e[p]]
      BY <1>12, <2>1, <2>5
    <3> QED  BY <1>14, <2>1, <2>3, <3>1
  <2> QED  BY <1>1, <2>2, <2>4, <2>5
<1>15. ASSUME NEW i \in I
       PROVE  \E k \in 1..Len(r) : e[k] = i
  <2> DEFINE k == pos[i] + 1
  <2>1. k \in 1..Len(r) /\ e[k] \in I /\ pos[e[k]] + 1 = pos[i] + 1
    BY <1>9, <1>11
  <2>2. i \in 1..Len(s) /\ e[k] \in 1..Len(s)
    BY <1>10, <2>1
  <2>3. pos[i] \in Nat /\ pos[e[k]] \in Nat
    BY <1>7, <2>2
  <2> HIDE DEF k
  <2>4. CASE e[k] < i
    BY <1>12, <2>1, <2>3, <2>4
  <2>5. CASE i < e[k]
    BY <1>12, <2>1, <2>3, <2>5
  <2> QED  BY <1>1, <2>1, <2>2, <2>4, <2>5
<1>17. I \subseteq Nat
  BY <1>1, <1>10
<1>16. Enum(e, Len(r), I)
  BY <1>7, <1>9, <1>14, <1>15, <1>17 DEF Enum
<1> QED  BY <1>3, <1>6, <1>13, <1>16 DEF Picks, I

(* Selected in the same places.                                            *)
LEMMA SelectAlike ==
  ASSUME NEW s, NEW t, NEW S, NEW T, IsSeq(s), IsSeq(t), Len(s) = Len(t),
         \A i \in 1..Len(s) : s[i] \in S <=> t[i] \in T
  PROVE  LET p == Select(s, S)
             q == Select(t, T)
         IN  /\ IsSeq(p) /\ IsSeq(q) /\ Len(p) = Len(q)
             /\ \A k \in 1..Len(p) : \E i \in 1..Len(s) : p[k] = s[i] /\ q[k] = t[i] /\ s[i] \in S
<1> DEFINE p == Select(s, S)
           q == Select(t, T)
           I == PlacesOf(s, S)
<1>1. PICK e : Picks(e, s, S, p)
  BY SelectPicks
<1>2. PICK f : Picks(f, t, T, q)
  BY SelectPicks
<1>3. PlacesOf(t, T) = I
  BY DEF PlacesOf
<1>4. I \subseteq 1..Len(s) /\ \A i \in I : s[i] \in S
  BY DEF PlacesOf
<1> HIDE DEF p, q, I
<1>6. IsSeq(p) /\ IsSeq(q) /\ Enum(e, Len(p), I) /\ Enum(f, Len(q), I)
  BY <1>1, <1>2, <1>3 DEF Picks, I
<1>10. Len(p) = Len(q) /\ Agree(e, Len(p), f, Len(q))
  BY <1>6, EnumUnique
<1>7. Len(p) = Len(q) /\ \A k \in 1..Len(p) : e[k] = f[k]
  BY <1>10 DEF Agree
<1>8. \A k \in 1..Len(p) : e[k] \in I
  BY <1>6 DEF Enum
<1>9. \A k \in 1..Len(p) : p[k] = s[e[k]] /\ q[k] = t[e[k]]
  BY <1>1, <1>2, <1>7 DEF Picks
<1> QED  BY <1>4, <1>6, <1>7, <1>8, <1>9 DEF p, q

LEMMA SelectSame ==
  ASSUME NEW s, NEW S, NEW T, IsSeq(s), \A x \in ToSet(s) : x \in S <=> x \in T
  PROVE  Select(s, S) = Select(s, T)
<1> DEFINE p == Select(s, S)
           q == Select(s, T)
<1>1. \A i \in 1..Len(s) : s[i] \in S <=> s[i] \in T
  BY Members
<1>2. /\ IsSeq(p) /\ IsSeq(q) /\ Len(p) = Len(q)
      /\ \A k \in 1..Len(p) : \E i \in 1..Len(s) : p[k] = s[i] /\ q[k] = s[i]
  BY <1>1, SelectAlike
<1> HIDE DEF p, q
<1>3. p = q
  BY <1>2, SeqSame
<1> QED  BY <1>3 DEF p, q

(* Selected of what was selected.                                          *)
LEMMA SelectTwice ==
  ASSUME NEW s, NEW A, NEW B, IsSeq(s)
  PROVE  Select(Select(s, A), B) = Select(s, A \cap B)
<1> DEFINE t == Select(s, A)
           p == Select(t, B)
           q == Select(s, A \cap B)
           I == PlacesOf(s, A \cap B)
<1>1. PICK e : Picks(e, s, A, t)
  BY SelectPicks
<1>2. IsSeq(t)
  BY <1>1 DEF Picks
<1>3. PICK f : Picks(f, t, B, p)
  BY <1>2, SelectPicks
<1>4. PICK g : Picks(g, s, A \cap B, q)
  BY SelectPicks
<1>5. /\ I \subseteq 1..Len(s) /\ Len(s) \in Nat
      /\ \A i \in 1..Len(s) : i \in I <=> i \in PlacesOf(s, A) /\ s[i] \in B
      /\ PlacesOf(s, A) \subseteq 1..Len(s)
  BY SeqShape DEF PlacesOf
<1> HIDE DEF t, p, q, I
<1>6. /\ Enum(e, Len(t), PlacesOf(s, A)) /\ \A k \in 1..Len(t) : t[k] = s[e[k]]
      /\ IsSeq(p) /\ Enum(f, Len(p), PlacesOf(t, B)) /\ \A k \in 1..Len(p) : p[k] = t[f[k]]
      /\ IsSeq(q) /\ Enum(g, Len(q), I) /\ \A k \in 1..Len(q) : q[k] = s[g[k]]
  BY <1>1, <1>3, <1>4 DEF Picks, I
<1>7. \A k \in 1..Len(p) : f[k] \in 1..Len(t) /\ t[f[k]] \in B
  BY <1>6 DEF Enum, PlacesOf
<1>8. \A k \in 1..Len(t) : e[k] \in PlacesOf(s, A)
  BY <1>6 DEF Enum
<1> DEFINE h == [k \in 1..Len(p) |-> e[f[k]]]
<1>9. \A k \in 1..Len(p) : h[k] = e[f[k]] /\ h[k] \in I /\ p[k] = s[h[k]]
  <2> TAKE k \in 1..Len(p)
  <2>1. f[k] \in 1..Len(t) /\ t[f[k]] \in B /\ t[f[k]] = s[e[f[k]]] /\ p[k] = t[f[k]]
    BY <1>6, <1>7
  <2>2. e[f[k]] \in PlacesOf(s, A)
    BY <1>8, <2>1
  <2> QED  BY <1>5, <2>1, <2>2
<1>10. h \in [1..Len(p) -> I]
  BY <1>9
<1> HIDE DEF h
<1>11. \A j, k \in 1..Len(p) : j < k => h[j] < h[k]
  <2> SUFFICES ASSUME NEW j \in 1..Len(p), NEW k \in 1..Len(p), j < k
               PROVE  h[j] < h[k]
    OBVIOUS
  <2>1. f[j] < f[k] /\ f[j] \in 1..Len(t) /\ f[k] \in 1..Len(t)
    BY <1>6, <1>7 DEF Enum
  <2>2. e[f[j]] < e[f[k]]
    BY <1>6, <2>1 DEF Enum
  <2> QED  BY <1>9, <2>2
<1>12. \A i \in I : \E k \in 1..Len(p) : h[k] = i
  <2> TAKE i \in I
  <2>1. i \in PlacesOf(s, A) /\ s[i] \in B
    BY <1>5
  <2>2. PICK m \in 1..Len(t) : e[m] = i
    BY <1>6, <2>1 DEF Enum
  <2>3. m \in PlacesOf(t, B)
    BY <1>6, <2>1, <2>2 DEF PlacesOf
  <2>4. PICK k \in 1..Len(p) : f[k] = m
    BY <1>6, <2>3 DEF Enum
  <2> QED  BY <1>9, <2>2, <2>4
<1>13. Len(p) \in Nat
  BY <1>6 DEF Enum
<1>15. I \subseteq Nat
  BY <1>5
<1>14. Enum(h, Len(p), I)
  BY <1>10, <1>11, <1>12, <1>13, <1>15 DEF Enum
<1>19. Enum(g, Len(q), I)
  BY <1>6
<1>20. Len(p) = Len(q) /\ Agree(h, Len(p), g, Len(q))
  BY <1>14, <1>19, EnumUnique
<1>16. Len(p) = Len(q) /\ \A k \in 1..Len(p) : h[k] = g[k]
  BY <1>20 DEF Agree
<1>17. \A k \in 1..Len(p) : p[k] = q[k]
  BY <1>6, <1>9, <1>16
<1>18. p = q
  BY <1>6, <1>16, <1>17, SeqSame
<1> QED  BY <1>18 DEF p, q, t

(* Selected of the one part that has some of it.                           *)
LEMMA SelectOnePart ==
  ASSUME NEW s, IsSeq(s), \A i \in 1..Len(s) : IsSeq(s[i]), NEW S, NEW j \in 1..Len(s),
         \A i \in 1..Len(s) : i # j => \A k \in 1..Len(s[i]) : s[i][k] \notin S
  PROVE  Select(FlattenSeq(s), S) = Select(s[j], S)
<1> DEFINE r == FlattenSeq(s)
           p == Select(r, S)
           q == Select(s[j], S)
           I == PlacesOf(r, S)
<1>1. PICK pos : Flattened(s, Len(s), r, pos)
  BY FlattenShape
<1>2. IsSeq(r)
  BY <1>1 DEF Flattened
<1>3. PICK e : Picks(e, r, S, p)
  BY <1>2, SelectPicks
<1>4. PICK f : Picks(f, s[j], S, q)
  BY SelectPicks
<1> HIDE DEF r, p, q
<1>5. /\ pos \in [1..(Len(s) + 1) -> Nat]
      /\ \A i \in 1..Len(s) : \A k \in 1..Len(s[i]) :
           pos[i] + k \in 1..Len(r) /\ r[pos[i] + k] = s[i][k]
      /\ \A m \in 1..Len(r) : \E i \in 1..Len(s) : \E k \in 1..Len(s[i]) : m = pos[i] + k
  BY <1>1 DEF Flattened
<1>6. Len(s) \in Nat /\ Len(r) \in Nat /\ Len(s[j]) \in Nat /\ j \in 1..(Len(s) + 1)
  BY <1>2, SeqShape
<1>7. pos[j] \in Nat
  BY <1>5, <1>6
<1>8. ASSUME NEW i \in I
      PROVE  \E k \in PlacesOf(s[j], S) : i = pos[j] + k
  <2>1. i \in 1..Len(r) /\ r[i] \in S
    BY DEF PlacesOf
  <2>2. PICK l \in 1..Len(s) : \E k \in 1..Len(s[l]) : i = pos[l] + k
    BY <1>5, <2>1
  <2>3. PICK k \in 1..Len(s[l]) : i = pos[l] + k
    BY <2>2
  <2>4. s[l][k] \in S
    BY <1>5, <2>1, <2>3
  <2>5. l = j
    BY <2>4
  <2> QED  BY <2>3, <2>4, <2>5 DEF PlacesOf
<1>9. \A k \in PlacesOf(s[j], S) : /\ k \in 1..Len(s[j]) /\ pos[j] + k \in I
                                   /\ r[pos[j] + k] = s[j][k]
  BY <1>5 DEF PlacesOf
<1>10. I \subseteq Nat
  BY <1>6 DEF PlacesOf
<1> HIDE DEF I
<1>11. /\ IsSeq(p) /\ Enum(e, Len(p), I) /\ \A k \in 1..Len(p) : p[k] = r[e[k]]
       /\ IsSeq(q) /\ Enum(f, Len(q), PlacesOf(s[j], S)) /\ \A k \in 1..Len(q) : q[k] = s[j][f[k]]
  BY <1>3, <1>4 DEF Picks, I
<1> DEFINE h == [k \in 1..Len(q) |-> pos[j] + f[k]]
<1>12. \A k \in 1..Len(q) : /\ f[k] \in PlacesOf(s[j], S) /\ f[k] \in Nat /\ h[k] = pos[j] + f[k]
                            /\ h[k] \in I /\ r[h[k]] = q[k]
  <2> TAKE k \in 1..Len(q)
  <2>1. f[k] \in PlacesOf(s[j], S)
    BY <1>11 DEF Enum
  <2>2. f[k] \in 1..Len(s[j]) /\ pos[j] + f[k] \in I /\ r[pos[j] + f[k]] = s[j][f[k]]
    BY <1>9, <2>1
  <2> QED  BY <1>6, <1>11, <2>1, <2>2
<1>13. h \in [1..Len(q) -> I]
  BY <1>12
<1> HIDE DEF h
<1>14. \A k, l \in 1..Len(q) : k < l => h[k] < h[l]
  <2> SUFFICES ASSUME NEW k \in 1..Len(q), NEW l \in 1..Len(q), k < l
               PROVE  h[k] < h[l]
    OBVIOUS
  <2>1. f[k] < f[l]
    BY <1>11 DEF Enum
  <2>2. f[k] \in Nat /\ f[l] \in Nat /\ h[k] = pos[j] + f[k] /\ h[l] = pos[j] + f[l]
    BY <1>12
  <2> QED  BY <1>7, <2>1, <2>2
<1>15. \A i \in I : \E k \in 1..Len(q) : h[k] = i
  <2> TAKE i \in I
  <2>1. PICK m \in PlacesOf(s[j], S) : i = pos[j] + m
    BY <1>8
  <2>2. PICK k \in 1..Len(q) : f[k] = m
    BY <1>11, <2>1 DEF Enum
  <2> QED  BY <1>12, <2>1, <2>2
<1>16. Len(q) \in Nat
  BY <1>11 DEF Enum
<1>17. Enum(h, Len(q), I)
  BY <1>10, <1>13, <1>14, <1>15, <1>16 DEF Enum
<1>21. Enum(e, Len(p), I)
  BY <1>11
<1>22. Len(q) = Len(p) /\ Agree(h, Len(q), e, Len(p))
  BY <1>17, <1>21, EnumUnique
<1>18. Len(q) = Len(p) /\ \A k \in 1..Len(q) : h[k] = e[k]
  BY <1>22 DEF Agree
<1>19. \A k \in 1..Len(p) : p[k] = q[k]
  BY <1>11, <1>12, <1>18
<1>20. p = q
  BY <1>11, <1>18, <1>19, SeqSame
<1> QED  BY <1>20 DEF p, q, r

(* What is flattened keeps its places when elements are replaced.          *)
SameParts(s, t) ==
  /\ IsSeq(s) /\ IsSeq(t) /\ Len(s) = Len(t)
  /\ \A i \in 1..Len(s) : IsSeq(s[i]) /\ IsSeq(t[i]) /\ Len(s[i]) = Len(t[i])

SamePlaces(p, q, s, t) ==
  /\ IsSeq(p) /\ IsSeq(q) /\ Len(p) = Len(q)
  /\ \A k \in 1..Len(p) : \E i \in 1..Len(s) : \E j \in 1..Len(s[i]) :
       p[k] = s[i][j] /\ q[k] = t[i][j]

LEMMA FlattenAlike ==
  ASSUME NEW s, NEW t, SameParts(s, t)
  PROVE  SamePlaces(FlattenSeq(s), FlattenSeq(t), s, t)
<1> DEFINE n == Len(s)
           p == FlattenSeq(s)
           q == FlattenSeq(t)
<1>0. /\ IsSeq(s) /\ IsSeq(t) /\ Len(s) = Len(t)
      /\ \A i \in 1..Len(s) : IsSeq(s[i]) /\ IsSeq(t[i]) /\ Len(s[i]) = Len(t[i])
  BY DEF SameParts
<1>1. PICK e : Flattened(s, n, p, e)
  BY <1>0, FlattenShape
<1>2. PICK f : Flattened(t, n, q, f)
  <2>1. \A i \in 1..Len(t) : IsSeq(t[i])
    BY <1>0
  <2> QED  BY <1>0, <2>1, FlattenShape
<1>3. n \in Nat /\ \A i \in 1..n : Len(s[i]) \in Nat
  BY <1>0, SeqShape
<1> HIDE DEF p, q, n
<1>4. /\ IsSeq(p) /\ e \in [1..(n + 1) -> Nat] /\ e[1] = 0 /\ e[n + 1] = Len(p)
      /\ \A i \in 1..n : e[i + 1] = e[i] + Len(s[i])
      /\ \A i \in 1..n : \A k \in 1..Len(s[i]) :
           e[i] + k \in 1..Len(p) /\ p[e[i] + k] = s[i][k]
      /\ \A m \in 1..Len(p) : \E i \in 1..n : \E k \in 1..Len(s[i]) : m = e[i] + k
  BY <1>1 DEF Flattened
<1>5. /\ IsSeq(q) /\ f \in [1..(n + 1) -> Nat] /\ f[1] = 0 /\ f[n + 1] = Len(q)
      /\ \A i \in 1..n : f[i + 1] = f[i] + Len(t[i])
      /\ \A i \in 1..n : \A k \in 1..Len(t[i]) :
           f[i] + k \in 1..Len(q) /\ q[f[i] + k] = t[i][k]
  BY <1>2 DEF Flattened
<1> DEFINE Q == {b \in Nat : b \in 0..n => e[b + 1] = f[b + 1]}
<1>6. 0 \in Q
  BY <1>4, <1>5
<1>7. ASSUME NEW b \in Nat, b \in Q
      PROVE  b + 1 \in Q
  <2> SUFFICES ASSUME b + 1 \in 0..n
               PROVE  e[(b + 1) + 1] = f[(b + 1) + 1]
    OBVIOUS
  <2>1. b \in 0..n /\ b + 1 \in 1..n
    BY <1>3
  <2>2. e[b + 1] = f[b + 1]
    BY <1>7, <2>1
  <2>3. Len(s[b + 1]) = Len(t[b + 1])
    BY <1>0, <2>1 DEF n
  <2> QED  BY <1>4, <1>5, <2>1, <2>2, <2>3
<1>8. \A b \in Nat : b \in Q
  <2> HIDE DEF Q
  <2> QED  BY <1>6, <1>7, SetInduction
<1>9. \A i \in 1..(n + 1) : e[i] = f[i]
  <2> TAKE i \in 1..(n + 1)
  <2>1. i - 1 \in Nat /\ i - 1 \in 0..n /\ (i - 1) + 1 = i
    BY <1>3
  <2>2. i - 1 \in Q
    BY <1>8, <2>1
  <2> QED  BY <2>1, <2>2
<1> HIDE DEF Q
<1>10. Len(p) = Len(q)
  BY <1>3, <1>4, <1>5, <1>9
<1>11. ASSUME NEW k \in 1..Len(p)
       PROVE  \E i \in 1..n : \E j \in 1..Len(s[i]) : p[k] = s[i][j] /\ q[k] = t[i][j]
  <2>1. PICK i \in 1..n : \E j \in 1..Len(s[i]) : k = e[i] + j
    BY <1>4
  <2>2. PICK j \in 1..Len(s[i]) : k = e[i] + j
    BY <2>1
  <2>3. p[k] = s[i][j]
    BY <1>4, <2>2
  <2>4. Len(s[i]) = Len(t[i]) /\ e[i] = f[i]
    BY <1>0, <1>3, <1>9 DEF n
  <2>5. q[k] = t[i][j]
    BY <1>5, <2>2, <2>4
  <2> QED  BY <2>3, <2>5
<1>12. SamePlaces(p, q, s, t)
  BY <1>4, <1>5, <1>10, <1>11 DEF SamePlaces, n
<1> QED  BY <1>12 DEF p, q

(* A set as a sequence has each element once.                              *)
LEMMA SetToSeqOnce ==
  ASSUME NEW S, IsFiniteSet(S)
  PROVE  \A i, j \in 1..Len(SetToSeq(S)) : SetToSeq(S)[i] = SetToSeq(S)[j] => i = j
<1> DEFINE n == Cardinality(S)
           f == SetToSeq(S)
<1>1. n \in Nat /\ ExistsBijection(1..n, S)
  BY FS_CardinalityType
<1>2. \E g : g \in [1..n -> S] /\ IsInjective(g)
  BY <1>1 DEF ExistsBijection, Bijection, Injection
<1>3. f \in [1..n -> S] /\ IsInjective(f)
  BY <1>2 DEF SetToSeq
<1> HIDE DEF f
<1>4. IsSeq(f)
  BY SetToSeqMembers DEF f
<1>5. DOMAIN f = 1..Len(f)
  BY <1>4, SeqShape
<1> QED  BY <1>3, <1>5 DEF IsInjective, f

-----------------------------------------------------------------------------
(* Files that are added.                                                   *)

LEMMA AddedIs ==
  ASSUME NEW s, IsSeq(s)
  PROVE  /\ IsSeq(Added(s)) /\ ToSet(Added(s)) \subseteq ToSet(s)
         /\ \A y \in ToSet(s) : \E x \in ToSet(Added(s)) : x[2] = y[2]
<1> DEFINE z == [i \in DOMAIN s |->
                   IF \E j \in 1..(i - 1) : s[j][2] = s[i][2] THEN <<>> ELSE <<s[i]>>]
<1>1. IsSeq(z) /\ Len(z) = Len(s) /\ DOMAIN s = 1..Len(s) /\ Len(s) \in Nat
  BY MadeSeq, SeqShape
<1>2. \A i \in 1..Len(s) :
        z[i] = IF \E j \in 1..(i - 1) : s[j][2] = s[i][2] THEN <<>> ELSE <<s[i]>>
  BY <1>1
<1>3. Added(s) = FlattenSeq(z)
  BY DEF Added
<1> HIDE DEF z
<1>4. \A i \in 1..Len(z) : IsSeq(z[i])
  <2> SUFFICES ASSUME NEW i \in 1..Len(s)
               PROVE  IsSeq(z[i])
    BY <1>1
  <2>1. z[i] = <<>> \/ z[i] = <<s[i]>>
    BY <1>2
  <2> QED  BY <2>1, OneSeq, NoSeq
<1>5. /\ IsSeq(FlattenSeq(z))
      /\ \A x : x \in ToSet(FlattenSeq(z)) <=> \E i \in 1..Len(z) : x \in ToSet(z[i])
  BY <1>1, <1>4, FlattenMembers
<1>6. \A i \in 1..Len(s) :
        ToSet(z[i]) = IF \E j \in 1..(i - 1) : s[j][2] = s[i][2] THEN {} ELSE {s[i]}
  BY <1>2, OneSeq, NoSeq
<1>7. ASSUME NEW y \in ToSet(s)
      PROVE  \E x \in ToSet(FlattenSeq(z)) : x[2] = y[2]
  <2> DEFINE P == {k \in 1..Len(s) : s[k][2] = y[2]}
  <2>1. P # {} /\ P \subseteq Nat
    BY <1>1, Members
  <2>2. PICK k \in P : \A m \in P : k <= m
    BY <2>1, LeastNumber
  <2>3. k \in 1..Len(s) /\ s[k][2] = y[2]
    OBVIOUS
  <2>4. ~ \E j \in 1..(k - 1) : s[j][2] = s[k][2]
    BY <1>1, <2>2, <2>3
  <2>5. ToSet(z[k]) = {s[k]}
    BY <1>6, <2>3, <2>4
  <2> QED  BY <1>1, <1>5, <2>3, <2>5
<1>8. ASSUME NEW x \in ToSet(FlattenSeq(z))
      PROVE  x \in ToSet(s)
  <2>1. PICK i \in 1..Len(s) : x \in ToSet(z[i])
    BY <1>1, <1>5
  <2>2. x = s[i]
    BY <1>6, <2>1
  <2> QED  BY <2>2, Members
<1> QED  BY <1>3, <1>5, <1>7, <1>8

(* The last of those that have a short name.                               *)
LastOf(s, n) == SelectLastInSeq(s, LAMBDA x : Short[x[2]] = n)

LEMMA LastOfIs ==
  ASSUME NEW s, IsSeq(s), NEW n, \E x \in ToSet(s) : Short[x[2]] = n
  PROVE  LastOf(s, n) \in 1..Len(s) /\ Short[s[LastOf(s, n)][2]] = n
<1> DEFINE I == {i \in 1..Len(s) : Short[s[i][2]] = n}
           J == {d \in Nat : \E i \in I : d = Len(s) - i}
<1>1. Len(s) \in Nat
  BY SeqShape
<1>2. I # {} /\ I \subseteq 1..Len(s)
  BY Members
<1>8. LastOf(s, n) = Max(I)
  BY <1>2 DEF LastOf, SelectLastInSeq
<1>9. \A i \in I : Short[s[i][2]] = n
  OBVIOUS
<1> HIDE DEF I
<1>3. J \subseteq Nat /\ J # {}
  <2>1. PICK i \in I : i \in 1..Len(s)
    BY <1>2
  <2>2. Len(s) - i \in J
    BY <1>1, <2>1
  <2> QED  BY <2>2
<1>4. PICK d \in J : \A m \in J : d <= m
  BY <1>3, LeastNumber
<1>5. PICK i \in I : d = Len(s) - i
  BY <1>4
<1>6. \A j \in I : j <= i
  <2> TAKE j \in I
  <2>1. j \in Int /\ i \in Int /\ j \in 1..Len(s)
    BY <1>2
  <2>2. Len(s) - j \in J
    BY <1>1, <2>1
  <2> HIDE DEF J
  <2>3. d <= Len(s) - j
    BY <1>4, <2>2
  <2> QED  BY <1>1, <1>5, <2>1, <2>3
<1> HIDE DEF J
<1>10. I \subseteq Nat
  BY <1>1, <1>2
<1>7. Max(I) = i
  BY <1>5, <1>6, <1>10, MaxOf
<1> QED  BY <1>2, <1>5, <1>7, <1>8, <1>9

(* Each short name of a file that was to be added stands for one of them.  *)
ShortsMean(parameters, S) ==
  \A y \in S : /\ Short[y[2]] \in DOMAIN parameters
               /\ \E x \in S : Short[x[2]] = Short[y[2]] /\ parameters[Short[y[2]]] = x[2]

(* Each file is in the list, under its own name.                           *)
ListsAll(list, S) ==
  /\ IsSeq(list)
  /\ \A f \in ToSet(list) : \E x \in S : f = <<x[1], <<x[2], None>>>>
  /\ \A y \in S : \E f \in ToSet(list) : f[2] = <<y[2], None>>

LEMMA SourcedMeans ==
  ASSUME NEW s, IsSeq(s)
  PROVE  ShortsMean(Parameters(s), ToSet(s)) /\ ListsAll(FileList(s), ToSet(s))
<1> DEFINE new == Added(s)
           par == Parameters(s)
           list == FileList(s)
<1>1. /\ IsSeq(new) /\ ToSet(new) \subseteq ToSet(s)
      /\ \A y \in ToSet(s) : \E x \in ToSet(new) : x[2] = y[2]
  BY AddedIs
<1>2. /\ DOMAIN par = {Short[x[2]] : x \in ToSet(new)}
      /\ \A n \in DOMAIN par : par[n] = new[LastOf(new, n)][2]
  BY DEF Parameters, LastOf
<1>3. list = [i \in DOMAIN new |-> <<new[i][1], <<new[i][2], None>>>>]
  BY DEF FileList
<1>4. /\ DOMAIN list = DOMAIN new
      /\ list = [i \in DOMAIN new |-> list[i]]
      /\ \A i \in DOMAIN new : list[i] = <<new[i][1], <<new[i][2], None>>>>
  BY <1>3
<1> HIDE DEF new, par, list
<1>5. ASSUME NEW y \in ToSet(s)
      PROVE  /\ Short[y[2]] \in DOMAIN par
             /\ \E x \in ToSet(s) : Short[x[2]] = Short[y[2]] /\ par[Short[y[2]]] = x[2]
  <2> DEFINE n == Short[y[2]]
             k == LastOf(new, n)
  <2>1. PICK x \in ToSet(new) : x[2] = y[2]
    BY <1>1
  <2>2. n \in DOMAIN par
    BY <1>2, <2>1
  <2> HIDE DEF n
  <2>3. Short[x[2]] = n
    BY <2>1 DEF n
  <2>4. k \in 1..Len(new) /\ Short[new[k][2]] = n
    BY <1>1, <2>3, LastOfIs
  <2>5. par[n] = new[k][2]
    BY <1>2, <2>2
  <2> HIDE DEF k
  <2>6. new[k] \in ToSet(s)
    BY <1>1, <2>4, Members
  <2> QED  BY <2>2, <2>4, <2>5, <2>6 DEF n
<1>6. IsSeq(list) /\ Len(list) = Len(new) /\ DOMAIN new = 1..Len(new)
  BY <1>1, <1>4, MadeSeq, SeqShape
<1>7. ASSUME NEW f \in ToSet(list)
      PROVE  \E x \in ToSet(s) : f = <<x[1], <<x[2], None>>>>
  <2>1. PICK i \in 1..Len(list) : f = list[i]
    BY <1>6, Members
  <2>2. f = <<new[i][1], <<new[i][2], None>>>> /\ i \in 1..Len(new)
    BY <1>4, <1>6, <2>1
  <2>3. new[i] \in ToSet(s)
    BY <1>1, <2>2, Members
  <2> QED  BY <2>2, <2>3
<1>8. ASSUME NEW y \in ToSet(s)
      PROVE  \E f \in ToSet(list) : f[2] = <<y[2], None>>
  <2>1. PICK x \in ToSet(new) : x[2] = y[2]
    BY <1>1
  <2>2. PICK i \in 1..Len(new) : x = new[i]
    BY <1>1, Members
  <2>3. list[i] = <<x[1], <<x[2], None>>>>
    BY <1>4, <1>6, <2>2
  <2>4. list[i] \in ToSet(list)
    BY <1>6, <2>2, Members
  <2>5. list[i][2] = <<y[2], None>>
    BY <2>1, <2>3
  <2> QED  BY <2>4, <2>5
<1> QED  BY <1>5, <1>6, <1>7, <1>8 DEF ShortsMean, ListsAll, par, list

-----------------------------------------------------------------------------
(* What the instructions look like.                                        *)

LEMMA ConfShape ==
  ASSUME setup \in JsonSetups
  PROVE  /\ IsSeq(conf.outputs) /\ \A o \in ToSet(conf.outputs) : o.kind \in {"json", "cmd", "xml"}
         /\ \A i, j \in 1..Len(conf.outputs) :
              conf.outputs[i].name = conf.outputs[j].name => i = j
         /\ IsFiniteSet(DOMAIN conf.configurations)
         /\ \/ setup.format = "fls" /\ IsCommands(conf.commands)
            \/ /\ setup.format = "json" /\ IsFiniteSet(DOMAIN conf.commands)
               /\ \A g \in DOMAIN conf.commands : IsCommands(conf.commands[g])
               /\ \A k \in DOMAIN conf.configurations :
                    conf.configurations[k].commands \in DOMAIN conf.commands
               /\ \A o \in ToSet(conf.outputs) :
                    o.kind = "cmd" => o.commands \in DOMAIN conf.commands
<1>1. IsConf(setup.format, conf)
  BY FlashJsonAssumption DEF conf
<1>2. /\ IsList(conf.outputs) /\ IsInjective([i \in DOMAIN conf.outputs |-> conf.outputs[i].name])
      /\ \A o \in ToSet(conf.outputs) : o.kind \in {"json", "cmd", "xml"}
      /\ IsFiniteSet(DOMAIN conf.configurations)
      /\ \/ setup.format = "fls" /\ IsCommands(conf.commands)
         \/ /\ setup.format = "json" /\ IsFiniteSet(DOMAIN conf.commands)
            /\ \A g \in DOMAIN conf.commands : IsCommands(conf.commands[g])
            /\ \A k \in DOMAIN conf.configurations :
                 conf.configurations[k].commands \in DOMAIN conf.commands
            /\ \A o \in ToSet(conf.outputs) :
                 o.kind = "cmd" => o.commands \in DOMAIN conf.commands
  BY <1>1 DEF IsConf
<1>3. IsSeq(conf.outputs)
  BY <1>2, ListIsSeq
<1>4. DOMAIN conf.outputs = 1..Len(conf.outputs)
  BY <1>3, SeqShape
<1>5. \A i, j \in 1..Len(conf.outputs) : conf.outputs[i].name = conf.outputs[j].name => i = j
  BY <1>2, <1>4 DEF IsInjective
<1> QED  BY <1>2, <1>3, <1>5

LEMMA CommandsShape ==
  ASSUME NEW cmds, IsCommands(cmds)
  PROVE  /\ IsSeq(cmds)
         /\ \A c \in ToSet(cmds) : IsSeq(c.target) /\ ToSet(c.target) \subseteq Files /\ c.source \in Sources
BY ListIsSeq DEF IsCommands

(* A command and the one it was; sequences of such.                        *)
Alike(x, y) ==
  /\ x.id = y.id /\ x.type = y.type /\ x.source = y.source /\ x.target = y.target
  /\ x.dollar = y.dollar /\ x.format = y.format
  /\ x.builds = y.builds /\ x.platforms = y.platforms /\ x.restrict = y.restrict

AlikeSeqs(s, t) ==
  IsSeq(s) /\ IsSeq(t) /\ Len(s) = Len(t) /\ \A i \in 1..Len(s) : Alike(s[i], t[i])

GroupsAlike(groups) ==
  /\ DOMAIN groups = DOMAIN conf.commands
  /\ \A g \in DOMAIN groups : AlikeSeqs(groups[g], conf.commands[g])

LEMMA AlikeMeans ==
  ASSUME NEW x, NEW y, Alike(x, y)
  PROVE  /\ Passes(x) <=> Passes(y)
         /\ IsNamed(x) <=> IsNamed(y)
         /\ InArguments(x) = InArguments(y)
         /\ x.source = y.source /\ x.target = y.target /\ x.type = y.type /\ x.restrict = y.restrict
<1>1. Passes(x) <=> Passes(y)
  BY DEF Alike, Passes
<1>2. IsNamed(x) <=> IsNamed(y)
  BY DEF Alike, IsNamed
<1>3. InArguments(x) = InArguments(y)
  BY DEF Alike, InArguments
<1> QED  BY <1>1, <1>2, <1>3 DEF Alike

LEMMA AlikeMembers ==
  ASSUME NEW s, NEW t, AlikeSeqs(s, t)
  PROVE  /\ \A c \in ToSet(s) : \E d \in ToSet(t) : Alike(c, d)
         /\ \A d \in ToSet(t) : \E c \in ToSet(s) : Alike(c, d)
<1>1. IsSeq(s) /\ IsSeq(t) /\ Len(s) = Len(t) /\ \A i \in 1..Len(s) : Alike(s[i], t[i])
  BY DEF AlikeSeqs
<1>2. ASSUME NEW c \in ToSet(s)
      PROVE  \E d \in ToSet(t) : Alike(c, d)
  <2>1. PICK i \in 1..Len(s) : c = s[i]
    BY <1>1, Members
  <2>2. t[i] \in ToSet(t)
    BY <1>1, <2>1, Members
  <2> QED  BY <1>1, <2>1, <2>2
<1>3. ASSUME NEW d \in ToSet(t)
      PROVE  \E c \in ToSet(s) : Alike(c, d)
  <2>1. PICK i \in 1..Len(t) : d = t[i]
    BY <1>1, Members
  <2>2. s[i] \in ToSet(s)
    BY <1>1, <2>1, Members
  <2> QED  BY <1>1, <2>1, <2>2
<1> QED  BY <1>2, <1>3

(* Commands with their targets and sources.                                *)
LEMMA SourcedIs ==
  ASSUME NEW s, IsSeq(s), \A c \in ToSet(s) : IsSeq(c.target)
  PROVE  /\ IsSeq(Sourced(s))
         /\ \A x : x \in ToSet(Sourced(s))
                     <=> \E c \in ToSet(s) : \E f \in ToSet(c.target) : x = <<c.source, f>>
<1> DEFINE part(c) == [j \in DOMAIN c.target |-> <<c.source, c.target[j]>>]
           z == [i \in DOMAIN s |-> part(s[i])]
<1>1. IsSeq(z) /\ Len(z) = Len(s) /\ DOMAIN s = 1..Len(s)
  BY MadeSeq, SeqShape
<1>2. \A i \in 1..Len(s) : z[i] = part(s[i]) /\ s[i] \in ToSet(s)
  BY <1>1, Members
<1>3. Sourced(s) = FlattenSeq(z)
  BY DEF Sourced
<1>4. ASSUME NEW c \in ToSet(s)
      PROVE  /\ IsSeq(part(c)) /\ Len(part(c)) = Len(c.target)
             /\ \A j \in 1..Len(c.target) : part(c)[j] = <<c.source, c.target[j]>>
  <2>1. DOMAIN c.target = 1..Len(c.target)
    BY SeqShape
  <2> QED  BY <2>1, MadeSeq
<1>5. ASSUME NEW c \in ToSet(s)
      PROVE  \A x : x \in ToSet(part(c)) <=> \E f \in ToSet(c.target) : x = <<c.source, f>>
  <2>1. \A x : x \in ToSet(part(c)) <=> \E j \in 1..Len(part(c)) : x = part(c)[j]
    BY <1>4, Members
  <2>2. \A f : f \in ToSet(c.target) <=> \E j \in 1..Len(c.target) : f = c.target[j]
    BY Members
  <2>3. /\ Len(part(c)) = Len(c.target)
        /\ \A j \in 1..Len(c.target) : part(c)[j] = <<c.source, c.target[j]>>
    BY <1>4
  <2> HIDE DEF part
  <2>4. ASSUME NEW x
        PROVE  x \in ToSet(part(c)) <=> \E j \in 1..Len(c.target) : x = <<c.source, c.target[j]>>
    <3>1. x \in ToSet(part(c)) <=> \E j \in 1..Len(part(c)) : x = part(c)[j]
      BY <2>1
    <3> DEFINE p == part(c)
    <3>2. Len(p) = Len(c.target) /\ \A j \in 1..Len(c.target) : p[j] = <<c.source, c.target[j]>>
      BY <2>3
    <3>3. x \in ToSet(p) <=> \E j \in 1..Len(p) : x = p[j]
      BY <3>1
    <3> HIDE DEF p
    <3>4. x \in ToSet(p) <=> \E j \in 1..Len(c.target) : x = <<c.source, c.target[j]>>
      BY <3>2, <3>3
    <3> QED  BY <3>4 DEF p
  <2>5. ASSUME NEW x
        PROVE  (\E f \in ToSet(c.target) : x = <<c.source, f>>)
                 <=> \E j \in 1..Len(c.target) : x = <<c.source, c.target[j]>>
    BY <2>2
  <2> QED  BY <2>4, <2>5
<1> HIDE DEF part, z
<1>6. \A i \in 1..Len(z) : IsSeq(z[i])
  BY <1>1, <1>2, <1>4
<1>7. /\ IsSeq(FlattenSeq(z))
      /\ \A x : x \in ToSet(FlattenSeq(z)) <=> \E i \in 1..Len(z) : x \in ToSet(z[i])
  BY <1>1, <1>6, FlattenMembers
<1>8. \A x : (\E i \in 1..Len(z) : x \in ToSet(z[i])) <=> \E c \in ToSet(s) : x \in ToSet(part(c))
  <2>1. \A c : c \in ToSet(s) <=> \E i \in 1..Len(s) : c = s[i]
    BY Members
  <2> QED  BY <1>1, <1>2, <2>1
<1> QED  BY <1>3, <1>5, <1>7, <1>8

-----------------------------------------------------------------------------
(* A json output of flashfiles.json, in its parts.                         *)

JsonState ==
  setup \in JsonSetups /\ setup.format = "json" /\ GroupsAlike(commands)

Order == SetToSeq(DOMAIN commands)

PassingOf == [i \in DOMAIN Order |-> Passing(commands[Order[i]])]

NamedOf ==
  Select(FlattenSeq(PassingOf), {c \in ToSet(FlattenSeq(PassingOf)) : IsNamed(c)})

MadeOfGroups == [i \in DOMAIN Order |-> MadeOf(Order[i], PassingOf[i])]

NewOf == FlattenSeq(MadeOfGroups)

LEMMA JsonOutputIs ==
  /\ JsonOutput.body.parameters = Parameters(Sourced(NamedOf))
  /\ JsonOutput.body.commands = Select(NewOf, {c \in ToSet(NewOf) : c.restrict # {}})
  /\ JsonOutput.files = FileList(Sourced(NamedOf))
BY DEF JsonOutput, NewOf, MadeOfGroups, NamedOf, PassingOf, Order

(* The files that outputs have.                                            *)
FilesNamed ==
  {x \in Sources \X Files :
     IF setup.format = "json"
     THEN \E g \in DOMAIN conf.commands : \E c \in ToSet(conf.commands[g]) :
            Passes(c) /\ IsNamed(c) /\ \E f \in ToSet(c.target) : x = <<c.source, f>>
     ELSE \E c \in ToSet(conf.commands) :
            c.type \in {"fls", "info"} /\ \E f \in ToSet(c.target) : x = <<c.source, f>>}

LEMMA OrderIs ==
  ASSUME JsonState
  PROVE  /\ IsSeq(Order) /\ DOMAIN Order = 1..Len(Order) /\ Len(Order) \in Nat
         /\ \A g : g \in DOMAIN commands <=> \E i \in 1..Len(Order) : g = Order[i]
         /\ \A i, j \in 1..Len(Order) : Order[i] = Order[j] => i = j
         /\ \A g \in DOMAIN commands :
              /\ AlikeSeqs(commands[g], conf.commands[g])
              /\ g \in DOMAIN conf.commands /\ IsCommands(conf.commands[g])
         /\ DOMAIN commands = DOMAIN conf.commands
<1>1. /\ setup \in JsonSetups /\ setup.format = "json"
      /\ DOMAIN commands = DOMAIN conf.commands
      /\ \A g \in DOMAIN commands : AlikeSeqs(commands[g], conf.commands[g])
  BY DEF JsonState, GroupsAlike
<1>2. /\ IsFiniteSet(DOMAIN conf.commands)
      /\ \A g \in DOMAIN conf.commands : IsCommands(conf.commands[g])
  BY <1>1, ConfShape
<1>3. IsFiniteSet(DOMAIN commands)
  BY <1>1, <1>2
<1>4. IsSeq(Order) /\ ToSet(Order) = DOMAIN commands
  BY <1>3, SetToSeqMembers DEF Order
<1>5. \A i, j \in 1..Len(Order) : Order[i] = Order[j] => i = j
  BY <1>3, SetToSeqOnce DEF Order
<1>6. \A g : g \in ToSet(Order) <=> \E i \in 1..Len(Order) : g = Order[i]
  BY <1>4, Members
<1>7. DOMAIN Order = 1..Len(Order) /\ Len(Order) \in Nat
  BY <1>4, SeqShape
<1> QED  BY <1>1, <1>2, <1>4, <1>5, <1>6, <1>7

LEMMA PassingIs ==
  ASSUME NEW s, IsSeq(s)
  PROVE  IsSeq(Passing(s)) /\ \A c : c \in ToSet(Passing(s)) <=> c \in ToSet(s) /\ Passes(c)
<1>1. IsSeq(Passing(s)) /\ ToSet(Passing(s)) = ToSet(s) \cap {c \in ToSet(s) : Passes(c)}
  BY SelectMembers DEF Passing
<1> QED  BY <1>1

LEMMA PassingOfIs ==
  ASSUME JsonState
  PROVE  /\ IsSeq(PassingOf) /\ Len(PassingOf) = Len(Order)
         /\ \A i \in 1..Len(Order) :
              /\ PassingOf[i] = Passing(commands[Order[i]])
              /\ IsSeq(PassingOf[i]) /\ IsSeq(commands[Order[i]])
              /\ \A c : c \in ToSet(PassingOf[i]) <=> c \in ToSet(commands[Order[i]]) /\ Passes(c)
<1>1. /\ IsSeq(Order) /\ DOMAIN Order = 1..Len(Order)
      /\ \A i \in 1..Len(Order) : Order[i] \in DOMAIN commands
      /\ \A g \in DOMAIN commands : AlikeSeqs(commands[g], conf.commands[g])
  BY OrderIs
<1>2. /\ DOMAIN PassingOf = DOMAIN Order
      /\ PassingOf = [i \in DOMAIN Order |-> PassingOf[i]]
      /\ \A i \in DOMAIN Order : PassingOf[i] = Passing(commands[Order[i]])
  BY DEF PassingOf
<1>3. IsSeq(PassingOf) /\ Len(PassingOf) = Len(Order)
  BY <1>1, <1>2, MadeSeq
<1>4. ASSUME NEW i \in 1..Len(Order)
      PROVE  /\ PassingOf[i] = Passing(commands[Order[i]])
             /\ IsSeq(PassingOf[i]) /\ IsSeq(commands[Order[i]])
             /\ \A c : c \in ToSet(PassingOf[i]) <=> c \in ToSet(commands[Order[i]]) /\ Passes(c)
  <2>1. IsSeq(commands[Order[i]])
    BY <1>1 DEF AlikeSeqs
  <2>2. PassingOf[i] = Passing(commands[Order[i]])
    BY <1>1, <1>2
  <2> QED  BY <2>1, <2>2, PassingIs
<1> QED  BY <1>3, <1>4

LEMMA NamedOfIs ==
  ASSUME JsonState
  PROVE  /\ IsSeq(NamedOf)
         /\ \A c : c \in ToSet(NamedOf) <=>
              \E g \in DOMAIN commands : c \in ToSet(commands[g]) /\ Passes(c) /\ IsNamed(c)
<1>1. /\ IsSeq(PassingOf) /\ \A i \in 1..Len(PassingOf) : IsSeq(PassingOf[i])
      /\ Len(PassingOf) = Len(Order)
      /\ \A i \in 1..Len(Order) :
           \A c : c \in ToSet(PassingOf[i]) <=> c \in ToSet(commands[Order[i]]) /\ Passes(c)
  BY PassingOfIs
<1> DEFINE all == FlattenSeq(PassingOf)
<1>2. /\ IsSeq(all)
      /\ \A c : c \in ToSet(all) <=> \E i \in 1..Len(PassingOf) : c \in ToSet(PassingOf[i])
  BY <1>1, FlattenMembers
<1>3. NamedOf = Select(all, {c \in ToSet(all) : IsNamed(c)})
  BY DEF NamedOf
<1> HIDE DEF all
<1>4. IsSeq(NamedOf) /\ ToSet(NamedOf) = ToSet(all) \cap {c \in ToSet(all) : IsNamed(c)}
  BY <1>2, <1>3, SelectMembers
<1>5. \A g : g \in DOMAIN commands <=> \E i \in 1..Len(Order) : g = Order[i]
  BY OrderIs
<1>6. ASSUME NEW c
      PROVE  c \in ToSet(all) <=> \E g \in DOMAIN commands : c \in ToSet(commands[g]) /\ Passes(c)
  <2>1. c \in ToSet(all) <=> \E i \in 1..Len(Order) : c \in ToSet(commands[Order[i]]) /\ Passes(c)
    BY <1>1, <1>2
  <2> QED  BY <1>5, <2>1
<1> QED  BY <1>4, <1>6

(* The outputs change nothing in the files they have.                      *)
LEMMA JsonSourced ==
  ASSUME JsonState
  PROVE  IsSeq(Sourced(NamedOf)) /\ ToSet(Sourced(NamedOf)) = FilesNamed
<1>1. /\ DOMAIN commands = DOMAIN conf.commands
      /\ \A g \in DOMAIN commands : /\ AlikeSeqs(commands[g], conf.commands[g])
                                    /\ IsCommands(conf.commands[g])
  BY OrderIs
<1>2. \A g \in DOMAIN commands : \A d \in ToSet(conf.commands[g]) :
        IsSeq(d.target) /\ ToSet(d.target) \subseteq Files /\ d.source \in Sources
  BY <1>1, CommandsShape
<1>3. ASSUME NEW c \in ToSet(NamedOf)
      PROVE  \E g \in DOMAIN commands : \E d \in ToSet(conf.commands[g]) :
               Alike(c, d) /\ Passes(d) /\ IsNamed(d)
  <2>1. PICK g \in DOMAIN commands : c \in ToSet(commands[g]) /\ Passes(c) /\ IsNamed(c)
    BY NamedOfIs
  <2>2. PICK d \in ToSet(conf.commands[g]) : Alike(c, d)
    BY <1>1, <2>1, AlikeMembers
  <2> QED  BY <2>1, <2>2, AlikeMeans
<1>4. \A c \in ToSet(NamedOf) : IsSeq(c.target)
  BY <1>2, <1>3, AlikeMeans
<1>5. IsSeq(NamedOf)
  BY NamedOfIs
<1>6. /\ IsSeq(Sourced(NamedOf))
      /\ \A x : x \in ToSet(Sourced(NamedOf))
                  <=> \E c \in ToSet(NamedOf) : \E f \in ToSet(c.target) : x = <<c.source, f>>
  BY <1>4, <1>5, SourcedIs
<1>7. setup.format = "json"
  BY DEF JsonState
<1>8. \A x : x \in FilesNamed <=>
        /\ x \in Sources \X Files
        /\ \E g \in DOMAIN conf.commands : \E c \in ToSet(conf.commands[g]) :
             Passes(c) /\ IsNamed(c) /\ \E f \in ToSet(c.target) : x = <<c.source, f>>
  BY <1>7 DEF FilesNamed
<1>9. ASSUME NEW x \in ToSet(Sourced(NamedOf))
      PROVE  x \in FilesNamed
  <2>1. PICK c \in ToSet(NamedOf) : \E f \in ToSet(c.target) : x = <<c.source, f>>
    BY <1>6
  <2>2. PICK g \in DOMAIN commands : \E d \in ToSet(conf.commands[g]) :
               Alike(c, d) /\ Passes(d) /\ IsNamed(d)
    BY <1>3
  <2>3. PICK d \in ToSet(conf.commands[g]) : Alike(c, d) /\ Passes(d) /\ IsNamed(d)
    BY <2>2
  <2>4. c.source = d.source /\ c.target = d.target
    BY <2>3, AlikeMeans
  <2>5. PICK f \in ToSet(d.target) : x = <<d.source, f>>
    BY <2>1, <2>4
  <2>6. f \in Files /\ d.source \in Sources
    BY <1>2, <2>5
  <2> QED  BY <1>1, <1>8, <2>3, <2>5, <2>6
<1>10. ASSUME NEW x \in FilesNamed
       PROVE  x \in ToSet(Sourced(NamedOf))
  <2>1. PICK g \in DOMAIN commands : \E d \in ToSet(conf.commands[g]) :
             Passes(d) /\ IsNamed(d) /\ \E f \in ToSet(d.target) : x = <<d.source, f>>
    BY <1>1, <1>8
  <2>2. PICK d \in ToSet(conf.commands[g]) :
             Passes(d) /\ IsNamed(d) /\ \E f \in ToSet(d.target) : x = <<d.source, f>>
    BY <2>1
  <2>3. PICK c \in ToSet(commands[g]) : Alike(c, d)
    BY <1>1, AlikeMembers
  <2>4. Passes(c) /\ IsNamed(c) /\ c.source = d.source /\ c.target = d.target
    BY <2>2, <2>3, AlikeMeans
  <2>5. c \in ToSet(NamedOf)
    BY <2>4, NamedOfIs
  <2> QED  BY <1>6, <2>2, <2>4, <2>5
<1> QED  BY <1>6, <1>9, <1>10

(* The entries of a command file that are for a configuration, and what    *)
(* the instructions say for it.                                            *)
MineOf(b, c) == Select(b.commands, {x \in ToSet(b.commands) : c \in x.restrict})

NeedsIn(all, subgroup) ==
  Select(all, {x \in ToSet(all) : Passes(x) /\ subgroup \in x.restrict /\ x.type \in KnownTypes})

Needs(c) ==
  NeedsIn(conf.commands[conf.configurations[c].commands], conf.configurations[c].subgroup)

ParametersOf(cmd) ==
  IF IsNamed(cmd) /\ cmd.type \in {"fastboot", "dldr"} THEN Shorts(InArguments(cmd)) ELSE <<>>

DoesNeeds(mine, needs) ==
  /\ IsSeq(mine) /\ IsSeq(needs) /\ Len(mine) = Len(needs)
  /\ \A k \in 1..Len(needs) : mine[k].parameters = ParametersOf(needs[k])

KnownOf(cmds) == Select(cmds, {c \in ToSet(cmds) : c.type \in KnownTypes})

LEMMA GroupMade ==
  ASSUME NEW g, NEW cmds, IsSeq(cmds)
  PROVE  /\ IsSeq(KnownOf(cmds)) /\ IsSeq(MadeOf(g, cmds))
         /\ Len(MadeOf(g, cmds)) = Len(KnownOf(cmds))
         /\ \A j \in 1..Len(KnownOf(cmds)) : MadeOf(g, cmds)[j] = JsonCommand(g, KnownOf(cmds)[j])
<1> DEFINE known == KnownOf(cmds)
           made == MadeOf(g, cmds)
<1>1. IsSeq(known)
  BY SelectMembers DEF KnownOf
<1>2. made = [j \in DOMAIN known |-> JsonCommand(g, known[j])]
  BY DEF MadeOf, KnownOf
<1>3. /\ DOMAIN made = DOMAIN known
      /\ made = [j \in DOMAIN known |-> made[j]]
      /\ \A j \in DOMAIN known : made[j] = JsonCommand(g, known[j])
  BY <1>2
<1> HIDE DEF known, made
<1>4. IsSeq(made) /\ Len(made) = Len(known) /\ DOMAIN made = 1..Len(known)
  BY <1>1, <1>3, MadeSeq
<1> QED  BY <1>1, <1>3, <1>4 DEF known, made

LEMMA GroupsMade ==
  ASSUME JsonState
  PROVE  /\ IsSeq(MadeOfGroups) /\ Len(MadeOfGroups) = Len(Order)
         /\ \A i \in 1..Len(Order) : /\ MadeOfGroups[i] = MadeOf(Order[i], PassingOf[i])
                                     /\ IsSeq(MadeOfGroups[i])
<1>1. IsSeq(Order) /\ DOMAIN Order = 1..Len(Order)
  BY OrderIs
<1>2. /\ DOMAIN MadeOfGroups = DOMAIN Order
      /\ MadeOfGroups = [i \in DOMAIN Order |-> MadeOfGroups[i]]
      /\ \A i \in DOMAIN Order : MadeOfGroups[i] = MadeOf(Order[i], PassingOf[i])
  BY DEF MadeOfGroups
<1>3. \A i \in 1..Len(Order) : IsSeq(PassingOf[i])
  BY PassingOfIs
<1>4. IsSeq(MadeOfGroups) /\ Len(MadeOfGroups) = Len(Order)
  BY <1>1, <1>2, MadeSeq
<1>5. \A i \in 1..Len(Order) : MadeOfGroups[i] = MadeOf(Order[i], PassingOf[i])
  BY <1>1, <1>2
<1>6. \A i \in 1..Len(Order) : IsSeq(MadeOf(Order[i], PassingOf[i]))
  BY <1>3, GroupMade
<1> QED  BY <1>4, <1>5, <1>6

(* A group that has been changed or not, for the subgroup.                 *)
LEMMA NeedsOfGroup ==
  ASSUME NEW s, NEW t, AlikeSeqs(s, t), NEW g, NEW c, NEW sub,
         \A x : c \in Restricted(g, x) <=> sub \in x.restrict,
         NEW C, \A j \in 1..Len(MadeOf(g, Passing(s))) :
                  MadeOf(g, Passing(s))[j] \in C <=> c \in MadeOf(g, Passing(s))[j].restrict
  PROVE  DoesNeeds(Select(MadeOf(g, Passing(s)), C), NeedsIn(t, sub))
<1> DEFINE cmds == Passing(s)
           made == MadeOf(g, cmds)
           known == KnownOf(cmds)
           P == {x \in ToSet(s) : Passes(x)}
           T == {x \in ToSet(cmds) : x.type \in KnownTypes}
           D == {x \in ToSet(known) : sub \in x.restrict}
           N == {x \in ToSet(t) : Passes(x) /\ sub \in x.restrict /\ x.type \in KnownTypes}
           mine == Select(made, C)
           mid == Select(known, D)
           needs == Select(t, N)
<1>1. IsSeq(s) /\ IsSeq(t) /\ Len(s) = Len(t) /\ \A i \in 1..Len(s) : Alike(s[i], t[i])
  BY DEF AlikeSeqs
<1>2. IsSeq(cmds) /\ ToSet(cmds) = ToSet(s) \cap P
  BY <1>1, SelectMembers DEF Passing
<1>3. IsSeq(known) /\ ToSet(known) = ToSet(cmds) \cap T
  BY <1>2, SelectMembers DEF KnownOf
<1>4. known = Select(cmds, T) /\ cmds = Select(s, P)
  BY DEF KnownOf, Passing
<1>5. NeedsIn(t, sub) = needs
  BY DEF NeedsIn
<1>6. /\ IsSeq(made) /\ Len(made) = Len(known)
      /\ \A j \in 1..Len(known) : made[j] = JsonCommand(g, known[j])
  BY <1>2, GroupMade
<1>7. \A j \in 1..Len(made) : made[j] \in C <=> c \in made[j].restrict
  OBVIOUS
<1> HIDE DEF made, known, cmds
<1>8. \A x : JsonCommand(g, x).restrict = Restricted(g, x) /\ JsonCommand(g, x).parameters = ParametersOf(x)
  BY DEF JsonCommand, ParametersOf
<1>9. \A j \in 1..Len(known) : known[j] \in D <=> sub \in known[j].restrict
  BY <1>3, Members
<1>10. \A j \in 1..Len(made) : made[j] \in C <=> known[j] \in D
  BY <1>6, <1>7, <1>8, <1>9
<1> HIDE DEF D
<1>11. /\ IsSeq(mine) /\ IsSeq(mid) /\ Len(mine) = Len(mid)
       /\ \A k \in 1..Len(mine) : \E i \in 1..Len(made) : mine[k] = made[i] /\ mid[k] = known[i]
  BY <1>3, <1>6, <1>10, SelectAlike
<1>12. \A k \in 1..Len(mine) : mine[k].parameters = ParametersOf(mid[k])
  BY <1>6, <1>8, <1>11
<1>13. mid = Select(s, P \cap (T \cap D))
  <2>1. mid = Select(cmds, T \cap D)
    BY <1>2, <1>4, SelectTwice
  <2> DEFINE B == T \cap D
  <2> HIDE DEF B, P
  <2>2. Select(Select(s, P), B) = Select(s, P \cap B)
    BY <1>1, SelectTwice
  <2> HIDE DEF mid, T
  <2> QED  BY <1>4, <2>1, <2>2 DEF B
<1>14. \A i \in 1..Len(s) : s[i] \in P \cap (T \cap D) <=> t[i] \in N
  <2> SUFFICES ASSUME NEW i \in 1..Len(s)
               PROVE  s[i] \in P \cap (T \cap D) <=> t[i] \in N
    OBVIOUS
  <2>1. s[i] \in ToSet(s) /\ t[i] \in ToSet(t)
    BY <1>1, Members
  <2>2. s[i] \in P \cap (T \cap D) <=> Passes(s[i]) /\ s[i].type \in KnownTypes /\ sub \in s[i].restrict
    BY <1>2, <1>3, <2>1 DEF D
  <2>3. t[i] \in N <=> Passes(t[i]) /\ t[i].type \in KnownTypes /\ sub \in t[i].restrict
    BY <2>1
  <2>4. /\ Passes(s[i]) <=> Passes(t[i])
        /\ s[i].type = t[i].type /\ s[i].restrict = t[i].restrict
    BY <1>1, AlikeMeans
  <2> QED  BY <2>2, <2>3, <2>4
<1> DEFINE A == P \cap (T \cap D)
<1>15. mid = Select(s, A) /\ \A i \in 1..Len(s) : s[i] \in A <=> t[i] \in N
  BY <1>13, <1>14
<1> HIDE DEF A, N, mid, mine, P, T
<1>19. IsSeq(s) /\ IsSeq(t) /\ Len(s) = Len(t)
  BY <1>1
<1>20. \A i \in 1..Len(s) : s[i] \in A <=> t[i] \in N
  BY <1>15
<1> DEFINE p == Select(s, A)
<1>21. /\ IsSeq(needs) /\ Len(p) = Len(needs)
       /\ \A k \in 1..Len(p) : \E i \in 1..Len(s) : p[k] = s[i] /\ needs[k] = t[i]
  BY <1>19, <1>20, SelectAlike
<1>22. mid = p
  BY <1>15
<1> HIDE DEF p
<1>16. /\ IsSeq(needs) /\ Len(mid) = Len(needs)
       /\ \A k \in 1..Len(mid) : \E i \in 1..Len(s) : mid[k] = s[i] /\ needs[k] = t[i]
  BY <1>21, <1>22
<1> HIDE DEF needs
<1>17. ASSUME NEW k \in 1..Len(needs)
       PROVE  ParametersOf(mid[k]) = ParametersOf(needs[k])
  <2>1. PICK i \in 1..Len(s) : mid[k] = s[i] /\ needs[k] = t[i]
    BY <1>16
  <2>2. Alike(mid[k], needs[k])
    BY <1>1, <2>1
  <2>3. /\ IsNamed(mid[k]) <=> IsNamed(needs[k])
        /\ mid[k].type = needs[k].type /\ InArguments(mid[k]) = InArguments(needs[k])
    BY <2>2, AlikeMeans
  <2> QED  BY <2>3 DEF ParametersOf
<1>18. DoesNeeds(mine, needs)
  BY <1>11, <1>12, <1>16, <1>17 DEF DoesNeeds
<1> QED  BY <1>5, <1>18 DEF mine, made, cmds

(* Every configuration gets what it needs, of its own group only.          *)
LEMMA ConfigurationDoes ==
  ASSUME JsonState, NEW c \in DOMAIN conf.configurations
  PROVE  DoesNeeds(MineOf(JsonOutput.body, c), Needs(c))
<1> DEFINE b == JsonOutput.body
           g == conf.configurations[c].commands
           sub == conf.configurations[c].subgroup
           A == {x \in ToSet(NewOf) : x.restrict # {}}
           s == Select(NewOf, A)
           B == {x \in ToSet(s) : c \in x.restrict}
           C == {x \in ToSet(NewOf) : c \in x.restrict}
<1>1. /\ g \in DOMAIN commands
      /\ AlikeSeqs(commands[g], conf.commands[g])
  <2>1. setup \in JsonSetups /\ setup.format = "json"
    BY DEF JsonState
  <2>2. g \in DOMAIN conf.commands
    BY <2>1, ConfShape
  <2> QED  BY <2>2, OrderIs
<1>2. PICK j \in 1..Len(Order) : g = Order[j]
  BY <1>1, OrderIs
<1>3. /\ IsSeq(MadeOfGroups) /\ Len(MadeOfGroups) = Len(Order)
      /\ \A i \in 1..Len(Order) : /\ MadeOfGroups[i] = MadeOf(Order[i], PassingOf[i])
                                  /\ IsSeq(MadeOfGroups[i])
  BY GroupsMade
<1>4. /\ IsSeq(NewOf)
      /\ \A x : x \in ToSet(NewOf) <=> \E i \in 1..Len(MadeOfGroups) : x \in ToSet(MadeOfGroups[i])
  BY <1>3, FlattenMembers DEF NewOf
<1>5. b.commands = s
  BY JsonOutputIs
<1>6. MineOf(b, c) = Select(s, B)
  BY <1>5 DEF MineOf
<1>7. \A x : c \in Restricted(g, x) <=> sub \in x.restrict
  BY DEF Restricted
<1>8. \A i \in 1..Len(Order) : \A x : c \in Restricted(Order[i], x) => i = j
  BY <1>2, OrderIs DEF Restricted
<1> HIDE DEF b, g, sub
<1>9. IsSeq(s) /\ ToSet(s) = ToSet(NewOf) \cap A
  BY <1>4, SelectMembers
<1>10. Select(s, B) = Select(NewOf, C)
  <2>1. \A x \in ToSet(NewOf) : x \in A \cap B <=> x \in C
    BY <1>9
  <2> HIDE DEF A, B, C
  <2>2. Select(s, B) = Select(NewOf, A \cap B)
    BY <1>4, SelectTwice
  <2> DEFINE E == A \cap B
  <2>3. \A x \in ToSet(NewOf) : x \in E <=> x \in C
    BY <2>1
  <2> HIDE DEF E
  <2>4. Select(NewOf, E) = Select(NewOf, C)
    BY <1>4, <2>3, SelectSame
  <2> HIDE DEF s
  <2> QED  BY <2>2, <2>4 DEF E
<1>11. ASSUME NEW i \in 1..Len(Order), NEW k \in 1..Len(MadeOfGroups[i])
       PROVE  /\ MadeOfGroups[i][k] \in C <=> c \in MadeOfGroups[i][k].restrict
              /\ MadeOfGroups[i][k] \in C => i = j
  <2>1. MadeOfGroups[i][k] \in ToSet(MadeOfGroups[i])
    BY <1>3, Members
  <2>2. MadeOfGroups[i][k] \in ToSet(NewOf)
    BY <1>3, <1>4, <2>1
  <2>3. IsSeq(PassingOf[i])
    BY PassingOfIs
  <2> DEFINE r == KnownOf(PassingOf[i])[k]
  <2>4. MadeOfGroups[i][k] = JsonCommand(Order[i], r)
    BY <1>3, <2>3, GroupMade
  <2> HIDE DEF r
  <2>5. MadeOfGroups[i][k].restrict = Restricted(Order[i], r)
    BY <2>4 DEF JsonCommand
  <2> QED  BY <1>8, <2>2, <2>5
<1> HIDE DEF A, B, C, s
<1>12. Select(NewOf, C) = Select(MadeOfGroups[j], C)
  <2>1. \A i \in 1..Len(MadeOfGroups) : IsSeq(MadeOfGroups[i])
    BY <1>3
  <2>2. \A i \in 1..Len(MadeOfGroups) : i # j => \A k \in 1..Len(MadeOfGroups[i]) : MadeOfGroups[i][k] \notin C
    BY <1>3, <1>11
  <2>3. j \in 1..Len(MadeOfGroups)
    BY <1>3
  <2> QED  BY <1>3, <2>1, <2>2, <2>3, SelectOnePart DEF NewOf
<1>13. MadeOfGroups[j] = MadeOf(g, Passing(commands[g]))
  BY <1>2, <1>3, PassingOfIs
<1> DEFINE made == MadeOf(g, Passing(commands[g]))
<1>14. \A k \in 1..Len(made) : made[k] \in C <=> c \in made[k].restrict
  BY <1>11, <1>13
<1>15. DoesNeeds(Select(made, C), NeedsIn(conf.commands[g], sub))
  BY <1>1, <1>7, <1>14, NeedsOfGroup
<1>16. Needs(c) = NeedsIn(conf.commands[g], sub)
  BY DEF Needs, g, sub
<1> HIDE DEF made
<1>17. MineOf(b, c) = Select(made, C)
  BY <1>6, <1>10, <1>12, <1>13 DEF made
<1>18. DoesNeeds(MineOf(b, c), Needs(c))
  BY <1>15, <1>16, <1>17
<1> QED  BY <1>18 DEF b

-----------------------------------------------------------------------------
(* Lines of installer.cmd once the targets are lists.                      *)

AllListed(groups) ==
  \A g \in DOMAIN groups : \A c \in ToSet(groups[g]) : Passes(c) => c.listed = TRUE

NamedTargets(o) ==
  {d.target : d \in {x \in ToSet(conf.commands[o.commands]) :
     Passes(x) /\ o.subgroup \in x.restrict /\ x.type = "fastboot" /\ IsNamed(x)}}

CmdDoes(b, o) ==
  /\ {<<line.target>> : line \in ToSet(b)} \ {<<None>>} = {<<<<t[1], None>>>> : t \in NamedTargets(o)}
  /\ \A line \in ToSet(b) : line.target # None => \E x \in FilesNamed : line.target = <<x[2], None>>

LEMMA CmdCommandsIs ==
  ASSUME JsonState, NEW o, o.commands \in DOMAIN conf.commands
  PROVE  /\ IsSeq(CmdCommands(o))
         /\ \A c : c \in ToSet(CmdCommands(o)) <=>
              c \in ToSet(commands[o.commands]) /\ Passes(c) /\ o.subgroup \in c.restrict
<1> DEFINE p == Passing(commands[o.commands])
<1>1. IsSeq(commands[o.commands])
  BY OrderIs DEF AlikeSeqs
<1>2. /\ IsSeq(p)
      /\ \A c : c \in ToSet(p) <=> c \in ToSet(commands[o.commands]) /\ Passes(c)
  BY <1>1, PassingIs
<1>3. CmdCommands(o) = Select(p, {c \in ToSet(p) : o.subgroup \in c.restrict})
  BY DEF CmdCommands
<1> HIDE DEF p
<1>4. /\ IsSeq(CmdCommands(o))
      /\ ToSet(CmdCommands(o)) = ToSet(p) \cap {c \in ToSet(p) : o.subgroup \in c.restrict}
  BY <1>2, <1>3, SelectMembers
<1> QED  BY <1>2, <1>4

LEMMA NamedSame ==
  ASSUME JsonState, NEW o, o.commands \in DOMAIN conf.commands
  PROVE  /\ \A t : t \in NamedTargets(o) <=>
              \E d \in ToSet(CmdCommands(o)) : d.type = "fastboot" /\ IsNamed(d) /\ t = d.target
         /\ {d.target : d \in {x \in ToSet(CmdCommands(o)) : x.type = "fastboot" /\ IsNamed(x)}}
              = NamedTargets(o)
<1> DEFINE s == commands[o.commands]
           t == conf.commands[o.commands]
<1>1. AlikeSeqs(s, t)
  BY OrderIs
<1>2. \A c : c \in ToSet(CmdCommands(o)) <=> c \in ToSet(s) /\ Passes(c) /\ o.subgroup \in c.restrict
  BY CmdCommandsIs
<1>3. \A u : u \in NamedTargets(o) <=>
        \E d \in ToSet(t) : /\ Passes(d) /\ o.subgroup \in d.restrict /\ d.type = "fastboot"
                            /\ IsNamed(d) /\ u = d.target
  BY DEF NamedTargets
<1> HIDE DEF s, t
<1>4. ASSUME NEW u \in NamedTargets(o)
      PROVE  \E d \in ToSet(CmdCommands(o)) : d.type = "fastboot" /\ IsNamed(d) /\ u = d.target
  <2>1. PICK d \in ToSet(t) : /\ Passes(d) /\ o.subgroup \in d.restrict /\ d.type = "fastboot"
                              /\ IsNamed(d) /\ u = d.target
    BY <1>3
  <2>2. PICK c \in ToSet(s) : Alike(c, d)
    BY <1>1, AlikeMembers
  <2>3. /\ Passes(c) /\ IsNamed(c) /\ c.type = d.type /\ c.restrict = d.restrict
        /\ c.target = d.target
    BY <2>1, <2>2, AlikeMeans
  <2>4. c \in ToSet(CmdCommands(o))
    BY <1>2, <2>1, <2>3
  <2> QED  BY <2>1, <2>3, <2>4
<1>5. ASSUME NEW c \in ToSet(CmdCommands(o)), c.type = "fastboot", IsNamed(c)
      PROVE  c.target \in NamedTargets(o)
  <2>1. c \in ToSet(s) /\ Passes(c) /\ o.subgroup \in c.restrict
    BY <1>2
  <2>2. PICK d \in ToSet(t) : Alike(c, d)
    BY <1>1, <2>1, AlikeMembers
  <2>3. /\ Passes(d) /\ IsNamed(d) /\ c.type = d.type /\ c.restrict = d.restrict
        /\ c.target = d.target
    BY <1>5, <2>1, <2>2, AlikeMeans
  <2> QED  BY <1>3, <1>5, <2>1, <2>3
<1> QED  BY <1>4, <1>5

LEMMA CmdOutputDoes ==
  ASSUME JsonState, AllListed(commands), NEW o, o.commands \in DOMAIN conf.commands
  PROVE  CmdDoes(CmdOutput(o), o)
<1> DEFINE cc == CmdCommands(o)
           lines == Select(cc, {c \in ToSet(cc) : c.type = "fastboot"})
           b == CmdOutput(o)
           targetOf(l) == IF ~IsNamed(l) THEN None
                          ELSE <<IF l.listed THEN l.target[1] ELSE FirstLetter, None>>
<1>1. /\ IsSeq(cc)
      /\ \A c : c \in ToSet(cc) <=>
              c \in ToSet(commands[o.commands]) /\ Passes(c) /\ o.subgroup \in c.restrict
  BY CmdCommandsIs
<1>2. b = [i \in DOMAIN lines |-> [row |-> lines[i].id, target |-> targetOf(lines[i])]]
  BY DEF CmdOutput
<1> HIDE DEF cc
<1>3. IsSeq(lines) /\ ToSet(lines) = ToSet(cc) \cap {c \in ToSet(cc) : c.type = "fastboot"}
  BY <1>1, SelectMembers
<1>4. /\ DOMAIN b = DOMAIN lines
      /\ b = [i \in DOMAIN lines |-> b[i]]
      /\ \A i \in DOMAIN lines : b[i].target = targetOf(lines[i])
  <2> HIDE DEF b, targetOf, lines
  <2>1. /\ DOMAIN b = DOMAIN lines
        /\ b = [i \in DOMAIN lines |-> b[i]]
        /\ \A i \in DOMAIN lines : b[i] = [row |-> lines[i].id, target |-> targetOf(lines[i])]
    BY <1>2
  <2> QED  BY <2>1
<1> HIDE DEF b, lines
<1>5. IsSeq(b) /\ Len(b) = Len(lines) /\ DOMAIN lines = 1..Len(lines)
  BY <1>3, <1>4, MadeSeq, SeqShape
<1>6. setup \in JsonSetups /\ setup.format = "json" /\ AlikeSeqs(commands[o.commands], conf.commands[o.commands])
      /\ IsCommands(conf.commands[o.commands]) /\ o.commands \in DOMAIN commands
  BY OrderIs DEF JsonState
<1>7. ASSUME NEW l \in ToSet(lines), IsNamed(l)
      PROVE  /\ targetOf(l) = <<l.target[1], None>>
             /\ l.target[1] \in Files
             /\ \E x \in FilesNamed : x[2] = l.target[1]
             /\ l.target \in NamedTargets(o)
  <2>1. l \in ToSet(cc) /\ l.type = "fastboot"
    BY <1>3
  <2>2. l \in ToSet(commands[o.commands]) /\ Passes(l) /\ o.subgroup \in l.restrict
    BY <1>1, <2>1
  <2>3. l.listed = TRUE
    BY <1>6, <2>2 DEF AllListed
  <2>4. PICK d \in ToSet(conf.commands[o.commands]) : Alike(l, d)
    BY <1>6, <2>2, AlikeMembers
  <2>5. Passes(d) /\ IsNamed(d) /\ l.target = d.target
    BY <1>7, <2>2, <2>4, AlikeMeans
  <2>6. IsSeq(d.target) /\ ToSet(d.target) \subseteq Files /\ d.source \in Sources
    BY <1>6, CommandsShape
  <2>7. d.target # <<>>
    BY <2>5 DEF IsNamed
  <2>8. 1 \in 1..Len(d.target)
    BY <2>6, <2>7 DEF IsSeq
  <2>9. d.target[1] \in ToSet(d.target)
    BY <2>6, <2>8, Members
  <2> DEFINE x == <<d.source, d.target[1]>>
  <2>10. x \in FilesNamed /\ x[2] = d.target[1]
    <3>1. x \in Sources \X Files
      BY <2>6, <2>9
    <3>2. \E g \in DOMAIN conf.commands : \E c \in ToSet(conf.commands[g]) :
            Passes(c) /\ IsNamed(c) /\ \E f \in ToSet(c.target) : x = <<c.source, f>>
      BY <2>5, <2>9
    <3> HIDE DEF x
    <3>3. x \in FilesNamed
      BY <1>6, <3>1, <3>2 DEF FilesNamed
    <3> QED  BY <3>3 DEF x
  <2>11. l.target \in NamedTargets(o)
    BY <1>7, <2>1, NamedSame DEF cc
  <2> QED  BY <1>7, <2>3, <2>5, <2>6, <2>9, <2>10, <2>11
<1>8. ASSUME NEW line \in ToSet(b)
      PROVE  \E l \in ToSet(lines) : line.target = targetOf(l)
  <2>1. PICK i \in 1..Len(b) : line = b[i]
    BY <1>5, Members
  <2>2. lines[i] \in ToSet(lines)
    BY <1>3, <1>5, <2>1, Members
  <2> QED  BY <1>4, <1>5, <2>1, <2>2
<1>9. ASSUME NEW l \in ToSet(lines)
      PROVE  \E line \in ToSet(b) : line.target = targetOf(l)
  <2>1. PICK i \in 1..Len(lines) : l = lines[i]
    BY <1>3, Members
  <2>2. b[i] \in ToSet(b)
    BY <1>5, <2>1, Members
  <2> QED  BY <1>4, <1>5, <2>1, <2>2
<1>10. \A l \in ToSet(lines) : ~IsNamed(l) => targetOf(l) = None
  OBVIOUS
<1>11. \A f \in Files : None # <<f, None>>
  BY FlashAssumption DEF Targets
<1> HIDE DEF targetOf
<1>12. ASSUME NEW line \in ToSet(b), line.target # None
       PROVE  \E t \in NamedTargets(o) : line.target = <<t[1], None>>
  <2>1. PICK l \in ToSet(lines) : line.target = targetOf(l)
    BY <1>8
  <2>2. IsNamed(l)
    BY <1>10, <1>12, <2>1
  <2> QED  BY <1>7, <2>1, <2>2
<1>13. ASSUME NEW line \in ToSet(b), line.target # None
       PROVE  \E x \in FilesNamed : line.target = <<x[2], None>>
  <2>1. PICK l \in ToSet(lines) : line.target = targetOf(l)
    BY <1>8
  <2>2. IsNamed(l)
    BY <1>10, <1>13, <2>1
  <2>3. PICK x \in FilesNamed : x[2] = l.target[1]
    BY <1>7, <2>2
  <2>4. line.target = <<x[2], None>>
    BY <1>7, <2>1, <2>2, <2>3
  <2> QED  BY <2>4
<1>14. ASSUME NEW t \in NamedTargets(o)
       PROVE  \E line \in ToSet(b) : line.target = <<t[1], None>> /\ line.target # None
  <2>1. PICK d \in ToSet(cc) : d.type = "fastboot" /\ IsNamed(d) /\ t = d.target
    BY NamedSame DEF cc
  <2>2. d \in ToSet(lines)
    BY <1>3, <2>1
  <2>3. targetOf(d) = <<d.target[1], None>> /\ d.target[1] \in Files
    BY <1>7, <2>1, <2>2
  <2>4. PICK line \in ToSet(b) : line.target = targetOf(d)
    BY <1>9, <2>2
  <2> QED  BY <1>11, <2>1, <2>3, <2>4
<1>15. {<<line.target>> : line \in ToSet(b)} \ {<<None>>} = {<<<<t[1], None>>>> : t \in NamedTargets(o)}
  <2> DEFINE L == {<<line.target>> : line \in ToSet(b)} \ {<<None>>}
             R == {<<<<t[1], None>>>> : t \in NamedTargets(o)}
  <2>1. ASSUME NEW x \in L
        PROVE  x \in R
    <3>1. PICK line \in ToSet(b) : x = <<line.target>>
      OBVIOUS
    <3>2. line.target # None
      BY <3>1
    <3>3. PICK t \in NamedTargets(o) : line.target = <<t[1], None>>
      BY <1>12, <3>2
    <3> QED  BY <3>1, <3>3
  <2>2. ASSUME NEW x \in R
        PROVE  x \in L
    <3>1. PICK t \in NamedTargets(o) : x = <<<<t[1], None>>>>
      OBVIOUS
    <3>2. PICK line \in ToSet(b) : line.target = <<t[1], None>> /\ line.target # None
      BY <1>14
    <3>3. x = <<line.target>>
      BY <3>1, <3>2
    <3>4. x # <<None>>
      BY <3>2, <3>3
    <3> QED  BY <3>3, <3>4
  <2> HIDE DEF L, R
  <2>3. L = R
    BY <2>1, <2>2
  <2> QED  BY <2>3 DEF L, R
<1> QED  BY <1>13, <1>15 DEF CmdDoes, b

(* What one json output leaves to the next.                                *)
LEMMA WithListsAre ==
  ASSUME JsonState
  PROVE  GroupsAlike(WithLists(commands)) /\ AllListed(WithLists(commands))
<1> DEFINE new(c) == IF Passes(c) THEN WithListed(c, TRUE) ELSE c
           made(s) == [i \in DOMAIN s |-> new(s[i])]
           w == WithLists(commands)
<1>1. w = [g \in DOMAIN commands |-> made(commands[g])]
  BY DEF WithLists
<1>2. \A c : /\ new(c).id = c.id /\ new(c).type = c.type /\ new(c).source = c.source
             /\ new(c).target = c.target /\ new(c).dollar = c.dollar /\ new(c).format = c.format
             /\ new(c).builds = c.builds /\ new(c).platforms = c.platforms
             /\ new(c).restrict = c.restrict
             /\ Passes(c) => new(c).listed = TRUE
  BY DEF WithListed
<1>3. \A c : Passes(new(c)) => Passes(c)
  BY <1>2 DEF Passes
<1>4. \A g \in DOMAIN commands : AlikeSeqs(commands[g], conf.commands[g])
  BY OrderIs
<1>5. ASSUME NEW s, NEW t, AlikeSeqs(s, t)
      PROVE  AlikeSeqs(made(s), t) /\ \A c \in ToSet(made(s)) : Passes(c) => c.listed = TRUE
  <2>1. IsSeq(s) /\ IsSeq(t) /\ Len(s) = Len(t) /\ \A i \in 1..Len(s) : Alike(s[i], t[i])
    BY <1>5 DEF AlikeSeqs
  <2> DEFINE m == made(s)
  <2> HIDE DEF new
  <2>2. /\ DOMAIN m = DOMAIN s
        /\ m = [i \in DOMAIN s |-> m[i]]
        /\ \A i \in DOMAIN s : m[i] = new(s[i])
    OBVIOUS
  <2> HIDE DEF m
  <2>3. IsSeq(m) /\ Len(m) = Len(s) /\ DOMAIN s = 1..Len(s)
    BY <2>1, <2>2, MadeSeq, SeqShape
  <2>4. \A i \in 1..Len(m) : Alike(m[i], t[i])
    <3> SUFFICES ASSUME NEW i \in 1..Len(m)
                 PROVE  Alike(m[i], t[i])
      OBVIOUS
    <3>1. m[i] = new(s[i]) /\ Alike(s[i], t[i])
      BY <2>1, <2>2, <2>3
    <3> QED  BY <1>2, <3>1 DEF Alike
  <2>5. \A c \in ToSet(m) : Passes(c) => c.listed = TRUE
    <3> SUFFICES ASSUME NEW c \in ToSet(m), Passes(c)
                 PROVE  c.listed = TRUE
      OBVIOUS
    <3>1. PICK i \in 1..Len(m) : c = m[i]
      BY <2>3, Members
    <3>2. c = new(s[i])
      BY <2>2, <2>3, <3>1
    <3> QED  BY <1>2, <1>3, <3>2
  <2>6. AlikeSeqs(m, t)
    BY <2>1, <2>3, <2>4 DEF AlikeSeqs
  <2> QED  BY <2>5, <2>6 DEF m
<1> HIDE DEF made, w
<1>6. DOMAIN w = DOMAIN commands /\ \A g \in DOMAIN commands : w[g] = made(commands[g])
  BY <1>1
<1>7. DOMAIN commands = DOMAIN conf.commands
  BY OrderIs
<1>8. ASSUME NEW g \in DOMAIN w
      PROVE  AlikeSeqs(w[g], conf.commands[g]) /\ \A c \in ToSet(w[g]) : Passes(c) => c.listed = TRUE
  <2>1. g \in DOMAIN commands /\ w[g] = made(commands[g])
    BY <1>6
  <2>2. AlikeSeqs(commands[g], conf.commands[g])
    BY <1>4, <2>1
  <2> QED  BY <1>5, <2>1, <2>2
<1> QED  BY <1>6, <1>7, <1>8 DEF w, GroupsAlike, AllListed

-----------------------------------------------------------------------------
(* A json output of flashfiles_fls.json.                                   *)

FlsState ==
  setup \in JsonSetups /\ setup.format = "fls" /\ commands = conf.commands

NoRestrict == \A x \in ToSet(conf.commands) : x.restrict = None

AllFor(o) ==
  Select(conf.commands, {c \in ToSet(conf.commands) : c.restrict = None \/ o.name[1] \in c.restrict})

FlsMine(o, c) ==
  Select(AllFor(o), {x \in ToSet(AllFor(o)) : x.type = "fls" /\ (x.core = None \/ c \in x.core)})

TargetsIn(cmds) == FlattenSeq([i \in DOMAIN cmds |-> cmds[i].target])

FlsDoes(b, o) ==
  \A c \in FlsConfigs :
    \E m : MineOf(b, c) = <<m>> /\ m.parameters = Shorts(TargetsIn(FlsMine(o, c)))

UsedFor(o) == UsedOf(AllFor(o), {"fls", "info"})

LEMMA UsedOfIs ==
  ASSUME NEW s, IsSeq(s), NEW T
  PROVE  IsSeq(UsedOf(s, T)) /\ \A c : c \in ToSet(UsedOf(s, T)) <=> c \in ToSet(s) /\ c.type \in T
<1>1. IsSeq(UsedOf(s, T)) /\ ToSet(UsedOf(s, T)) = ToSet(s) \cap {c \in ToSet(s) : c.type \in T}
  BY SelectMembers DEF UsedOf
<1> QED  BY <1>1

LEMMA AllForIs ==
  ASSUME FlsState, NEW o
  PROVE  /\ ForOutput(o) = AllFor(o)
         /\ IsSeq(conf.commands)
         /\ \A c \in ToSet(conf.commands) :
              IsSeq(c.target) /\ ToSet(c.target) \subseteq Files /\ c.source \in Sources
         /\ IsSeq(AllFor(o)) /\ ToSet(AllFor(o)) \subseteq ToSet(conf.commands)
         /\ NoRestrict => ToSet(AllFor(o)) = ToSet(conf.commands)
<1>1. setup \in JsonSetups /\ setup.format = "fls" /\ commands = conf.commands
  BY DEF FlsState
<1>2. IsCommands(conf.commands)
  BY <1>1, ConfShape
<1>3. /\ IsSeq(conf.commands)
      /\ \A c \in ToSet(conf.commands) :
           IsSeq(c.target) /\ ToSet(c.target) \subseteq Files /\ c.source \in Sources
  BY <1>2, CommandsShape
<1> DEFINE A == {c \in ToSet(conf.commands) : c.restrict = None \/ o.name[1] \in c.restrict}
<1>4. IsSeq(AllFor(o)) /\ ToSet(AllFor(o)) = ToSet(conf.commands) \cap A
  BY <1>3, SelectMembers DEF AllFor
<1>5. NoRestrict => A = ToSet(conf.commands)
  BY DEF NoRestrict
<1>6. ForOutput(o) = AllFor(o)
  BY <1>1 DEF ForOutput, AllFor
<1> HIDE DEF A
<1>7. ToSet(AllFor(o)) \subseteq ToSet(conf.commands)
  BY <1>4 DEF A
<1> QED  BY <1>3, <1>4, <1>5, <1>6, <1>7

LEMMA FlsSourced ==
  ASSUME FlsState, NoRestrict, NEW o
  PROVE  IsSeq(Sourced(UsedFor(o))) /\ ToSet(Sourced(UsedFor(o))) = FilesNamed
<1> DEFINE s == Sourced(UsedFor(o))
<1>1. /\ \A c \in ToSet(conf.commands) :
           IsSeq(c.target) /\ ToSet(c.target) \subseteq Files /\ c.source \in Sources
      /\ IsSeq(AllFor(o)) /\ ToSet(AllFor(o)) = ToSet(conf.commands)
  BY AllForIs
<1>2. /\ IsSeq(UsedFor(o))
      /\ \A c : c \in ToSet(UsedFor(o)) <=> c \in ToSet(conf.commands) /\ c.type \in {"fls", "info"}
  BY <1>1, UsedOfIs DEF UsedFor
<1>3. /\ IsSeq(s)
      /\ \A x : x \in ToSet(s)
                  <=> \E c \in ToSet(UsedFor(o)) : \E f \in ToSet(c.target) : x = <<c.source, f>>
  BY <1>1, <1>2, SourcedIs
<1> HIDE DEF s
<1>4. setup.format # "json"
  BY DEF FlsState
<1>5. \A x : x \in FilesNamed <=>
        /\ x \in Sources \X Files
        /\ \E c \in ToSet(conf.commands) :
             c.type \in {"fls", "info"} /\ \E f \in ToSet(c.target) : x = <<c.source, f>>
  BY <1>4 DEF FilesNamed
<1>6. \A x : x \in ToSet(s) <=> x \in FilesNamed
  <2> TAKE x
  <2>1. ASSUME x \in ToSet(s)
        PROVE  x \in FilesNamed
    <3>1. PICK c \in ToSet(conf.commands) :
            c.type \in {"fls", "info"} /\ \E f \in ToSet(c.target) : x = <<c.source, f>>
      BY <1>2, <1>3, <2>1
    <3>2. x \in Sources \X Files
      BY <1>1, <3>1
    <3> QED  BY <1>5, <3>1, <3>2
  <2>2. ASSUME x \in FilesNamed
        PROVE  x \in ToSet(s)
    BY <1>2, <1>3, <1>5, <2>2
  <2> QED  BY <2>1, <2>2
<1>7. ToSet(s) = FilesNamed
  BY <1>6
<1> QED  BY <1>3, <1>7 DEF s

LEMMA SelectOnly ==
  ASSUME NEW s, NEW S, IsSeq(s), NEW j \in 1..Len(s), s[j] \in S,
         \A p \in 1..Len(s) : s[p] \in S => p = j
  PROVE  Select(s, S) = <<s[j]>>
<1> DEFINE c == <<s[j]>>
<1>1. IsSeq(c) /\ Len(c) = 1 /\ c[1] = s[j]
  BY OneSeq
<1>2. Len(s) \in Nat
  BY SeqShape
<1> HIDE DEF c
<1>3. WindowAt(s, S, c, j - 1)
  BY <1>1, <1>2 DEF WindowAt
<1>4. Window(s, S, c)
  BY <1>2, <1>3 DEF Window
<1>5. Select(s, S) = c
  BY <1>1, <1>4, SelectWindow
<1> QED  BY <1>5 DEF c

(* The arguments for a configuration are the files for its cores.          *)
LEMMA ArgumentsAre ==
  ASSUME FlsState, NEW o, NEW c
  PROVE  Arguments(UsedOf(UsedFor(o), {"fls"}), c) = TargetsIn(FlsMine(o, c))
<1> DEFINE s == AllFor(o)
           u == UsedFor(o)
           f == UsedOf(u, {"fls"})
           A == {x \in ToSet(s) : x.type \in {"fls", "info"}}
           B == {x \in ToSet(u) : x.type \in {"fls"}}
           C == {x \in ToSet(f) : x.core = None \/ c \in x.core}
           M == {x \in ToSet(s) : x.type = "fls" /\ (x.core = None \/ c \in x.core)}
<1>1. IsSeq(s)
  BY AllForIs
<1>2. IsSeq(u) /\ \A x : x \in ToSet(u) <=> x \in ToSet(s) /\ x.type \in {"fls", "info"}
  BY <1>1, UsedOfIs DEF UsedFor
<1>3. IsSeq(f) /\ \A x : x \in ToSet(f) <=> x \in ToSet(u) /\ x.type \in {"fls"}
  BY <1>2, UsedOfIs
<1>4. u = Select(s, A) /\ f = Select(u, B)
  BY DEF UsedFor, UsedOf
<1>5. \A x \in ToSet(s) : x \in A \cap (B \cap C) <=> x \in M
  BY <1>2, <1>3
<1>6. FlsMine(o, c) = Select(s, M)
  BY DEF FlsMine
<1>7. Arguments(f, c) = TargetsIn(Select(f, C))
  BY DEF Arguments, TargetsIn
<1> HIDE DEF s, u, f, A, B, C, M
<1>8. Select(f, C) = Select(u, B \cap C)
  BY <1>2, <1>4, SelectTwice
<1> DEFINE D == B \cap C
<1>9. Select(f, C) = Select(u, D)
  BY <1>8
<1>10. \A x \in ToSet(s) : x \in A \cap D <=> x \in M
  BY <1>5
<1> HIDE DEF D
<1>11. Select(u, D) = Select(s, A \cap D)
  BY <1>1, <1>4, SelectTwice
<1> DEFINE E == A \cap D
<1>12. Select(f, C) = Select(s, E)
  BY <1>9, <1>11
<1>13. \A x \in ToSet(s) : x \in E <=> x \in M
  BY <1>10
<1> HIDE DEF E
<1>14. Select(s, E) = Select(s, M)
  BY <1>1, <1>13, SelectSame
<1>15. TargetsIn(Select(f, C)) = TargetsIn(FlsMine(o, c))
  BY <1>6, <1>12, <1>14
<1> QED  BY <1>7, <1>15 DEF f, u

LEMMA FlsOutputDoes ==
  ASSUME FlsState, NEW o
  PROVE  /\ FlsDoes(FlsOutput(o).body, o)
         /\ FlsOutput(o).body.parameters = Parameters(Sourced(UsedFor(o)))
         /\ FlsOutput(o).files = FileList(Sourced(UsedFor(o)))
<1> DEFINE b == FlsOutput(o).body
           fls == UsedOf(UsedFor(o), {"fls"})
           parts == Select(fls, {c \in ToSet(fls) : c.fastboot})
           configs == SetToSeq(DOMAIN conf.configurations)
           P == [i \in DOMAIN parts |-> Entry(parts[i].id, "fastboot_config", parts[i].target)]
           EntryOf(c) == IF c = "fastboot_config" THEN Entry("lock", c, <<>>)
                         ELSE Entry("download", c, Arguments(fls, c))
           Q == [i \in DOMAIN configs |-> EntryOf(configs[i])]
<1>1. ForOutput(o) = AllFor(o) /\ IsSeq(AllFor(o))
  BY AllForIs
<1>2. /\ b.parameters = Parameters(Sourced(UsedFor(o)))
      /\ b.commands = P \o Q
      /\ FlsOutput(o).files = FileList(Sourced(UsedFor(o)))
  BY <1>1 DEF FlsOutput, UsedFor
<1>3. IsSeq(fls)
  BY <1>1, UsedOfIs DEF UsedFor
<1>4. IsSeq(parts)
  BY <1>3, SelectMembers
<1>5. setup \in JsonSetups
  BY DEF FlsState
<1>6. IsFiniteSet(DOMAIN conf.configurations)
  BY <1>5, ConfShape
<1>7. /\ IsSeq(configs) /\ ToSet(configs) = DOMAIN conf.configurations
      /\ \A i, j \in 1..Len(configs) : configs[i] = configs[j] => i = j
  BY <1>6, SetToSeqMembers, SetToSeqOnce
<1> HIDE DEF b, fls, parts, configs, EntryOf
<1>8. IsSeq(P) /\ Len(P) = Len(parts) /\ DOMAIN parts = 1..Len(parts)
  BY <1>4, MadeSeq, SeqShape
<1>9. IsSeq(Q) /\ Len(Q) = Len(configs) /\ DOMAIN configs = 1..Len(configs)
  BY <1>7, MadeSeq, SeqShape
<1>10. \A k \in 1..Len(P) : P[k] = Entry(parts[k].id, "fastboot_config", parts[k].target)
  BY <1>8
<1>11. \A k \in 1..Len(Q) : Q[k] = EntryOf(configs[k])
  BY <1>9
<1> HIDE DEF P, Q
<1>12. \A c : EntryOf(c).restrict = {c}
  BY DEF EntryOf, Entry
<1>18. \A row, c, fs : Entry(row, c, fs).restrict = {c}
  BY DEF Entry
<1>13. \A k \in 1..Len(P) : P[k].restrict = {"fastboot_config"}
  BY <1>10, <1>18
<1>14. \A k \in 1..Len(Q) : Q[k].restrict = {configs[k]}
  BY <1>11, <1>12
<1> DEFINE u == P \o Q
<1>15. /\ IsSeq(u) /\ Len(u) = Len(P) + Len(Q) /\ Len(P) \in Nat /\ Len(Q) \in Nat
       /\ \A k \in 1..(Len(P) + Len(Q)) : u[k] = IF k <= Len(P) THEN P[k] ELSE Q[k - Len(P)]
  BY <1>8, <1>9, CatShape, SeqShape
<1> HIDE DEF u
<1>16. ASSUME NEW c \in FlsConfigs
       PROVE  \E m : MineOf(b, c) = <<m>> /\ m.parameters = Shorts(TargetsIn(FlsMine(o, c)))
  <2> DEFINE S == {x \in ToSet(u) : c \in x.restrict}
  <2>1. c \in DOMAIN conf.configurations /\ c # "fastboot_config"
    BY DEF FlsConfigs
  <2>2. PICK j \in 1..Len(configs) : c = configs[j]
    BY <1>7, <2>1, Members
  <2> DEFINE k == Len(P) + j
             m == Q[j]
  <2>3. k \in 1..Len(u) /\ u[k] = m
    BY <1>9, <1>15, <2>2
  <2>4. \A p \in 1..Len(u) : u[p] \in S => p = k
    <3> SUFFICES ASSUME NEW p \in 1..Len(u), u[p] \in S
                 PROVE  p = k
      OBVIOUS
    <3>1. c \in u[p].restrict
      OBVIOUS
    <3> HIDE DEF S
    <3>2. ~(p <= Len(P))
      BY <1>13, <1>15, <2>1, <3>1
    <3>3. p - Len(P) \in 1..Len(Q) /\ u[p] = Q[p - Len(P)]
      BY <1>15, <3>2
    <3>4. c = configs[p - Len(P)]
      BY <1>14, <3>1, <3>3
    <3>5. p - Len(P) = j
      BY <1>7, <1>9, <2>2, <3>3, <3>4
    <3> QED  BY <1>15, <1>9, <3>5
  <2>5. m.restrict = {c}
    BY <1>9, <1>14, <2>2
  <2>6. u[k] \in S
    <3>1. u[k] \in ToSet(u)
      BY <1>15, <2>3, Members
    <3> QED  BY <2>3, <2>5, <3>1
  <2> HIDE DEF S, k, m
  <2>7. Select(u, S) = <<u[k]>>
    BY <1>15, <2>3, <2>4, <2>6, SelectOnly
  <2>8. MineOf(b, c) = <<m>>
    BY <1>2, <2>3, <2>7 DEF MineOf, S, u
  <2>9. m = Entry("download", c, Arguments(fls, c))
    BY <1>9, <1>11, <2>1, <2>2 DEF EntryOf, m
  <2>10. Arguments(fls, c) = TargetsIn(FlsMine(o, c))
    BY ArgumentsAre DEF fls
  <2>11. m.parameters = Shorts(TargetsIn(FlsMine(o, c)))
    BY <2>9, <2>10 DEF Entry
  <2> QED  BY <2>8, <2>11
<1>17. FlsDoes(b, o)
  BY <1>16 DEF FlsDoes
<1> QED  BY <1>2, <1>17 DEF b

-----------------------------------------------------------------------------
(* What outputs have made when they have been parsed.                      *)

JsonDoes(b) ==
  /\ ShortsMean(b.parameters, FilesNamed)
  /\ \A c \in DOMAIN conf.configurations : DoesNeeds(MineOf(b, c), Needs(c))

ResultDoes(r, o, first) ==
  \/ setup.format = "json" /\ r.kind = "json" /\ JsonDoes(r.body)
  \/ /\ setup.format = "json" /\ r.kind = "cmd" /\ o.kind = "cmd"
     /\ first = "json" => CmdDoes(r.body, o)
  \/ /\ setup.format = "fls" /\ r.kind = "json" /\ FlsDoes(r.body, o)
     /\ NoRestrict => ShortsMean(r.body.parameters, FilesNamed)

OutputDoes(r, first) == \E o \in ToSet(conf.outputs) : o.name = r.name /\ ResultDoes(r, o, first)

HasJson(rs) == \E i \in 1..Len(rs) : rs[i].kind = "json"

CommandsInv ==
  /\ setup.format = "fls" => commands = conf.commands
  /\ setup.format = "json" => /\ GroupsAlike(commands)
                              /\ HasJson(results) => AllListed(commands)

ResultsInv ==
  /\ IsSeq(results)
  /\ \A i \in 1..Len(results) : IsResult(results[i]) /\ OutputDoes(results[i], results[1].kind)

ListInv ==
  /\ IsSeq(files)
  /\ HasJson(results) /\ (setup.format = "fls" => NoRestrict) => ListsAll(files, FilesNamed)

FromFile(t, x, list) == \E f \in ToSet(list) : t = f[2] /\ x = <<f[1], f[2][1], None>>

EntriesInv ==
  /\ pc = "json" => DOMAIN zip = {}
  /\ \A t \in DOMAIN zip : FromFile(t, zip[t], files)
  /\ pc = "images" => \A i \in 1..Len(files) : i < at => files[i][2] \in DOMAIN zip
  /\ pc \in {"done", "iso"} => \A f \in ToSet(files) : f[2] \in DOMAIN zip

RunInv ==
  /\ setup \in JsonSetups /\ ips = <<>> /\ at \in Nat \ {0}
  /\ pc \in {"json", "images", "done", "iso", "failed"}
  /\ pc \in {"images", "done", "iso"} => setup.variants = <<>>

JsonIInv == RunInv /\ CommandsInv /\ ResultsInv /\ ListInv /\ EntriesInv

LEMMA ConfSame ==
  ASSUME setup' = setup
  PROVE  /\ conf' = conf /\ FilesNamed' = FilesNamed /\ (NoRestrict' <=> NoRestrict)
         /\ \A r, first : OutputDoes(r, first)' <=> OutputDoes(r, first)
         /\ \A groups : GroupsAlike(groups)' <=> GroupsAlike(groups)
         /\ \A groups : AllListed(groups)' <=> AllListed(groups)
<1>1. conf' = conf
  BY DEF conf
<1>2. \A c : Passes(c)' <=> Passes(c)
  BY DEF Passes
<1>3. FilesNamed' = FilesNamed
  BY <1>1, <1>2 DEF FilesNamed
<1>4. NoRestrict' <=> NoRestrict
  BY <1>1 DEF NoRestrict
<1>5. \A c : Needs(c)' = Needs(c)
  BY <1>1, <1>2 DEF Needs, NeedsIn
<1>6. \A b : JsonDoes(b)' <=> JsonDoes(b)
  BY <1>1, <1>3, <1>5 DEF JsonDoes
<1>7. \A o : NamedTargets(o)' = NamedTargets(o)
  BY <1>1, <1>2 DEF NamedTargets
<1>8. \A b, o : CmdDoes(b, o)' <=> CmdDoes(b, o)
  BY <1>3, <1>7 DEF CmdDoes
<1>9. \A o, c : FlsMine(o, c)' = FlsMine(o, c)
  BY <1>1 DEF FlsMine, AllFor
<1>10. \A b, o : FlsDoes(b, o)' <=> FlsDoes(b, o)
  BY <1>1, <1>9 DEF FlsDoes, FlsConfigs
<1>11. \A r, o, first : ResultDoes(r, o, first)' <=> ResultDoes(r, o, first)
  BY <1>3, <1>4, <1>6, <1>8, <1>10 DEF ResultDoes
<1>12. \A r, first : OutputDoes(r, first)' <=> OutputDoes(r, first)
  BY <1>1, <1>11 DEF OutputDoes
<1>13. \A groups : GroupsAlike(groups)' <=> GroupsAlike(groups)
  BY <1>1 DEF GroupsAlike
<1>14. \A groups : AllListed(groups)' <=> AllListed(groups)
  BY <1>2 DEF AllListed
<1> QED  BY <1>1, <1>3, <1>4, <1>12, <1>13, <1>14

(* Results that stay, also when their parts have other names.              *)
LEMMA ResultsStay ==
  ASSUME setup' = setup, ResultsInv, IsSeq(results'), Len(results') = Len(results),
         \A i \in 1..Len(results) :
           /\ IsResult(results'[i]) /\ results'[i].name = results[i].name
           /\ results'[i].kind = results[i].kind /\ results'[i].body = results[i].body
  PROVE  ResultsInv' /\ (HasJson(results)' <=> HasJson(results))
<1>1. HasJson(results)' <=> HasJson(results)
  BY DEF HasJson
<1>2. ASSUME NEW i \in 1..Len(results)
      PROVE  OutputDoes(results[i], results[1].kind)'
  <2>1. 1 \in 1..Len(results) /\ results'[1].kind = results[1].kind
    BY SeqShape DEF ResultsInv
  <2>2. PICK o \in ToSet(conf.outputs) : /\ o.name = results[i].name
                                         /\ ResultDoes(results[i], o, results[1].kind)
    BY DEF ResultsInv, OutputDoes
  <2>3. ResultDoes(results'[i], o, results'[1].kind)
    BY <2>1, <2>2 DEF ResultDoes
  <2>4. OutputDoes(results'[i], results'[1].kind)
    BY <2>2, <2>3 DEF OutputDoes
  <2> QED  BY <2>4, ConfSame
<1> QED  BY <1>1, <1>2 DEF ResultsInv

LEMMA OneMoreOutput ==
  ASSUME setup' = setup, ResultsInv, NEW r, IsResult(r), results' = Append(results, r),
         OutputDoes(r, IF Len(results) = 0 THEN r.kind ELSE results[1].kind)
  PROVE  ResultsInv' /\ (HasJson(results)' <=> HasJson(results) \/ r.kind = "json")
<1>1. /\ IsSeq(results) /\ Len(results) \in Nat
      /\ \A i \in 1..Len(results) : IsResult(results[i]) /\ OutputDoes(results[i], results[1].kind)
  BY SeqShape DEF ResultsInv
<1>2. /\ IsSeq(results') /\ Len(results') = Len(results) + 1
      /\ \A i \in 1..Len(results) : results'[i] = results[i]
      /\ results'[Len(results) + 1] = r
  BY <1>1, AppendShape
<1>3. 1..Len(results') = 1..Len(results) \cup {Len(results) + 1}
  BY <1>1, <1>2
<1>4. HasJson(results)' <=> HasJson(results) \/ r.kind = "json"
  <2>1. HasJson(results)' <=> \E i \in 1..Len(results') : results'[i].kind = "json"
    BY DEF HasJson
  <2>2. HasJson(results) <=> \E i \in 1..Len(results) : results'[i].kind = "json"
    BY <1>2 DEF HasJson
  <2> QED  BY <1>2, <1>3, <2>1, <2>2
<1>5. results'[1].kind = IF Len(results) = 0 THEN r.kind ELSE results[1].kind
  BY <1>1, <1>2
<1>6. ASSUME NEW i \in 1..Len(results')
      PROVE  IsResult(results'[i]) /\ OutputDoes(results'[i], results'[1].kind)
  <2>1. CASE i \in 1..Len(results)
    <3>1. results'[1].kind = results[1].kind /\ results'[i] = results[i]
      BY <1>1, <1>2, <1>5, <2>1
    <3> QED  BY <1>1, <2>1, <3>1
  <2>2. CASE i = Len(results) + 1
    BY <1>2, <1>5, <2>2
  <2> QED  BY <1>3, <2>1, <2>2
<1>7. \A i \in 1..Len(results') : OutputDoes(results[i], results[1].kind)'
  <2> TAKE i \in 1..Len(results')
  <2>1. OutputDoes(results'[i], results'[1].kind)
    BY <1>6
  <2> QED  BY <2>1, ConfSame
<1> QED  BY <1>2, <1>4, <1>6, <1>7 DEF ResultsInv

LEMMA ResultIsOne ==
  ASSUME NEW o, NEW kind \in {"json", "cmd"}, NEW body
  PROVE  LET r == Result(o, kind, body)
         IN  IsResult(r) /\ r.name = o.name /\ r.kind = kind /\ r.body = body
BY DEF Result, IsResult

(* What one turn makes.                                                    *)
LEMMA JsonTurn ==
  ASSUME JsonState
  PROVE  JsonDoes(JsonOutput.body) /\ ListsAll(JsonOutput.files, FilesNamed)
<1> DEFINE s == Sourced(NamedOf)
<1>1. IsSeq(s) /\ ToSet(s) = FilesNamed
  BY JsonSourced
<1>2. JsonOutput.body.parameters = Parameters(s) /\ JsonOutput.files = FileList(s)
  BY JsonOutputIs
<1> HIDE DEF s
<1>3. ShortsMean(Parameters(s), ToSet(s)) /\ ListsAll(FileList(s), ToSet(s))
  BY <1>1, SourcedMeans
<1>4. ShortsMean(JsonOutput.body.parameters, FilesNamed) /\ ListsAll(JsonOutput.files, FilesNamed)
  BY <1>1, <1>2, <1>3
<1> QED  BY <1>4, ConfigurationDoes DEF JsonDoes

LEMMA FlsTurn ==
  ASSUME FlsState, NEW o
  PROVE  /\ FlsDoes(FlsOutput(o).body, o) /\ IsSeq(FlsOutput(o).files)
         /\ NoRestrict => /\ ShortsMean(FlsOutput(o).body.parameters, FilesNamed)
                          /\ ListsAll(FlsOutput(o).files, FilesNamed)
<1> DEFINE s == Sourced(UsedFor(o))
<1>1. /\ IsSeq(AllFor(o)) /\ ToSet(AllFor(o)) \subseteq ToSet(conf.commands)
      /\ \A c \in ToSet(conf.commands) : IsSeq(c.target)
  BY AllForIs
<1>2. IsSeq(UsedFor(o)) /\ \A c \in ToSet(UsedFor(o)) : c \in ToSet(AllFor(o))
  BY <1>1, UsedOfIs DEF UsedFor
<1>3. IsSeq(s)
  BY <1>1, <1>2, SourcedIs
<1>4. NoRestrict => ToSet(s) = FilesNamed
  BY FlsSourced
<1>5. /\ FlsDoes(FlsOutput(o).body, o)
      /\ FlsOutput(o).body.parameters = Parameters(s)
      /\ FlsOutput(o).files = FileList(s)
  BY FlsOutputDoes
<1> HIDE DEF s
<1>6. ShortsMean(Parameters(s), ToSet(s)) /\ ListsAll(FileList(s), ToSet(s))
  BY <1>3, SourcedMeans
<1>7. IsSeq(FileList(s))
  BY <1>6 DEF ListsAll
<1> QED  BY <1>4, <1>5, <1>6, <1>7

LEMMA ParseJsonStep ==
  ASSUME JsonIInv, ParseJsonOutput
  PROVE  JsonIInv'
<1> DEFINE o == conf.outputs[at]
<1>1. /\ setup \in JsonSetups /\ ips = <<>> /\ at \in Nat \ {0} /\ pc = "json"
      /\ CommandsInv /\ ResultsInv /\ ListInv /\ DOMAIN zip = {}
  BY DEF JsonIInv, RunInv, EntriesInv, ParseJsonOutput
<1>2. /\ at <= Len(conf.outputs) /\ ~JsonOutputFails(o)
      /\ at' = at + 1 /\ setup' = setup /\ pc' = pc /\ ips' = ips /\ zip' = zip
  BY DEF ParseJsonOutput
<1>3. o \in ToSet(conf.outputs) /\ o.kind \in {"json", "cmd", "xml"}
  <2>1. IsSeq(conf.outputs) /\ Len(conf.outputs) \in Nat
    BY <1>1, ConfShape, SeqShape
  <2>2. at \in 1..Len(conf.outputs)
    BY <1>1, <1>2, <2>1
  <2>3. o \in ToSet(conf.outputs)
    BY <2>1, <2>2, Members
  <2> QED  BY <1>1, <2>3, ConfShape
<1>4. setup.format \in {"json", "fls"}
  BY <1>1, ConfShape
<1>5. IF o.kind = "json"
      THEN LET made == IF setup.format = "fls" THEN FlsOutput(o) ELSE JsonOutput
           IN  /\ results' = Append(results, Result(o, "json", made.body))
               /\ files' = made.files
               /\ commands' = IF setup.format = "fls" THEN commands ELSE WithLists(commands)
      ELSE /\ results' = IF setup.format = "fls" THEN results
                         ELSE Append(results, Result(o, "cmd", CmdOutput(o)))
           /\ UNCHANGED <<files, commands>>
  BY DEF ParseJsonOutput
<1>6. o.kind = "xml" => setup.format = "fls"
  BY <1>2, <1>4 DEF JsonOutputFails
<1> HIDE DEF o
<1>7. RunInv' /\ EntriesInv'
  <2>1. RunInv'
    BY <1>1, <1>2 DEF RunInv
  <2>2. EntriesInv'
    BY <1>1, <1>2 DEF EntriesInv
  <2> QED  BY <2>1, <2>2
<1>8. CASE setup.format = "json" /\ o.kind = "json"
  <2> DEFINE body == JsonOutput.body
             r == Result(o, "json", body)
  <2>1. JsonState
    BY <1>1, <1>8 DEF JsonState, CommandsInv
  <2>2. JsonDoes(body) /\ ListsAll(JsonOutput.files, FilesNamed)
    BY <2>1, JsonTurn
  <2>3. results' = Append(results, r) /\ files' = JsonOutput.files /\ commands' = WithLists(commands)
    BY <1>5, <1>8
  <2> HIDE DEF body
  <2>4. IsResult(r) /\ r.name = o.name /\ r.kind = "json" /\ r.body = body
    BY ResultIsOne
  <2> HIDE DEF r
  <2>5. \A first : OutputDoes(r, first)
    BY <1>3, <1>8, <2>2, <2>4 DEF OutputDoes, ResultDoes
  <2>6. ResultsInv' /\ HasJson(results)'
    BY <1>1, <1>2, <2>3, <2>4, <2>5, OneMoreOutput
  <2>7. ListInv'
    <3>1. ListsAll(files', FilesNamed')
      BY <1>2, <2>2, <2>3, ConfSame
    <3>2. IsSeq(files')
      BY <3>1 DEF ListsAll
    <3> QED  BY <3>1, <3>2 DEF ListInv
  <2>8. CommandsInv'
    <3>1. GroupsAlike(commands') /\ AllListed(commands')
      BY <2>1, <2>3, WithListsAre
    <3>2. GroupsAlike(commands)' /\ AllListed(commands)'
      BY <1>2, <3>1, ConfSame
    <3>3. setup'.format = "json"
      BY <1>2, <1>8
    <3> QED  BY <3>2, <3>3 DEF CommandsInv
  <2> QED  BY <1>7, <2>6, <2>7, <2>8 DEF JsonIInv
<1>9. CASE setup.format = "json" /\ o.kind # "json"
  <2> DEFINE body == CmdOutput(o)
             r == Result(o, "cmd", body)
  <2>1. JsonState
    BY <1>1, <1>9 DEF JsonState, CommandsInv
  <2>2. o.kind = "cmd"
    BY <1>3, <1>6, <1>9
  <2>3. o.commands \in DOMAIN conf.commands
    BY <1>1, <1>3, <1>9, <2>2, ConfShape
  <2>4. results' = Append(results, r) /\ files' = files /\ commands' = commands
    BY <1>5, <1>9
  <2>5. HasJson(results) => CmdDoes(body, o)
    BY <1>1, <1>9, <2>1, <2>3, CmdOutputDoes DEF CommandsInv
  <2> HIDE DEF body
  <2>6. IsResult(r) /\ r.name = o.name /\ r.kind = "cmd" /\ r.body = body
    BY ResultIsOne
  <2> HIDE DEF r
  <2> DEFINE first == IF Len(results) = 0 THEN r.kind ELSE results[1].kind
  <2>7. first = "json" => HasJson(results)
    <3>1. Len(results) \in Nat
      BY <1>1, SeqShape DEF ResultsInv
    <3> QED  BY <2>6, <3>1 DEF HasJson
  <2> HIDE DEF first
  <2>8. OutputDoes(r, first)
    BY <1>3, <1>9, <2>2, <2>5, <2>6, <2>7 DEF OutputDoes, ResultDoes
  <2>9. OutputDoes(r, IF Len(results) = 0 THEN r.kind ELSE results[1].kind)
    BY <2>8 DEF first
  <2>10. ResultsInv' /\ (HasJson(results)' <=> HasJson(results))
    BY <1>1, <1>2, <2>4, <2>6, <2>9, OneMoreOutput
  <2>11. ListInv'
    BY <1>1, <1>2, <2>4, <2>10, ConfSame DEF ListInv
  <2>12. CommandsInv'
    <3>1. GroupsAlike(commands') /\ (HasJson(results)' => AllListed(commands'))
      BY <1>1, <1>9, <2>4, <2>10 DEF CommandsInv
    <3>2. GroupsAlike(commands)' /\ (HasJson(results)' => AllListed(commands)')
      BY <1>2, <3>1, ConfSame
    <3>3. setup'.format = "json"
      BY <1>2, <1>9
    <3> QED  BY <3>2, <3>3 DEF CommandsInv
  <2> QED  BY <1>7, <2>10, <2>11, <2>12 DEF JsonIInv
<1>10. CASE setup.format = "fls" /\ o.kind = "json"
  <2> DEFINE body == FlsOutput(o).body
             r == Result(o, "json", body)
  <2>1. FlsState
    BY <1>1, <1>10 DEF FlsState, CommandsInv
  <2>2. /\ FlsDoes(body, o) /\ IsSeq(FlsOutput(o).files)
        /\ NoRestrict => /\ ShortsMean(body.parameters, FilesNamed)
                         /\ ListsAll(FlsOutput(o).files, FilesNamed)
    BY <2>1, FlsTurn
  <2>3. results' = Append(results, r) /\ files' = FlsOutput(o).files /\ commands' = commands
    BY <1>5, <1>10
  <2> HIDE DEF body
  <2>4. IsResult(r) /\ r.name = o.name /\ r.kind = "json" /\ r.body = body
    BY ResultIsOne
  <2> HIDE DEF r
  <2>5. \A first : OutputDoes(r, first)
    BY <1>3, <1>10, <2>2, <2>4 DEF OutputDoes, ResultDoes
  <2>6. ResultsInv'
    BY <1>1, <1>2, <2>3, <2>4, <2>5, OneMoreOutput
  <2>7. ListInv'
    <3>1. setup'.format = "fls" /\ (NoRestrict' <=> NoRestrict) /\ FilesNamed' = FilesNamed
      BY <1>2, <1>10, ConfSame
    <3> QED  BY <2>2, <2>3, <3>1 DEF ListInv
  <2>8. CommandsInv'
    <3>1. setup'.format = "fls" /\ conf' = conf
      BY <1>2, <1>10, ConfSame
    <3> QED  BY <1>1, <1>10, <2>3, <3>1 DEF CommandsInv
  <2> QED  BY <1>7, <2>6, <2>7, <2>8 DEF JsonIInv
<1>11. CASE setup.format = "fls" /\ o.kind # "json"
  <2>1. results' = results /\ files' = files /\ commands' = commands
    BY <1>5, <1>11
  <2>2. IsSeq(results) /\ \A i \in 1..Len(results) : IsResult(results[i])
    BY <1>1 DEF ResultsInv
  <2>3. ResultsInv' /\ (HasJson(results)' <=> HasJson(results))
    BY <1>1, <1>2, <2>1, <2>2, ResultsStay
  <2>4. setup'.format = "fls" /\ conf' = conf /\ (NoRestrict' <=> NoRestrict) /\ FilesNamed' = FilesNamed
    BY <1>2, <1>11, ConfSame
  <2>5. ListInv'
    BY <1>1, <1>11, <2>1, <2>3, <2>4 DEF ListInv
  <2>6. CommandsInv'
    BY <1>1, <1>11, <2>1, <2>4 DEF CommandsInv
  <2> QED  BY <1>7, <2>3, <2>5, <2>6 DEF JsonIInv
<1> QED  BY <1>4, <1>8, <1>9, <1>10, <1>11

-----------------------------------------------------------------------------
(* The other steps: images for the files that are listed.                  *)

LEMMA JobsOfFiles ==
  ASSUME IsSeq(files), setup.variants = <<>>
  PROVE  /\ IsSeq(Jobs) /\ Len(Jobs) = Len(files) /\ Len(files) \in Nat
         /\ \A i \in 1..Len(files) : Jobs[i] = Job(files[i][1], files[i][2][1], None, files[i][2])
<1> DEFINE z == [i \in DOMAIN files |-> Job(files[i][1], files[i][2][1], None, files[i][2])]
<1>1. Jobs = z
  BY DEF Jobs
<1>2. IsSeq(z) /\ Len(z) = Len(files)
  BY MadeSeq
<1>3. DOMAIN files = 1..Len(files) /\ Len(files) \in Nat
  BY SeqShape
<1> QED  BY <1>1, <1>2, <1>3

LEMMA OutputsStay ==
  ASSUME setup' = setup, commands' = commands, files' = files,
         CommandsInv, ResultsInv, ListInv, IsSeq(results'), Len(results') = Len(results),
         \A i \in 1..Len(results) :
           /\ IsResult(results'[i]) /\ results'[i].name = results[i].name
           /\ results'[i].kind = results[i].kind /\ results'[i].body = results[i].body
  PROVE  CommandsInv' /\ ResultsInv' /\ ListInv'
<1>1. ResultsInv' /\ (HasJson(results)' <=> HasJson(results))
  BY ResultsStay
<1>2. conf' = conf /\ (NoRestrict' <=> NoRestrict) /\ FilesNamed' = FilesNamed
  BY ConfSame
<1>3. ListInv'
  BY <1>1, <1>2 DEF ListInv
<1>4. CommandsInv'
  <2>1. CASE setup.format = "json"
    <3>1. GroupsAlike(commands') /\ (HasJson(results)' => AllListed(commands'))
      BY <1>1, <2>1 DEF CommandsInv
    <3>2. GroupsAlike(commands)' /\ (HasJson(results)' => AllListed(commands)')
      BY <3>1, ConfSame
    <3>3. setup'.format = "json"
      BY <2>1
    <3> QED  BY <3>2, <3>3 DEF CommandsInv
  <2>2. CASE setup.format = "fls"
    <3>1. setup'.format = "fls"
      BY <2>2
    <3> QED  BY <1>2, <2>2, <3>1 DEF CommandsInv
  <2>3. CASE setup.format \notin {"json", "fls"}
    <3>1. setup'.format \notin {"json", "fls"}
      BY <2>3
    <3> QED  BY <3>1 DEF CommandsInv
  <2> QED  BY <2>1, <2>2, <2>3
<1> QED  BY <1>1, <1>3, <1>4

LEMMA UnchangedStay ==
  ASSUME setup' = setup, commands' = commands, files' = files, results' = results,
         CommandsInv, ResultsInv, ListInv
  PROVE  CommandsInv' /\ ResultsInv' /\ ListInv'
<1>1. IsSeq(results) /\ \A i \in 1..Len(results) : IsResult(results[i])
  BY DEF ResultsInv
<1> QED  BY <1>1, OutputsStay

LEMMA ImageStep ==
  ASSUME JsonIInv, ProcessImage, commands' = commands
  PROVE  JsonIInv'
<1> DEFINE job == Jobs[at]
           x == Content(job.source, job.file, job.variant)
<1>1. /\ setup \in JsonSetups /\ ips = <<>> /\ at \in Nat \ {0} /\ pc = "images"
      /\ setup.variants = <<>> /\ CommandsInv /\ ResultsInv /\ ListInv
      /\ \A t \in DOMAIN zip : FromFile(t, zip[t], files)
      /\ \A i \in 1..Len(files) : i < at => files[i][2] \in DOMAIN zip
  BY DEF JsonIInv, RunInv, EntriesInv, ProcessImage
<1>2. /\ at <= Len(Jobs) /\ at' = at + 1 /\ setup' = setup /\ pc' = pc /\ ips' = ips /\ files' = files
      /\ \/ job.target \in DOMAIN zip /\ zip' = zip /\ results' = results
         \/ /\ job.target \notin DOMAIN zip
            /\ Big(job.file) => Len(results) >= 2
            /\ zip' = Over(zip, [t \in {job.target} |-> x])
            /\ results' = WithParts(job.target, job.file)
  BY DEF ProcessImage
<1>3. /\ IsSeq(files) /\ IsSeq(results) /\ \A i \in 1..Len(results) : IsResult(results[i])
  BY <1>1 DEF ListInv, ResultsInv
<1>4. /\ Len(Jobs) = Len(files) /\ Len(files) \in Nat
      /\ \A i \in 1..Len(files) : Jobs[i] = Job(files[i][1], files[i][2][1], None, files[i][2])
  BY <1>1, <1>3, JobsOfFiles
<1>5. at \in 1..Len(files)
  BY <1>1, <1>2, <1>4
<1>6. job = Job(files[at][1], files[at][2][1], None, files[at][2])
  BY <1>4, <1>5
<1> DEFINE t0 == files[at][2]
<1>7. job.target = t0 /\ x = <<files[at][1], files[at][2][1], None>>
  BY <1>6 DEF Job, Content
<1>8. files[at] \in ToSet(files)
  BY <1>3, <1>5, Members
<1>9. FromFile(t0, x, files)
  BY <1>7, <1>8 DEF FromFile
<1> HIDE DEF job, x, t0
<1>10. /\ t0 \in DOMAIN zip' /\ \A t \in DOMAIN zip : t \in DOMAIN zip'
       /\ \A t \in DOMAIN zip' : FromFile(t, zip'[t], files)
       /\ CommandsInv' /\ ResultsInv' /\ ListInv'
  <2>2. CASE job.target \in DOMAIN zip /\ zip' = zip /\ results' = results
    <3>1. CommandsInv' /\ ResultsInv' /\ ListInv'
      BY <1>1, <1>2, <2>2, UnchangedStay
    <3> QED  BY <1>1, <1>7, <2>2, <3>1
  <2>3. CASE /\ job.target \notin DOMAIN zip
             /\ Big(job.file) => Len(results) >= 2
             /\ zip' = Over(zip, [t \in {job.target} |-> x])
             /\ results' = WithParts(job.target, job.file)
    <3> DEFINE g == [t \in {job.target} |-> x]
    <3>1. DOMAIN g = {t0} /\ g[t0] = x
      BY <1>7
    <3>2. zip' = Over(zip, g)
      BY <2>3
    <3> HIDE DEF g
    <3>3. /\ DOMAIN zip' = DOMAIN zip \cup {t0}
          /\ \A t \in DOMAIN zip : zip'[t] = zip[t]
          /\ zip'[t0] = x
      <4> DEFINE z == Over(zip, g)
      <4>3. /\ DOMAIN z = DOMAIN zip \cup DOMAIN g
            /\ \A t \in DOMAIN zip : z[t] = zip[t]
            /\ \A t \in DOMAIN g \ DOMAIN zip : z[t] = g[t]
        BY OverIs
      <4> HIDE DEF z
      <4>4. zip' = z
        BY <3>2 DEF z
      <4>1. /\ DOMAIN zip' = DOMAIN zip \cup DOMAIN g
            /\ \A t \in DOMAIN zip : zip'[t] = zip[t]
            /\ \A t \in DOMAIN g \ DOMAIN zip : zip'[t] = g[t]
        BY <4>3, <4>4
      <4>2. t0 \notin DOMAIN zip
        BY <1>7, <2>3
      <4> QED  BY <3>1, <4>1, <4>2
    <3>4. \A t \in DOMAIN zip' : FromFile(t, zip'[t], files)
      BY <1>1, <1>9, <3>3
    <3>5. /\ IsSeq(results') /\ Len(results') = Len(results)
          /\ \A i \in 1..Len(results) :
               /\ IsResult(results'[i]) /\ results'[i].name = results[i].name
               /\ results'[i].kind = results[i].kind /\ results'[i].body = results[i].body
      BY <1>3, <2>3, PartsAre
    <3>6. CommandsInv' /\ ResultsInv' /\ ListInv'
      BY <1>1, <1>2, <3>5, OutputsStay
    <3> QED  BY <3>3, <3>4, <3>6
  <2> QED  BY <1>2, <2>2, <2>3
<1>11. RunInv'
  BY <1>1, <1>2 DEF RunInv
<1>12. \A i \in 1..Len(files) : i < at + 1 => files[i][2] \in DOMAIN zip'
  <2> SUFFICES ASSUME NEW i \in 1..Len(files), i < at + 1
               PROVE  files[i][2] \in DOMAIN zip'
    OBVIOUS
  <2>1. i = at \/ i < at
    BY <1>1
  <2> QED  BY <1>1, <1>10, <2>1 DEF t0
<1>13. EntriesInv'
  <2>1. \A t \in DOMAIN zip' : FromFile(t, zip'[t], files')
    BY <1>2, <1>10
  <2> QED  BY <1>1, <1>2, <1>12, <2>1 DEF EntriesInv
<1> QED  BY <1>10, <1>11, <1>13 DEF JsonIInv

LEMMA RestStep ==
  ASSUME JsonIInv,
         \/ UNCHANGED flashVars
         \/ ImageFails \/ WriteResults \/ MakeIso \/ JsonFails \/ JsonParsed,
         commands' = commands
  PROVE  JsonIInv'
<1>1. RunInv /\ CommandsInv /\ ResultsInv /\ ListInv /\ EntriesInv
  BY DEF JsonIInv
<1>2. setup' = setup /\ ips' = ips /\ files' = files /\ results' = results /\ zip' = zip
  BY DEF flashVars, ImageFails, WriteResults, MakeIso, JsonFails, JsonParsed
<1>3. CommandsInv' /\ ResultsInv' /\ ListInv'
  BY <1>1, <1>2, UnchangedStay
<1>5. \A t \in DOMAIN zip' : FromFile(t, zip'[t], files')
  BY <1>1, <1>2 DEF EntriesInv
<1>6. CASE UNCHANGED flashVars
  <2>1. pc' = pc /\ at' = at
    BY <1>6 DEF flashVars
  <2>2. RunInv' /\ EntriesInv'
    BY <1>1, <1>2, <1>5, <2>1 DEF RunInv, EntriesInv
  <2> QED  BY <1>3, <2>2 DEF JsonIInv
<1>7. CASE ImageFails \/ JsonFails
  <2>1. pc' = "failed" /\ at' = at
    BY <1>7 DEF ImageFails, JsonFails
  <2>2. RunInv' /\ EntriesInv'
    BY <1>1, <1>2, <1>5, <2>1 DEF RunInv, EntriesInv
  <2> QED  BY <1>3, <2>2 DEF JsonIInv
<1>8. CASE WriteResults
  <2>1. pc = "images" /\ at > Len(Jobs) /\ pc' = "done" /\ at' = at
    BY <1>8 DEF WriteResults
  <2>2. setup.variants = <<>> /\ at \in Nat
    BY <1>1, <2>1 DEF RunInv
  <2>3. IsSeq(files)
    BY <1>1 DEF ListInv
  <2>4. Len(Jobs) = Len(files) /\ Len(files) \in Nat
    BY <2>2, <2>3, JobsOfFiles
  <2>5. \A f \in ToSet(files) : f[2] \in DOMAIN zip
    <3> TAKE f \in ToSet(files)
    <3>1. PICK i \in 1..Len(files) : f = files[i]
      BY <2>3, Members
    <3>2. i < at
      BY <2>1, <2>2, <2>4
    <3> QED  BY <1>1, <2>1, <3>1, <3>2 DEF EntriesInv
  <2>6. RunInv' /\ EntriesInv'
    BY <1>1, <1>2, <1>5, <2>1, <2>2, <2>5 DEF RunInv, EntriesInv
  <2> QED  BY <1>3, <2>6 DEF JsonIInv
<1>9. CASE MakeIso
  <2>1. pc = "done" /\ pc' = "iso" /\ at' = at
    BY <1>9 DEF MakeIso
  <2>2. RunInv' /\ EntriesInv'
    BY <1>1, <1>2, <1>5, <2>1 DEF RunInv, EntriesInv
  <2> QED  BY <1>3, <2>2 DEF JsonIInv
<1>10. CASE JsonParsed
  <2>1. pc = "json" /\ setup.variants = <<>> /\ pc' = "images" /\ at' = 1
    BY <1>10 DEF JsonParsed
  <2>2. RunInv'
    BY <1>1, <1>2, <2>1 DEF RunInv
  <2>3. \A i \in 1..Len(files) : ~(i < 1)
    OBVIOUS
  <2>4. EntriesInv'
    BY <1>2, <1>5, <2>1, <2>3 DEF EntriesInv
  <2> QED  BY <1>3, <2>2, <2>4 DEF JsonIInv
<1> QED  BY <1>6, <1>7, <1>8, <1>9, <1>10

LEMMA JsonStart ==
  ASSUME JsonInit
  PROVE  JsonIInv
<1>1. /\ setup \in JsonSetups /\ pc = "json" /\ at = 1 /\ ips = <<>>
      /\ results = <<>> /\ files = <<>> /\ zip = [t \in {} |-> None] /\ commands = conf.commands
  BY DEF JsonInit, conf
<1>2. RunInv
  BY <1>1 DEF RunInv
<1>3. IsSeq(<<>>) /\ Len(<<>>) = 0 /\ 1..0 = {}
  BY NoSeq
<1>4. ~HasJson(results)
  BY <1>1, <1>3 DEF HasJson
<1>5. ResultsInv /\ ListInv
  BY <1>1, <1>3, <1>4 DEF ResultsInv, ListInv
<1>6. DOMAIN zip = {}
  BY <1>1
<1>7. EntriesInv
  BY <1>1, <1>6 DEF EntriesInv
<1>8. setup.format = "json" => GroupsAlike(commands)
  <2> SUFFICES ASSUME setup.format = "json"
               PROVE  GroupsAlike(commands)
    OBVIOUS
  <2>1. \A g \in DOMAIN conf.commands : IsCommands(conf.commands[g])
    BY <1>1, ConfShape
  <2>2. \A x : Alike(x, x)
    BY DEF Alike
  <2>3. \A g \in DOMAIN conf.commands : IsSeq(conf.commands[g])
    BY <2>1, CommandsShape
  <2>4. \A g \in DOMAIN conf.commands : AlikeSeqs(conf.commands[g], conf.commands[g])
    BY <2>2, <2>3 DEF AlikeSeqs
  <2> QED  BY <1>1, <2>4 DEF GroupsAlike
<1>9. CommandsInv
  BY <1>1, <1>4, <1>8 DEF CommandsInv
<1> QED  BY <1>2, <1>5, <1>7, <1>9 DEF JsonIInv

-----------------------------------------------------------------------------
(* At the end, with unique short names.                                    *)

LEMMA OneFile ==
  ASSUME setup \in JsonSetups, ShortsUnique
  PROVE  \A x, y \in FilesNamed : Short[x[2]] = Short[y[2]] => x = y
<1>1. ASSUME NEW x \in FilesNamed
      PROVE  /\ x = <<x[1], x[2]>>
             /\ \E d \in AllCommands : x[1] = d.source /\ x[2] \in ToSet(d.target)
  <2>1. x \in Sources \X Files
    BY DEF FilesNamed
  <2>2. CASE setup.format = "json"
    <3>1. PICK g \in DOMAIN conf.commands : \E c \in ToSet(conf.commands[g]) :
            Passes(c) /\ IsNamed(c) /\ \E f \in ToSet(c.target) : x = <<c.source, f>>
      BY <2>2 DEF FilesNamed
    <3>2. PICK c \in ToSet(conf.commands[g]) : \E f \in ToSet(c.target) : x = <<c.source, f>>
      BY <3>1
    <3>3. c \in AllCommands
      BY <2>2 DEF AllCommands
    <3> QED  BY <2>1, <3>2, <3>3
  <2>3. CASE setup.format # "json"
    <3>1. PICK c \in ToSet(conf.commands) : \E f \in ToSet(c.target) : x = <<c.source, f>>
      BY <2>3 DEF FilesNamed
    <3>2. setup.format = "fls"
      BY <2>3, ConfShape
    <3>3. c \in AllCommands
      BY <3>2 DEF AllCommands
    <3> QED  BY <2>1, <3>1, <3>3
  <2> QED  BY <2>2, <2>3
<1> SUFFICES ASSUME NEW x \in FilesNamed, NEW y \in FilesNamed, Short[x[2]] = Short[y[2]]
             PROVE  x = y
  OBVIOUS
<1>2. PICK d \in AllCommands : x[1] = d.source /\ x[2] \in ToSet(d.target)
  BY <1>1
<1>3. PICK e \in AllCommands : y[1] = e.source /\ y[2] \in ToSet(e.target)
  BY <1>1
<1>4. x[2] = y[2] /\ d.source = e.source
  BY <1>2, <1>3 DEF ShortsUnique
<1> QED  BY <1>1, <1>2, <1>3, <1>4

Filled ==
  \A x \in FilesNamed : /\ <<x[2], None>> \in DOMAIN zip
                        /\ zip[<<x[2], None>>] = Content(x[1], x[2], None)

Means(p) == \A x \in FilesNamed : Short[x[2]] \in DOMAIN p /\ p[Short[x[2]]] = x[2]

LEMMA AllFilled ==
  ASSUME JsonIInv, pc \in {"done", "iso"}, ShortsUnique, HasJson(results),
         setup.format = "fls" => NoRestrict
  PROVE  Filled
<1>1. ListsAll(files, FilesNamed) /\ setup \in JsonSetups
  BY DEF JsonIInv, ListInv, RunInv
<1>2. /\ \A t \in DOMAIN zip : FromFile(t, zip[t], files)
      /\ \A f \in ToSet(files) : f[2] \in DOMAIN zip
  BY DEF JsonIInv, EntriesInv
<1>3. \A x, y \in FilesNamed : Short[x[2]] = Short[y[2]] => x = y
  BY <1>1, OneFile
<1>4. ASSUME NEW x \in FilesNamed
      PROVE  /\ <<x[2], None>> \in DOMAIN zip
             /\ zip[<<x[2], None>>] = Content(x[1], x[2], None)
  <2> DEFINE t == <<x[2], None>>
  <2>1. t \in DOMAIN zip
    BY <1>1, <1>2 DEF ListsAll
  <2>2. PICK f \in ToSet(files) : t = f[2] /\ zip[t] = <<f[1], f[2][1], None>>
    BY <1>2, <2>1 DEF FromFile
  <2>3. PICK y \in FilesNamed : f = <<y[1], <<y[2], None>>>>
    BY <1>1 DEF ListsAll
  <2>4. f[1] = y[1] /\ f[2] = <<y[2], None>> /\ f[2][1] = y[2]
    BY <2>3
  <2>5. y[2] = x[2]
    BY <2>2, <2>4
  <2>6. y = x
    BY <1>3, <2>5
  <2>7. zip[t] = <<x[1], x[2], None>>
    BY <2>2, <2>4, <2>6
  <2> QED  BY <2>1, <2>7 DEF Content
<1> QED  BY <1>4 DEF Filled

LEMMA AllMean ==
  ASSUME setup \in JsonSetups, ShortsUnique, NEW p, ShortsMean(p, FilesNamed)
  PROVE  Means(p)
<1>1. \A x, y \in FilesNamed : Short[x[2]] = Short[y[2]] => x = y
  BY OneFile
<1>2. ASSUME NEW y \in FilesNamed
      PROVE  Short[y[2]] \in DOMAIN p /\ p[Short[y[2]]] = y[2]
  <2>1. Short[y[2]] \in DOMAIN p
    BY DEF ShortsMean
  <2>2. PICK x \in FilesNamed : Short[x[2]] = Short[y[2]] /\ p[Short[y[2]]] = x[2]
    BY DEF ShortsMean
  <2> QED  BY <1>1, <2>1, <2>2
<1> QED  BY <1>2 DEF Means

(* What parameters stand for.                                              *)
ContentOf(json, s) ==
  LET t == <<json.parameters[s], None>> IN IF t \in DOMAIN zip THEN zip[t] ELSE None

ContentsOf(json, ps) == [j \in DOMAIN ps |-> ContentOf(json, ps[j])]

LEMMA FlashesIs ==
  ASSUME NEW b, NEW c
  PROVE  Flashes(b, c) = [i \in DOMAIN MineOf(b, c) |-> ContentsOf(b, MineOf(b, c)[i].parameters)]
BY DEF Flashes, MineOf, ContentsOf, ContentOf

LEMMA ContentIs ==
  ASSUME Filled, NEW b, Means(b.parameters), NEW x \in FilesNamed
  PROVE  ContentOf(b, Short[x[2]]) = Content(x[1], x[2], None)
<1>1. b.parameters[Short[x[2]]] = x[2]
  BY DEF Means
<1>2. <<x[2], None>> \in DOMAIN zip /\ zip[<<x[2], None>>] = Content(x[1], x[2], None)
  BY DEF Filled
<1> QED  BY <1>1, <1>2 DEF ContentOf

(* Short names of files, and what they stand for.                          *)
LEMMA ShortsStand ==
  ASSUME Filled, NEW b, Means(b.parameters), NEW fs, IsSeq(fs), NEW q, IsSeq(q), Len(q) = Len(fs),
         \A j \in 1..Len(fs) : \E x \in FilesNamed : fs[j] = x[2] /\ q[j] = Content(x[1], x[2], None)
  PROVE  ContentsOf(b, Shorts(fs)) = q
<1> DEFINE p == Shorts(fs)
           r == ContentsOf(b, p)
<1>1. DOMAIN fs = 1..Len(fs)
  BY SeqShape
<1>2. /\ DOMAIN p = DOMAIN fs /\ p = [i \in DOMAIN fs |-> p[i]]
      /\ \A i \in DOMAIN fs : p[i] = Short[fs[i]]
  BY DEF Shorts
<1>3. /\ DOMAIN r = DOMAIN p /\ r = [i \in DOMAIN p |-> r[i]]
      /\ \A i \in DOMAIN p : r[i] = ContentOf(b, p[i])
  BY DEF ContentsOf
<1> HIDE DEF p, r
<1>4. IsSeq(r) /\ Len(r) = Len(fs)
  BY <1>2, <1>3, MadeSeq
<1>5. \A j \in 1..Len(r) : r[j] = q[j]
  <2> SUFFICES ASSUME NEW j \in 1..Len(fs)
               PROVE  r[j] = q[j]
    BY <1>4
  <2>1. PICK x \in FilesNamed : fs[j] = x[2] /\ q[j] = Content(x[1], x[2], None)
    OBVIOUS
  <2>2. r[j] = ContentOf(b, Short[x[2]])
    BY <1>1, <1>2, <1>3, <2>1
  <2> QED  BY <2>1, <2>2, ContentIs
<1>6. r = q
  BY <1>4, <1>5, SeqSame
<1> QED  BY <1>6 DEF r, p

LEMMA NothingStands ==
  ASSUME NEW b
  PROVE  ContentsOf(b, <<>>) = <<>>
<1> DEFINE r == ContentsOf(b, <<>>)
<1>1. IsSeq(<<>>) /\ Len(<<>>) = 0 /\ DOMAIN <<>> = {}
  BY EmptyIsSeq
<1>2. DOMAIN r = DOMAIN <<>> /\ r = [i \in DOMAIN <<>> |-> r[i]]
  BY DEF ContentsOf
<1> HIDE DEF r
<1>3. IsSeq(r) /\ Len(r) = 0
  BY <1>1, <1>2, MadeSeq
<1>4. r = <<>>
  BY <1>1, <1>3, SeqSame
<1> QED  BY <1>4 DEF r

MeansOf(cmd) ==
  IF ~IsNamed(cmd) \/ cmd.type \notin {"fastboot", "dldr"} THEN <<>>
  ELSE Contents(cmd, InArguments(cmd))

LEMMA MeantIs ==
  ASSUME NEW c
  PROVE  MeantByJson(c) = [i \in DOMAIN Needs(c) |-> MeansOf(Needs(c)[i])]
BY DEF MeantByJson, Needs, NeedsIn, MeansOf, InArguments

LEMMA ContentsIs ==
  ASSUME NEW cmd, NEW fs, IsSeq(fs)
  PROVE  LET q == Contents(cmd, fs)
         IN  /\ IsSeq(q) /\ Len(q) = Len(fs)
             /\ \A j \in 1..Len(fs) : q[j] = Content(cmd.source, fs[j], None)
<1> DEFINE q == Contents(cmd, fs)
<1>1. DOMAIN fs = 1..Len(fs)
  BY SeqShape
<1>2. /\ DOMAIN q = DOMAIN fs /\ q = [i \in DOMAIN fs |-> q[i]]
      /\ \A i \in DOMAIN fs : q[i] = Content(cmd.source, fs[i], None)
  BY DEF Contents
<1> HIDE DEF q
<1>3. IsSeq(q) /\ Len(q) = Len(fs)
  BY <1>2, MadeSeq
<1> QED  BY <1>1, <1>2, <1>3 DEF q

LEMMA OnlyEmpty ==
  ASSUME NEW s, IsSeq(s), Len(s) = 0
  PROVE  s = <<>>
<1> DEFINE e == <<>>
<1>1. IsSeq(e) /\ Len(e) = 0
  BY NoSeq
<1> HIDE DEF e
<1>2. s = e
  BY <1>1, SeqSame
<1> QED  BY <1>2 DEF e

LEMMA NeedStands ==
  ASSUME setup \in JsonSetups, setup.format = "json", Filled, NEW b, Means(b.parameters),
         NEW g \in DOMAIN conf.commands, NEW cmd \in ToSet(conf.commands[g]), Passes(cmd)
  PROVE  ContentsOf(b, ParametersOf(cmd)) = MeansOf(cmd)
<1>1. CASE ~IsNamed(cmd) \/ cmd.type \notin {"fastboot", "dldr"}
  BY <1>1, NothingStands DEF ParametersOf, MeansOf
<1>2. CASE IsNamed(cmd) /\ cmd.type \in {"fastboot", "dldr"}
  <2> DEFINE fs == InArguments(cmd)
             q == Contents(cmd, fs)
  <2>1. ParametersOf(cmd) = Shorts(fs) /\ MeansOf(cmd) = q
    BY <1>2 DEF ParametersOf, MeansOf
  <2>2. IsCommands(conf.commands[g])
    BY ConfShape
  <2>3. IsSeq(cmd.target) /\ ToSet(cmd.target) \subseteq Files /\ cmd.source \in Sources
    BY <2>2, CommandsShape
  <2>4. IsSeq(fs) /\ ToSet(fs) \subseteq ToSet(cmd.target)
    <3>1. CASE cmd.dollar
      BY <2>3, <3>1 DEF InArguments
    <3>2. CASE ~cmd.dollar
      <4>1. cmd.target # <<>>
        BY <1>2 DEF IsNamed
      <4>2. Len(cmd.target) \in Nat
        BY <2>3, SeqShape
      <4>3. Len(cmd.target) # 0
        BY <2>3, <4>1, OnlyEmpty
      <4>4. cmd.target[1] \in ToSet(cmd.target)
        BY <2>3, <4>2, <4>3, Members
      <4>5. fs = <<cmd.target[1]>>
        BY <3>2 DEF InArguments
      <4> QED  BY <4>4, <4>5, OneSeq
    <3> QED  BY <3>1, <3>2
  <2> HIDE DEF fs
  <2>5. /\ IsSeq(q) /\ Len(q) = Len(fs)
        /\ \A j \in 1..Len(fs) : q[j] = Content(cmd.source, fs[j], None)
    BY <2>4, ContentsIs
  <2> HIDE DEF q
  <2>6. \A j \in 1..Len(fs) : \E x \in FilesNamed : fs[j] = x[2] /\ q[j] = Content(x[1], x[2], None)
    <3> TAKE j \in 1..Len(fs)
    <3>1. fs[j] \in ToSet(cmd.target)
      BY <2>4, Members
    <3> DEFINE x == <<cmd.source, fs[j]>>
    <3>2. x \in Sources \X Files
      BY <2>3, <3>1
    <3>3. x \in FilesNamed
      BY <1>2, <3>1, <3>2 DEF FilesNamed
    <3>4. x[1] = cmd.source /\ x[2] = fs[j]
      OBVIOUS
    <3> HIDE DEF x
    <3> QED  BY <2>5, <3>3, <3>4
  <2>7. ContentsOf(b, Shorts(fs)) = q
    BY <2>4, <2>5, <2>6, ShortsStand
  <2> QED  BY <2>1, <2>7
<1> QED  BY <1>1, <1>2

LEMMA NeedsAre ==
  ASSUME setup \in JsonSetups, setup.format = "json", NEW c \in DOMAIN conf.configurations
  PROVE  LET g == conf.configurations[c].commands
         IN  /\ g \in DOMAIN conf.commands /\ IsSeq(Needs(c))
             /\ \A cmd \in ToSet(Needs(c)) : cmd \in ToSet(conf.commands[g]) /\ Passes(cmd)
<1> DEFINE g == conf.configurations[c].commands
           sub == conf.configurations[c].subgroup
           all == conf.commands[g]
           A == {x \in ToSet(all) : Passes(x) /\ sub \in x.restrict /\ x.type \in KnownTypes}
<1>1. g \in DOMAIN conf.commands /\ IsCommands(all)
  BY ConfShape
<1>2. IsSeq(all)
  BY <1>1, CommandsShape
<1>3. Needs(c) = Select(all, A)
  BY DEF Needs, NeedsIn
<1>5. \A x \in A : x \in ToSet(all) /\ Passes(x)
  OBVIOUS
<1> HIDE DEF all, A
<1>4. IsSeq(Needs(c)) /\ ToSet(Needs(c)) = ToSet(all) \cap A
  BY <1>2, <1>3, SelectMembers
<1>6. \A cmd \in ToSet(Needs(c)) : cmd \in ToSet(all) /\ Passes(cmd)
  BY <1>4, <1>5
<1> QED  BY <1>1, <1>4, <1>6 DEF all

LEMMA JsonMeant ==
  ASSUME setup \in JsonSetups, setup.format = "json", ShortsUnique, Filled,
         NEW b, JsonDoes(b), NEW c \in DOMAIN conf.configurations
  PROVE  Flashes(b, c) = MeantByJson(c)
<1> DEFINE mine == MineOf(b, c)
           needs == Needs(c)
           s == Flashes(b, c)
           t == MeantByJson(c)
           g == conf.configurations[c].commands
<1>1. DoesNeeds(mine, needs) /\ ShortsMean(b.parameters, FilesNamed)
  BY DEF JsonDoes
<1>2. Means(b.parameters)
  BY <1>1, AllMean
<1>3. s = [i \in DOMAIN mine |-> ContentsOf(b, mine[i].parameters)]
  BY FlashesIs
<1>4. t = [i \in DOMAIN needs |-> MeansOf(needs[i])]
  BY MeantIs
<1>5. /\ g \in DOMAIN conf.commands
      /\ \A cmd \in ToSet(needs) : cmd \in ToSet(conf.commands[g]) /\ Passes(cmd)
  BY NeedsAre
<1> HIDE DEF mine, needs, s, t, g
<1>6. /\ IsSeq(mine) /\ IsSeq(needs) /\ Len(mine) = Len(needs)
      /\ \A k \in 1..Len(needs) : mine[k].parameters = ParametersOf(needs[k])
  BY <1>1 DEF DoesNeeds
<1>7. DOMAIN mine = 1..Len(needs) /\ DOMAIN needs = 1..Len(needs)
  BY <1>6, SeqShape
<1>8. /\ DOMAIN s = DOMAIN mine /\ s = [i \in DOMAIN mine |-> s[i]]
      /\ \A i \in DOMAIN mine : s[i] = ContentsOf(b, mine[i].parameters)
  BY <1>3
<1>9. /\ DOMAIN t = DOMAIN needs /\ t = [i \in DOMAIN needs |-> t[i]]
      /\ \A i \in DOMAIN needs : t[i] = MeansOf(needs[i])
  BY <1>4
<1>10. IsSeq(s) /\ Len(s) = Len(needs)
  BY <1>6, <1>8, MadeSeq
<1>11. IsSeq(t) /\ Len(t) = Len(needs)
  BY <1>6, <1>9, MadeSeq
<1>12. \A k \in 1..Len(s) : s[k] = t[k]
  <2> SUFFICES ASSUME NEW k \in 1..Len(needs)
               PROVE  s[k] = t[k]
    BY <1>10
  <2>1. needs[k] \in ToSet(needs)
    BY <1>6, Members
  <2> DEFINE cmd == needs[k]
  <2>2. cmd \in ToSet(conf.commands[g]) /\ Passes(cmd)
    BY <1>5, <2>1
  <2>3. mine[k].parameters = ParametersOf(cmd)
    BY <1>6
  <2>4. s[k] = ContentsOf(b, ParametersOf(cmd)) /\ t[k] = MeansOf(cmd)
    BY <1>7, <1>8, <1>9, <2>3
  <2> HIDE DEF cmd
  <2>5. ContentsOf(b, ParametersOf(cmd)) = MeansOf(cmd)
    BY <1>2, <1>5, <2>2, NeedStands
  <2> QED  BY <2>4, <2>5
<1>13. s = t
  BY <1>10, <1>11, <1>12, SeqSame
<1> QED  BY <1>13 DEF s, t

(* The call for a configuration flashes the files for its cores.           *)
LEMMA FlsMineIs ==
  ASSUME FlsState, NEW o, NEW c
  PROVE  /\ IsSeq(FlsMine(o, c))
         /\ \A x \in ToSet(FlsMine(o, c)) :
              /\ x \in ToSet(conf.commands) /\ x.type = "fls"
              /\ IsSeq(x.target) /\ ToSet(x.target) \subseteq Files /\ x.source \in Sources
         /\ MeantByFls(o, c)
              = <<FlattenSeq([i \in DOMAIN FlsMine(o, c) |->
                                Contents(FlsMine(o, c)[i], FlsMine(o, c)[i].target)])>>
<1> DEFINE s == AllFor(o)
           M == {x \in ToSet(s) : x.type = "fls" /\ (x.core = None \/ c \in x.core)}
<1>1. /\ ForOutput(o) = s
      /\ \A x \in ToSet(conf.commands) :
           IsSeq(x.target) /\ ToSet(x.target) \subseteq Files /\ x.source \in Sources
      /\ IsSeq(s) /\ ToSet(s) \subseteq ToSet(conf.commands)
  BY AllForIs
<1>2. FlsMine(o, c) = Select(s, M)
  BY DEF FlsMine
<1>3. \A x \in M : x.type = "fls"
  OBVIOUS
<1>4. MeantByFls(o, c)
        = <<FlattenSeq([i \in DOMAIN FlsMine(o, c) |->
                          Contents(FlsMine(o, c)[i], FlsMine(o, c)[i].target)])>>
  BY <1>1 DEF MeantByFls, FlsMine
<1> HIDE DEF s, M
<1>5. IsSeq(FlsMine(o, c)) /\ ToSet(FlsMine(o, c)) = ToSet(s) \cap M
  BY <1>1, <1>2, SelectMembers
<1>6. ASSUME NEW x \in ToSet(FlsMine(o, c))
      PROVE  /\ x \in ToSet(conf.commands) /\ x.type = "fls"
             /\ IsSeq(x.target) /\ ToSet(x.target) \subseteq Files /\ x.source \in Sources
  <2>1. x \in ToSet(s) /\ x \in M
    BY <1>5
  <2>2. x \in ToSet(conf.commands) /\ x.type = "fls"
    BY <1>1, <1>3, <2>1
  <2> QED  BY <1>1, <2>2
<1> QED  BY <1>4, <1>5, <1>6

LEMMA TargetsStand ==
  ASSUME FlsState, Filled, NEW b, Means(b.parameters), NEW o, NEW c
  PROVE  <<ContentsOf(b, Shorts(TargetsIn(FlsMine(o, c))))>> = MeantByFls(o, c)
<1> DEFINE M == FlsMine(o, c)
           u == [i \in DOMAIN M |-> M[i].target]
           v == [i \in DOMAIN M |-> Contents(M[i], M[i].target)]
           fs == FlattenSeq(u)
           q == FlattenSeq(v)
<1>1. /\ IsSeq(M)
      /\ \A x \in ToSet(M) :
           /\ x \in ToSet(conf.commands) /\ x.type = "fls"
           /\ IsSeq(x.target) /\ ToSet(x.target) \subseteq Files /\ x.source \in Sources
      /\ MeantByFls(o, c) = <<q>>
  BY FlsMineIs
<1>2. TargetsIn(M) = fs
  BY DEF TargetsIn
<1> HIDE DEF M
<1>3. DOMAIN M = 1..Len(M) /\ \A i \in 1..Len(M) : M[i] \in ToSet(M)
  BY <1>1, SeqShape, Members
<1>4. /\ DOMAIN u = DOMAIN M /\ u = [i \in DOMAIN M |-> u[i]]
      /\ \A i \in DOMAIN M : u[i] = M[i].target
  OBVIOUS
<1>5. /\ DOMAIN v = DOMAIN M /\ v = [i \in DOMAIN M |-> v[i]]
      /\ \A i \in DOMAIN M : v[i] = Contents(M[i], M[i].target)
  OBVIOUS
<1> HIDE DEF u, v
<1>6. IsSeq(u) /\ IsSeq(v) /\ Len(u) = Len(M) /\ Len(v) = Len(M)
  BY <1>1, <1>4, <1>5, MadeSeq
<1>7. \A i \in 1..Len(M) :
        /\ IsSeq(u[i]) /\ IsSeq(v[i]) /\ Len(v[i]) = Len(u[i]) /\ u[i] = M[i].target
        /\ \A j \in 1..Len(u[i]) : v[i][j] = Content(M[i].source, u[i][j], None)
  <2> TAKE i \in 1..Len(M)
  <2>1. IsSeq(M[i].target)
    BY <1>1, <1>3
  <2> DEFINE w == M[i].target
             z == Contents(M[i], w)
  <2>2. u[i] = w /\ v[i] = z
    BY <1>3, <1>4, <1>5
  <2>3. /\ IsSeq(z) /\ Len(z) = Len(w)
        /\ \A j \in 1..Len(w) : z[j] = Content(M[i].source, w[j], None)
    BY <2>1, ContentsIs
  <2> HIDE DEF z
  <2> QED  BY <2>1, <2>2, <2>3
<1>8. /\ IsSeq(fs) /\ IsSeq(q) /\ Len(fs) = Len(q)
      /\ \A k \in 1..Len(fs) : \E i \in 1..Len(u) : \E j \in 1..Len(u[i]) :
           fs[k] = u[i][j] /\ q[k] = v[i][j]
  <2>1. \A i \in 1..Len(u) : IsSeq(u[i]) /\ IsSeq(v[i]) /\ Len(u[i]) = Len(v[i])
    BY <1>6, <1>7
  <2>2. SameParts(u, v)
    BY <1>6, <2>1 DEF SameParts
  <2>3. SamePlaces(FlattenSeq(u), FlattenSeq(v), u, v)
    BY <2>2, FlattenAlike
  <2> QED  BY <2>3 DEF SamePlaces
<1> HIDE DEF fs, q
<1>9. \A k \in 1..Len(fs) : \E x \in FilesNamed : fs[k] = x[2] /\ q[k] = Content(x[1], x[2], None)
  <2> TAKE k \in 1..Len(fs)
  <2>1. PICK i \in 1..Len(M) : \E j \in 1..Len(u[i]) : fs[k] = u[i][j] /\ q[k] = v[i][j]
    BY <1>6, <1>8
  <2>2. PICK j \in 1..Len(u[i]) : fs[k] = u[i][j] /\ q[k] = v[i][j]
    BY <2>1
  <2>3. IsSeq(u[i]) /\ u[i] = M[i].target /\ v[i][j] = Content(M[i].source, u[i][j], None)
    BY <1>7, <2>1, <2>2
  <2> DEFINE x == <<M[i].source, fs[k]>>
  <2>4. fs[k] \in ToSet(M[i].target)
    BY <2>2, <2>3, Members
  <2>5. /\ M[i] \in ToSet(conf.commands) /\ M[i].type = "fls"
        /\ ToSet(M[i].target) \subseteq Files /\ M[i].source \in Sources
    BY <1>1, <1>3, <2>1
  <2>6. setup.format # "json"
    BY DEF FlsState
  <2>7. x \in Sources \X Files
    BY <2>4, <2>5
  <2>8. x \in FilesNamed
    BY <2>4, <2>5, <2>6, <2>7 DEF FilesNamed
  <2>9. x[1] = M[i].source /\ x[2] = fs[k]
    OBVIOUS
  <2>10. q[k] = Content(M[i].source, fs[k], None)
    BY <2>2, <2>3
  <2> HIDE DEF x
  <2> QED  BY <2>8, <2>9, <2>10
<1>10. ContentsOf(b, Shorts(fs)) = q
  BY <1>8, <1>9, ShortsStand
<1> QED  BY <1>1, <1>2, <1>10 DEF M

LEMMA FlsMeant ==
  ASSUME FlsState, ShortsUnique, Filled, NEW o, NEW b, FlsDoes(b, o),
         ShortsMean(b.parameters, FilesNamed), NEW c \in FlsConfigs
  PROVE  Flashes(b, c) = MeantByFls(o, c)
<1> DEFINE mine == MineOf(b, c)
           s == Flashes(b, c)
           p == Shorts(TargetsIn(FlsMine(o, c)))
<1>1. Means(b.parameters)
  BY AllMean DEF FlsState
<1>2. PICK m : mine = <<m>> /\ m.parameters = p
  BY DEF FlsDoes
<1>3. s = [i \in DOMAIN mine |-> ContentsOf(b, mine[i].parameters)]
  BY FlashesIs
<1>4. <<ContentsOf(b, p)>> = MeantByFls(o, c)
  BY <1>1, TargetsStand
<1> HIDE DEF mine, s, p
<1>5. IsSeq(mine) /\ Len(mine) = 1 /\ mine[1] = m
  BY <1>2, OneSeq
<1>6. /\ DOMAIN s = DOMAIN mine /\ s = [i \in DOMAIN mine |-> s[i]]
      /\ \A i \in DOMAIN mine : s[i] = ContentsOf(b, mine[i].parameters)
  BY <1>3
<1>7. IsSeq(s) /\ Len(s) = 1 /\ DOMAIN s = 1..1
  BY <1>5, <1>6, MadeSeq
<1>8. s[1] = ContentsOf(b, p)
  <2>1. 1 \in DOMAIN mine
    BY <1>6, <1>7
  <2>2. mine[1].parameters = p
    BY <1>2, <1>5
  <2> QED  BY <1>6, <2>1, <2>2
<1> DEFINE t == <<ContentsOf(b, p)>>
<1>9. IsSeq(t) /\ Len(t) = 1 /\ t[1] = ContentsOf(b, p)
  BY OneSeq
<1>10. s = t
  <2> HIDE DEF t
  <2>1. \A k \in 1..Len(s) : s[k] = t[k]
    BY <1>7, <1>8, <1>9
  <2> QED  BY <1>7, <1>9, <2>1, SeqSame
<1> QED  BY <1>4, <1>10 DEF s, t

(* A result's output is found by its name.                                 *)
OutputOf(n) == conf.outputs[SelectInSeq(conf.outputs, LAMBDA x : x.name = n)]

LEMMA OutputIs ==
  ASSUME setup \in JsonSetups, NEW o \in ToSet(conf.outputs)
  PROVE  OutputOf(o.name) = o
<1> DEFINE s == conf.outputs
           n == o.name
           S == {x \in ToSet(s) : x.name = n}
           I == {i \in 1..Len(s) : s[i].name = n}
           k == SelectInSeq(s, LAMBDA x : x.name = n)
<1>1. IsSeq(s) /\ \A i, j \in 1..Len(s) : s[i].name = s[j].name => i = j
  BY ConfShape
<1>2. PICK i \in 1..Len(s) : o = s[i]
  BY <1>1, Members
<1>3. i \in I /\ \A j \in I : j = i
  BY <1>1, <1>2
<1>4. Len(s) \in Nat
  BY <1>1, SeqShape
<1>5. k = IF I = {} THEN 0 ELSE Min(I)
  BY DEF SelectInSeq
<1>6. Min(I) = i
  BY <1>3, <1>4 DEF Min
<1>7. k = i
  BY <1>3, <1>5, <1>6
<1> QED  BY <1>2, <1>7 DEF OutputOf

(* What a result does when the program has finished.                       *)
LEMMA ResultMeant ==
  ASSUME JsonIInv, pc \in {"done", "iso"}, ShortsUnique,
         NEW r, NEW o \in ToSet(conf.outputs), NEW first,
         ResultDoes(r, o, first), r.kind = "json" \/ first = "json" => HasJson(results)
  PROVE  /\ r.kind = "json" /\ setup.format = "json"
              => \A c \in DOMAIN conf.configurations : Flashes(r.body, c) = MeantByJson(c)
         /\ r.kind = "json" /\ setup.format # "json" /\ NoRestrict
              => \A c \in FlsConfigs : Flashes(r.body, c) = MeantByFls(o, c)
         /\ r.kind # "json" /\ first = "json"
              => /\ {<<line.target>> : line \in ToSet(r.body)} \ {<<None>>}
                      = {<<<<t[1], None>>>> : t \in NamedTargets(o)}
                 /\ {d.target : d \in {x \in ToSet(CmdCommands(o)) : x.type = "fastboot" /\ IsNamed(x)}}
                      = NamedTargets(o)
                 /\ \A line \in ToSet(r.body) : line.target # None => line.target \in DOMAIN zip
<1>1. setup \in JsonSetups /\ CommandsInv
  BY DEF JsonIInv, RunInv
<1>2. ASSUME r.kind = "json", setup.format = "json"
      PROVE  \A c \in DOMAIN conf.configurations : Flashes(r.body, c) = MeantByJson(c)
  <2>1. JsonDoes(r.body)
    BY <1>2 DEF ResultDoes
  <2>2. setup.format # "fls"
    BY <1>2
  <2>3. Filled
    BY <1>2, <2>2, AllFilled
  <2> DEFINE b == r.body
  <2>4. JsonDoes(b)
    BY <2>1
  <2> HIDE DEF b
  <2>5. \A c \in DOMAIN conf.configurations : Flashes(b, c) = MeantByJson(c)
    BY <1>1, <1>2, <2>3, <2>4, JsonMeant
  <2> QED  BY <2>5 DEF b
<1>3. ASSUME r.kind = "json", setup.format # "json", NoRestrict
      PROVE  \A c \in FlsConfigs : Flashes(r.body, c) = MeantByFls(o, c)
  <2>1. setup.format = "fls" /\ FlsDoes(r.body, o) /\ ShortsMean(r.body.parameters, FilesNamed)
    BY <1>3 DEF ResultDoes
  <2>2. FlsState
    BY <1>1, <2>1 DEF FlsState, CommandsInv
  <2>3. Filled
    BY <1>3, AllFilled
  <2> DEFINE b == r.body
  <2>4. FlsDoes(b, o) /\ ShortsMean(b.parameters, FilesNamed)
    BY <2>1
  <2> HIDE DEF b
  <2>5. \A c \in FlsConfigs : Flashes(b, c) = MeantByFls(o, c)
    BY <2>2, <2>3, <2>4, FlsMeant
  <2> QED  BY <2>5 DEF b
<1>4. ASSUME r.kind # "json", first = "json"
      PROVE  /\ {<<line.target>> : line \in ToSet(r.body)} \ {<<None>>}
                  = {<<<<t[1], None>>>> : t \in NamedTargets(o)}
             /\ {d.target : d \in {x \in ToSet(CmdCommands(o)) : x.type = "fastboot" /\ IsNamed(x)}}
                  = NamedTargets(o)
             /\ \A line \in ToSet(r.body) : line.target # None => line.target \in DOMAIN zip
  <2>1. setup.format = "json" /\ o.kind = "cmd" /\ CmdDoes(r.body, o)
    BY <1>4 DEF ResultDoes
  <2>2. o.commands \in DOMAIN conf.commands
    BY <1>1, <2>1, ConfShape
  <2>3. JsonState
    BY <1>1, <2>1 DEF JsonState, CommandsInv
  <2>4. setup.format # "fls"
    BY <2>1
  <2>5. Filled
    BY <1>4, <2>4, AllFilled
  <2>6. /\ {<<line.target>> : line \in ToSet(r.body)} \ {<<None>>}
             = {<<<<t[1], None>>>> : t \in NamedTargets(o)}
        /\ \A line \in ToSet(r.body) : line.target # None =>
             \E x \in FilesNamed : line.target = <<x[2], None>>
    BY <2>1 DEF CmdDoes
  <2>7. \A line \in ToSet(r.body) : line.target # None => line.target \in DOMAIN zip
    BY <2>5, <2>6 DEF Filled
  <2>8. {d.target : d \in {x \in ToSet(CmdCommands(o)) : x.type = "fastboot" /\ IsNamed(x)}}
          = NamedTargets(o)
    BY <2>2, <2>3, NamedSame
  <2> QED  BY <2>6, <2>7, <2>8
<1> QED  BY <1>2, <1>3, <1>4

LEMMA JsonAtEnd ==
  ASSUME JsonIInv
  PROVE  JsonFlashesItsFiles
<1> SUFFICES ASSUME pc \in {"done", "iso"}, ShortsUnique
             PROVE  \A i \in DOMAIN results :
      LET r == results[i]
          o == OutputOf(r.name)
          named == {d.target : d \in {x \in ToSet(CmdCommands(o)) :
                                        x.type = "fastboot" /\ IsNamed(x)}}
      IN  IF r.kind = "json" /\ setup.format = "json"
          THEN \A c \in DOMAIN conf.configurations : Flashes(r.body, c) = MeantByJson(c)
          ELSE IF r.kind = "json"
          THEN NoRestrict => \A c \in FlsConfigs : Flashes(r.body, c) = MeantByFls(o, c)
          ELSE results[1].kind = "json" =>
                 /\ {<<line.target>> : line \in ToSet(r.body)} \ {<<None>>}
                      = {<<<<t[1], None>>>> : t \in named}
                 /\ \A line \in ToSet(r.body) : line.target # None => line.target \in DOMAIN zip
  BY DEF JsonFlashesItsFiles, OutputOf, NoRestrict
<1> TAKE i \in DOMAIN results
<1>1. /\ setup \in JsonSetups /\ IsSeq(results)
      /\ \A k \in 1..Len(results) : OutputDoes(results[k], results[1].kind)
  BY DEF JsonIInv, RunInv, ResultsInv
<1>2. DOMAIN results = 1..Len(results) /\ Len(results) \in Nat
  BY <1>1, SeqShape
<1>3. i \in 1..Len(results) /\ 1 \in 1..Len(results)
  BY <1>2
<1> DEFINE r == results[i]
           first == results[1].kind
<1>4. PICK o \in ToSet(conf.outputs) : o.name = r.name /\ ResultDoes(r, o, first)
  BY <1>1, <1>3 DEF OutputDoes
<1>5. OutputOf(r.name) = o
  BY <1>1, <1>4, OutputIs
<1>6. r.kind = "json" \/ first = "json" => HasJson(results)
  BY <1>3 DEF HasJson
<1> HIDE DEF r, first
<1>7. /\ r.kind = "json" /\ setup.format = "json"
              => \A c \in DOMAIN conf.configurations : Flashes(r.body, c) = MeantByJson(c)
      /\ r.kind = "json" /\ setup.format # "json" /\ NoRestrict
              => \A c \in FlsConfigs : Flashes(r.body, c) = MeantByFls(o, c)
      /\ r.kind # "json" /\ first = "json"
              => /\ {<<line.target>> : line \in ToSet(r.body)} \ {<<None>>}
                      = {<<<<t[1], None>>>> : t \in NamedTargets(o)}
                 /\ {d.target : d \in {x \in ToSet(CmdCommands(o)) : x.type = "fastboot" /\ IsNamed(x)}}
                      = NamedTargets(o)
                 /\ \A line \in ToSet(r.body) : line.target # None => line.target \in DOMAIN zip
  BY <1>4, <1>6, ResultMeant
<1> DEFINE named == {d.target : d \in {x \in ToSet(CmdCommands(o)) : x.type = "fastboot" /\ IsNamed(x)}}
<1>8. IF r.kind = "json" /\ setup.format = "json"
      THEN \A c \in DOMAIN conf.configurations : Flashes(r.body, c) = MeantByJson(c)
      ELSE IF r.kind = "json"
      THEN NoRestrict => \A c \in FlsConfigs : Flashes(r.body, c) = MeantByFls(o, c)
      ELSE first = "json" =>
                 /\ {<<line.target>> : line \in ToSet(r.body)} \ {<<None>>}
                      = {<<<<t[1], None>>>> : t \in named}
                 /\ \A line \in ToSet(r.body) : line.target # None => line.target \in DOMAIN zip
  <2>1. CASE r.kind = "json"
    BY <1>7, <2>1
  <2>2. CASE r.kind # "json" /\ first = "json"
    <3>1. named = NamedTargets(o)
      BY <1>7, <2>2
    <3> HIDE DEF named
    <3> QED  BY <1>7, <2>2, <3>1
  <2>3. CASE r.kind # "json" /\ first # "json"
    BY <2>3
  <2> QED  BY <2>1, <2>2, <2>3
<1> QED  BY <1>5, <1>8 DEF r, first

-----------------------------------------------------------------------------
(* The program runs with an ini file or with the older instructions, and   *)
(* each way keeps an invariant of its own.                                 *)

AllIInv == FlashIInv \/ JsonIInv

LEMMA IniStep ==
  ASSUME FlashIInv, [AllNext]_jsonVars
  PROVE  FlashIInv'
<1>1. pc # "json"
  BY DEF FlashIInv, InputInv
<1>2. ~(ParseJsonOutput \/ JsonFails \/ JsonParsed)
  BY <1>1 DEF ParseJsonOutput, JsonFails, JsonParsed
<1>3. [FlashNext]_flashVars
  BY <1>2 DEF AllNext, jsonVars
<1> QED  BY <1>3, FlashKept

LEMMA JsonStep ==
  ASSUME JsonIInv, [AllNext]_jsonVars
  PROVE  JsonIInv'
<1>1. pc \in {"json", "images", "done", "iso", "failed"}
  BY DEF JsonIInv, RunInv
<1>2. ~(\/ ParseOutput \/ MergeFails \/ GenericParsed \/ VariantsParsed
        \/ GenerateVariantIp \/ VariantizeFails \/ Variantize)
  BY <1>1 DEF ParseOutput, MergeFails, GenericParsed, VariantsParsed, GenerateVariantIp,
              VariantizeFails, Variantize, Parsing
<1>3. CASE ParseJsonOutput
  BY <1>3, ParseJsonStep
<1>4. CASE ProcessImage /\ commands' = commands
  BY <1>4, ImageStep
<1>5. CASE (ImageFails \/ WriteResults \/ MakeIso \/ UNCHANGED flashVars) /\ commands' = commands
  BY <1>5, RestStep
<1>6. CASE JsonFails \/ JsonParsed
  <2>1. commands' = commands
    BY <1>6 DEF JsonFails, JsonParsed
  <2> QED  BY <1>6, <2>1, RestStep
<1> QED  BY <1>2, <1>3, <1>4, <1>5, <1>6 DEF AllNext, FlashNext, jsonVars

LEMMA HasIniFiles ==
  ASSUME FlashIInv, pc \in {"done", "iso"}
  PROVE  ips # <<>>
<1>1. setup \in Setups /\ ips = FinalIps
  BY DEF FlashIInv, InputInv
<1>2. CASE setup.variants = <<>>
  <2>1. ips = <<ini>>
    BY <1>1, <1>2 DEF FinalIps
  <2>2. Len(<<ini>>) = 1 /\ Len(<<>>) = 0
    BY OneSeq, NoSeq
  <2>3. ips = <<>> => FALSE
    BY <2>1, <2>2
  <2> QED  BY <2>3
<1>3. CASE setup.variants # <<>>
  <2>1. ips = Gen
    BY <1>1, <1>3 DEF FinalIps
  <2>2. IsSeq(Gen) /\ Len(Gen) = Len(setup.variants)
    BY <1>1, GenIsSeq
  <2>3. Len(Gen) # 0
    BY <1>1, <1>3, <2>2, SetupIs, OnlyEmpty
  <2> QED  BY <2>1, <2>3, NoSeq
<1> QED  BY <1>2, <1>3

(* The invariant of both ways of running the program.                      *)
THEOREM AllInvariant == AllSpec => []AllIInv
<1>1. AllInit => AllIInv
  BY FlashInitInv, JsonStart DEF AllInit, AllIInv
<1>2. AllIInv /\ [AllNext]_jsonVars => AllIInv'
  BY IniStep, JsonStep DEF AllIInv
<1> QED  BY <1>1, <1>2, PTL DEF AllSpec

(* With the older instructions every configuration of a json file flashes  *)
(* what the instructions name for it, and installer.cmd the files of its   *)
(* commands, for all instructions, builds and platforms (FlashFileJson and *)
(* FlashFileCmd of flashxml.py, flashflsxml.py).                           *)
THEOREM JsonFilesFlashed == AllSpec => []JsonFlashesItsFiles
<1>1. AllIInv => JsonFlashesItsFiles
  <2>1. FlashIInv => JsonFlashesItsFiles
    BY HasIniFiles DEF JsonFlashesItsFiles
  <2> QED  BY <2>1, JsonAtEnd DEF AllIInv
<1> QED  BY <1>1, AllInvariant, PTL
=============================================================================
