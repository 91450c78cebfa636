------------------------ MODULE DocumentPaths_proofs ------------------------
(***************************************************************************)
(* Theorems about DocumentPaths: a write through a view lands at the view  *)
(* and spares every path beside it, for all documents, paths and values.   *)
(*                                                                         *)
(* Both loops of view.rs are recursions over the path.  What they compute  *)
(* is shown by least counterexample: the first segment where a walk would  *)
(* not be where it should (LeastNat).                                      *)
(***************************************************************************)
EXTENDS DocumentPaths, WellFoundedInduction, SequenceTheorems, TLAPS

(* A set of natural numbers has a least element.                           *)
LEMMA LeastNat ==
  ASSUME NEW S, S \subseteq Nat, S # {}
  PROVE  \E m \in S : \A k \in S : m <= k
<1>1. PICK m \in S : \A k \in S : <<k, m>> \notin OpToRel(<, Nat)
  BY WFMin, NatLessThanWellFounded, Zenon
<1>2. \A k \in S : ~(k < m)
  BY <1>1, Zenon DEF OpToRel
<1> QED
  BY <1>2

(* V is a set of values closed under entering its maps, whose keys are in  *)
(* K: all the values in a document, or in any set of documents.            *)
Trees(K, V) == \A w \in V : IsMap(w) => w[2] \in Seq(K \X V)

-----------------------------------------------------------------------------
(* The two recursions                                                      *)

(* c is the loop of descend: the value first, then after each segment the  *)
(* child.                                                                  *)
Walks(c, v, p) ==
  /\ DOMAIN c = 0..Len(p) /\ c[0] = v
  /\ \A i \in 1..Len(p) : c[i] = Child(c[i - 1], p[i])

(* The recursion Cur is written with defines that walk.                    *)
LEMMA CurWalks ==
  ASSUME NEW K, NEW v, NEW p \in Seq(K)
  PROVE  Walks(Cur(v, p), v, p)
<1> DEFINE E(g) == [i \in 0..Len(p) |-> IF i = 0 THEN v ELSE Child(g[i - 1], p[i])]
           Upto(k, g) == /\ DOMAIN g = 0..k /\ g[0] = v
                         /\ \A i \in 1..k : g[i] = Child(g[i - 1], p[i])
           Lost == {k \in Nat : ~\E g : Upto(k, g)}
<1>1. \A k \in Nat : \E g : Upto(k, g)
  <2> SUFFICES ASSUME Lost # {} PROVE FALSE
    OBVIOUS
  <2>1. PICK k \in Lost : \A i \in Lost : k <= i
    BY LeastNat
  <2>2. k # 0
    <3>1. Upto(0, [i \in 0..0 |-> v])
      OBVIOUS
    <3> QED
      BY <3>1
  <2>3. k - 1 \in Nat /\ k - 1 \notin Lost
    BY <2>1, <2>2
  <2>4. PICK g : Upto(k - 1, g)
    BY <2>3
  <2>5. PICK x : x = Child(g[k - 1], p[k])
    OBVIOUS
  <2> DEFINE h == [i \in 0..k |-> IF i = k THEN x ELSE g[i]]
  <2>6. DOMAIN h = 0..k /\ h[0] = v
    BY <2>2, <2>3, <2>4
  <2>7. ASSUME NEW i \in 1..k PROVE h[i] = Child(h[i - 1], p[i])
    <3>1. h[i - 1] = g[i - 1]
      BY <2>3
    <3>2. CASE i = k
      BY <2>5, <3>1, <3>2
    <3>3. CASE i # k
      <4>1. i \in 1..(k - 1) /\ h[i] = g[i]
        BY <2>3, <3>3
      <4>2. g[i] = Child(g[i - 1], p[i])
        BY <2>4, <4>1
      <4> QED
        BY <3>1, <4>1, <4>2
    <3> QED
      BY <3>2, <3>3
  <2> HIDE DEF h
  <2>8. Upto(k, h)
    BY <2>6, <2>7
  <2> QED
    BY <2>8
<1>2. PICK f : Upto(Len(p), f)
  BY <1>1
<1>3. \E g : g = E(g)
  <2> DEFINE h == [i \in 0..Len(p) |-> f[i]]
  <2>1. ASSUME NEW i \in 0..Len(p) PROVE h[i] = IF i = 0 THEN v ELSE Child(h[i - 1], p[i])
    <3>1. CASE i = 0
      BY <1>2, <3>1
    <3>2. CASE i # 0
      <4>1. i \in 1..Len(p) /\ i - 1 \in 0..Len(p)
        BY <3>2
      <4>2. f[i] = Child(f[i - 1], p[i])
        BY <1>2, <4>1
      <4> QED
        BY <3>2, <4>1, <4>2
    <3> QED
      BY <3>1, <3>2
  <2>2. h = E(h)
    BY <2>1
  <2> QED
    BY <2>2
<1>4. Cur(v, p) = CHOOSE g : g = E(g)
  BY DEF Cur
<1>5. PICK g : g = Cur(v, p) /\ g = E(g)
  BY <1>3, <1>4
<1>6. DOMAIN g = 0..Len(p) /\ g[0] = v
  BY <1>5
<1>7. ASSUME NEW i \in 1..Len(p) PROVE g[i] = Child(g[i - 1], p[i])
  <2>1. i \in 0..Len(p) /\ i # 0
    OBVIOUS
  <2> QED
    BY <1>5, <2>1
<1> QED
  BY <1>5, <1>6, <1>7 DEF Walks

(* What descend_creating and the insert leave i segments above the end of  *)
(* the path when x is just below.                                          *)
Above(doc, p, i, x) == Insert(OrEmpty(Cur(doc, p)[Len(p) - i]), p[Len(p) - i + 1], x)
(* c is what they leave, from the end of the path upwards.                 *)
Builds(c, doc, p, v) ==
  /\ DOMAIN c = 0..Len(p) /\ c[0] = v
  /\ \A i \in 1..Len(p) : c[i] = Above(doc, p, i, c[i - 1])

(* The recursion Made is written with defines it.                          *)
LEMMA MadeBuilds ==
  ASSUME NEW K, NEW doc, NEW p \in Seq(K), NEW v
  PROVE  Builds(Made(doc, p, v), doc, p, v)
<1> DEFINE E(g) == [i \in 0..Len(p) |-> IF i = 0 THEN v ELSE Above(doc, p, i, g[i - 1])]
           Upto(k, g) == /\ DOMAIN g = 0..k /\ g[0] = v
                         /\ \A i \in 1..k : g[i] = Above(doc, p, i, g[i - 1])
           Lost == {k \in Nat : ~\E g : Upto(k, g)}
<1>1. \A k \in Nat : \E g : Upto(k, g)
  <2> SUFFICES ASSUME Lost # {} PROVE FALSE
    OBVIOUS
  <2>1. PICK k \in Lost : \A i \in Lost : k <= i
    BY LeastNat
  <2>2. k # 0
    <3>1. Upto(0, [i \in 0..0 |-> v])
      OBVIOUS
    <3> QED
      BY <3>1
  <2>3. k - 1 \in Nat /\ k - 1 \notin Lost
    BY <2>1, <2>2
  <2>4. PICK g : Upto(k - 1, g)
    BY <2>3
  <2>5. PICK x : x = Above(doc, p, k, g[k - 1])
    OBVIOUS
  <2> DEFINE h == [i \in 0..k |-> IF i = k THEN x ELSE g[i]]
  <2>6. DOMAIN h = 0..k /\ h[0] = v
    BY <2>2, <2>3, <2>4
  <2>7. ASSUME NEW i \in 1..k PROVE h[i] = Above(doc, p, i, h[i - 1])
    <3>1. h[i - 1] = g[i - 1]
      BY <2>3
    <3>2. CASE i = k
      BY <2>5, <3>1, <3>2
    <3>3. CASE i # k
      <4>1. i \in 1..(k - 1) /\ h[i] = g[i]
        BY <2>3, <3>3
      <4>2. g[i] = Above(doc, p, i, g[i - 1])
        BY <2>4, <4>1
      <4> QED
        BY <3>1, <4>1, <4>2
    <3> QED
      BY <3>2, <3>3
  <2> HIDE DEF h
  <2>8. Upto(k, h)
    BY <2>6, <2>7
  <2> QED
    BY <2>8
<1>2. PICK f : Upto(Len(p), f)
  BY <1>1
<1>3. \E g : g = E(g)
  <2> DEFINE h == [i \in 0..Len(p) |-> f[i]]
  <2>1. ASSUME NEW i \in 0..Len(p) PROVE h[i] = IF i = 0 THEN v ELSE Above(doc, p, i, h[i - 1])
    <3>1. CASE i = 0
      BY <1>2, <3>1
    <3>2. CASE i # 0
      <4>1. i \in 1..Len(p) /\ i - 1 \in 0..Len(p)
        BY <3>2
      <4>2. f[i] = Above(doc, p, i, f[i - 1])
        BY <1>2, <4>1
      <4> QED
        BY <3>2, <4>1, <4>2
    <3> QED
      BY <3>1, <3>2
  <2>2. h = E(h)
    BY <2>1
  <2> QED
    BY <2>2
<1>4. Made(doc, p, v) = CHOOSE g : g = E(g)
  BY DEF Made, Above
<1>5. PICK g : g = Made(doc, p, v) /\ g = E(g)
  BY <1>3, <1>4
<1>6. DOMAIN g = 0..Len(p) /\ g[0] = v
  BY <1>5
<1>7. ASSUME NEW i \in 1..Len(p) PROVE g[i] = Above(doc, p, i, g[i - 1])
  <2>1. i \in 0..Len(p) /\ i # 0
    OBVIOUS
  <2> QED
    BY <1>5, <2>1
<1> QED
  BY <1>5, <1>6, <1>7 DEF Builds

-----------------------------------------------------------------------------
(* Ordered maps                                                            *)

(* In n the key k has the value x, and every other key what it has in m.   *)
SetsKey(n, m, k, x) ==
  /\ k \in KeysOf(n) /\ At(n, k) = x
  /\ \A l : l # k => (l \in KeysOf(n) <=> l \in KeysOf(m))
  /\ \A l : l # k /\ l \in KeysOf(m) => At(n, l) = At(m, l)

(* Setting the one entry of k, at its place or behind all others, does     *)
(* that.                                                                   *)
LEMMA SetAt ==
  ASSUME NEW m, NEW n, NEW k, NEW x, NEW j,
         j \in DOMAIN n[2], n[2][j] = <<k, x>>,
         \A i \in DOMAIN n[2] : i # j => i \in DOMAIN m[2] /\ n[2][i] = m[2][i],
         \A i \in DOMAIN m[2] : i # j => i \in DOMAIN n[2],
         j \in DOMAIN m[2] => m[2][j][1] = k,
         Position(n, k) = j
  PROVE  SetsKey(n, m, k, x)
<1>1. n[2][j][1] = k /\ n[2][j][2] = x
  OBVIOUS
<1>2. k \in KeysOf(n) /\ At(n, k) = x
  BY <1>1 DEF KeysOf, At
<1>3. ASSUME NEW l, l # k PROVE Places(n, l) = Places(m, l)
  BY <1>1, <1>3 DEF Places
<1>4. ASSUME NEW l PROVE /\ l \in KeysOf(n) <=> Places(n, l) # {}
                         /\ l \in KeysOf(m) <=> Places(m, l) # {}
  BY DEF Places, KeysOf
<1>5. ASSUME NEW l, l # k, l \in KeysOf(m) PROVE At(n, l) = At(m, l)
  <2>1. Position(n, l) = Position(m, l)
    BY <1>3, <1>5 DEF Position
  <2>2. Position(m, l) \in Places(m, l)
    BY <1>4, <1>5 DEF Position
  <2>3. PICK i : i = Position(m, l) /\ i \in DOMAIN m[2] /\ m[2][i][1] = l
    BY <2>2 DEF Places
  <2>4. i # j /\ i \in DOMAIN n[2]
    BY <1>5, <2>3
  <2> QED
    BY <2>1, <2>3, <2>4 DEF At
<1> QED
  BY <1>2, <1>3, <1>4, <1>5 DEF SetsKey

(* Insert does, on a map whose entries are a sequence.                     *)
LEMMA InsertSets ==
  ASSUME NEW S, NEW m, m[2] \in Seq(S), NEW k, NEW x, NEW n, n = Insert(m, k, x)
  PROVE  /\ IsMap(n) /\ n \notin {Missing, Blocked}
         /\ SetsKey(n, m, k, x)
<1>1. PICK s \in Seq(S) : s = m[2]
  OBVIOUS
<1>2. DOMAIN s = 1..Len(s) /\ Len(s) \in Nat
  OBVIOUS
<1>3. CASE k \in KeysOf(m)
  <2>1. Places(m, k) # {}
    BY <1>3 DEF KeysOf, Places
  <2>2. PICK j : j = Position(m, k) /\ j \in Places(m, k)
    BY <2>1 DEF Position
  <2>3. j \in DOMAIN s /\ s[j][1] = k
    BY <1>1, <2>2 DEF Places
  <2>4. PICK t : t = [s EXCEPT ![j] = <<k, x>>]
    OBVIOUS
  <2>5. n = Map(t)
    BY <1>1, <1>3, <2>2, <2>4 DEF Insert
  <2>6. DOMAIN t = DOMAIN s /\ t[j] = <<k, x>> /\ \A i \in DOMAIN s : i # j => t[i] = s[i]
    BY <1>2, <2>3, <2>4
  <2>7. n[2] = t /\ IsMap(n) /\ n \notin {Missing, Blocked}
    BY <2>5 DEF Map, IsMap, Missing, Blocked
  <2>8. Places(n, k) = Places(m, k)
    BY <1>1, <2>3, <2>6, <2>7 DEF Places
  <2>9. Position(n, k) = j
    BY <2>2, <2>8 DEF Position
  <2>10. /\ j \in DOMAIN n[2] /\ n[2][j] = <<k, x>> /\ m[2][j][1] = k
         /\ \A i \in DOMAIN n[2] : i # j => i \in DOMAIN m[2] /\ n[2][i] = m[2][i]
         /\ \A i \in DOMAIN m[2] : i # j => i \in DOMAIN n[2]
    BY <1>1, <2>3, <2>6, <2>7
  <2>11. SetsKey(n, m, k, x)
    BY <2>9, <2>10, SetAt
  <2> QED
    BY <2>7, <2>11
<1>4. CASE k \notin KeysOf(m)
  <2>1. PICK t : t = Append(s, <<k, x>>)
    OBVIOUS
  <2>2. n = Map(t)
    BY <1>1, <1>4, <2>1 DEF Insert
  <2>3. PICK j : j = Len(s) + 1
    OBVIOUS
  <2>4. DOMAIN t = 1..j /\ t[j] = <<k, x>> /\ \A i \in DOMAIN s : t[i] = s[i]
    BY <1>2, <2>1, <2>3
  <2>5. n[2] = t /\ IsMap(n) /\ n \notin {Missing, Blocked}
    BY <2>2 DEF Map, IsMap, Missing, Blocked
  <2>6. Places(n, k) = {j}
    <3>1. \A i \in DOMAIN s : s[i][1] # k
      BY <1>1, <1>4 DEF KeysOf
    <3>2. \A i \in 1..j : i = j \/ i \in DOMAIN s
      BY <1>2, <2>3
    <3>3. j \in 1..j
      BY <1>2, <2>3
    <3> QED
      BY <2>4, <2>5, <3>1, <3>2, <3>3 DEF Places
  <2>7. Position(n, k) = j
    BY <2>6 DEF Position
  <2>8. /\ j \in DOMAIN n[2] /\ n[2][j] = <<k, x>> /\ j \notin DOMAIN m[2]
        /\ \A i \in DOMAIN n[2] : i # j => i \in DOMAIN m[2] /\ n[2][i] = m[2][i]
        /\ \A i \in DOMAIN m[2] : i # j => i \in DOMAIN n[2]
    BY <1>1, <1>2, <2>3, <2>4, <2>5
  <2>9. SetsKey(n, m, k, x)
    BY <2>7, <2>8, SetAt
  <2> QED
    BY <2>5, <2>9
<1> QED
  BY <1>3, <1>4

(* A step from n by k leads to x, by any other key where it leads from c.  *)
SetsOnly(n, k, x, c) == Child(n, k) = x /\ \A l : l # k => Child(n, l) = Child(c, l)

(* So it is after an insert.                                               *)
LEMMA ChildOfInsert ==
  ASSUME NEW S, NEW m, m[2] \in Seq(S), IsMap(m), m \notin {Missing, Blocked}, NEW k, NEW x
  PROVE  SetsOnly(Insert(m, k, x), k, x, m)
<1>1. PICK n : n = Insert(m, k, x)
  OBVIOUS
<1>2. /\ IsMap(n) /\ n \notin {Missing, Blocked}
      /\ SetsKey(n, m, k, x)
  BY <1>1, InsertSets
<1>3. Child(n, k) = x
  BY <1>2 DEF Child, SetsKey
<1>4. ASSUME NEW l, l # k PROVE Child(n, l) = Child(m, l)
  BY <1>2, <1>4 DEF Child, SetsKey
<1> QED
  BY <1>1, <1>3, <1>4 DEF SetsOnly

-----------------------------------------------------------------------------
(* Walks                                                                   *)

(* A step from a value leads to a value, to nothing or is blocked.         *)
LEMMA ChildIsAValue ==
  ASSUME NEW K, NEW V, Trees(K, V), NEW w \in V \cup {Missing, Blocked}, NEW k
  PROVE  Child(w, k) \in V \cup {Missing, Blocked}
<1>1. CASE w \in {Missing, Blocked} \/ ~IsMap(w) \/ k \notin KeysOf(w)
  BY <1>1 DEF Child
<1>2. CASE w \notin {Missing, Blocked} /\ IsMap(w) /\ k \in KeysOf(w)
  <2>1. PICK s \in Seq(K \X V) : s = w[2]
    BY <1>2 DEF Trees
  <2>2. Places(w, k) # {}
    BY <1>2 DEF KeysOf, Places
  <2>3. PICK j : j = Position(w, k) /\ j \in Places(w, k)
    BY <2>2 DEF Position
  <2>4. j \in DOMAIN s
    BY <2>1, <2>3 DEF Places
  <2>5. s[j] \in K \X V
    BY <2>4
  <2>6. At(w, k) \in V
    BY <2>1, <2>3, <2>5 DEF At
  <2> QED
    BY <1>2, <2>6 DEF Child
<1> QED
  BY <1>1, <1>2

(* So does every beginning of a walk.                                      *)
LEMMA CurIsAValue ==
  ASSUME NEW K, NEW V, Trees(K, V), NEW doc \in V, NEW p \in Seq(K), NEW i \in 0..Len(p)
  PROVE  Cur(doc, p)[i] \in V \cup {Missing, Blocked}
<1> DEFINE T == V \cup {Missing, Blocked}
           Bad == {j \in 0..Len(p) : Cur(doc, p)[j] \notin T}
<1> SUFFICES ASSUME Bad # {} PROVE FALSE
  OBVIOUS
<1>1. PICK j \in Bad : \A l \in Bad : j <= l
  <2>1. Bad \subseteq Nat
    OBVIOUS
  <2> QED
    BY <2>1, LeastNat
<1>2. Walks(Cur(doc, p), doc, p)
  BY CurWalks
<1>3. j # 0
  BY <1>1, <1>2 DEF Walks
<1>4. j \in 1..Len(p) /\ j - 1 \in 0..Len(p) /\ j - 1 \notin Bad
  BY <1>1, <1>3
<1>5. PICK w : w = Cur(doc, p)[j - 1]
  OBVIOUS
<1>6. w \in T
  BY <1>4, <1>5
<1>7. Cur(doc, p)[j] = Child(w, p[j])
  BY <1>2, <1>4, <1>5 DEF Walks
<1>8. Child(w, p[j]) \in T
  BY <1>6, ChildIsAValue
<1> QED
  BY <1>1, <1>7, <1>8

(* A walk that is not blocked at its end is never blocked.                 *)
LEMMA BlockedStays ==
  ASSUME NEW K, NEW doc, NEW p \in Seq(K), Descend(doc, p) # Blocked, NEW i \in 0..Len(p)
  PROVE  Cur(doc, p)[i] # Blocked
<1> DEFINE Free == {j \in i..Len(p) : Cur(doc, p)[j] # Blocked}
<1> SUFFICES ASSUME Cur(doc, p)[i] = Blocked PROVE FALSE
  OBVIOUS
<1>1. Len(p) \in Free
  BY DEF Descend
<1>2. PICK j \in Free : \A l \in Free : j <= l
  <2>1. Free \subseteq Nat
    OBVIOUS
  <2> QED
    BY <1>1, <2>1, LeastNat
<1>3. j # i
  BY <1>2
<1>4. j \in 1..Len(p) /\ j - 1 \in i..Len(p) /\ j - 1 \notin Free
  BY <1>2, <1>3
<1>5. Cur(doc, p)[j - 1] = Blocked
  BY <1>4
<1>6. Cur(doc, p)[j] = Child(Cur(doc, p)[j - 1], p[j])
  BY <1>4, CurWalks DEF Walks
<1>7. Child(Blocked, p[j]) = Blocked
  BY DEF Child
<1> QED
  BY <1>2, <1>5, <1>6, <1>7

(* e is a map with a step to wherever there is one from c.                 *)
Enters(e, c, K, V) ==
  /\ e[2] \in Seq(K \X V) /\ IsMap(e) /\ e \notin {Missing, Blocked}
  /\ \A k : Child(e, k) = Child(c, k)

(* Where the walk goes on there is a map, or nothing and then an empty map *)
(* made in its place leads nowhere else.                                   *)
LEMMA MapsOnTheWay ==
  ASSUME NEW K, NEW V, Trees(K, V), NEW doc \in V, NEW p \in Seq(K), Descend(doc, p) # Blocked,
         NEW i \in 1..Len(p), NEW c, c = Cur(doc, p)[i - 1]
  PROVE  Enters(OrEmpty(c), c, K, V)
<1>1. i - 1 \in 0..Len(p) /\ i \in 0..Len(p)
  OBVIOUS
<1>2. c \in V \cup {Missing, Blocked}
  BY <1>1, CurIsAValue
<1>3. c # Blocked /\ Cur(doc, p)[i] # Blocked
  BY <1>1, BlockedStays
<1>4. Cur(doc, p)[i] = Child(c, p[i])
  BY CurWalks DEF Walks
<1>5. CASE c = Missing
  <2>1. OrEmpty(c) = EmptyMap
    BY <1>5 DEF OrEmpty
  <2>2. EmptyMap[2] = <<>> /\ IsMap(EmptyMap) /\ EmptyMap \notin {Missing, Blocked}
    BY DEF EmptyMap, Map, IsMap, Missing, Blocked
  <2>3. <<>> \in Seq(K \X V) /\ KeysOf(EmptyMap) = {}
    BY <2>2 DEF KeysOf
  <2>4. \A k : Child(EmptyMap, k) = Missing /\ Child(c, k) = Missing
    BY <1>5, <2>2, <2>3 DEF Child
  <2> QED
    BY <2>1, <2>2, <2>3, <2>4 DEF Enters
<1>6. CASE c # Missing
  <2>1. OrEmpty(c) = c /\ c \in V
    BY <1>2, <1>3, <1>6 DEF OrEmpty
  <2>2. IsMap(c)
    BY <1>3, <1>4, <1>6 DEF Child
  <2> QED
    BY <1>3, <1>6, <2>1, <2>2 DEF Trees, Enters
<1> QED
  BY <1>5, <1>6

(* Each map of the spliced document on the way leads along the path to the *)
(* next one, and by every other key where it led before.                   *)
LEMMA SpliceStep ==
  ASSUME NEW K, NEW V, Trees(K, V), NEW doc \in V, NEW p \in Seq(K), Descend(doc, p) # Blocked,
         NEW v, NEW i \in 1..Len(p)
  PROVE  SetsOnly(Made(doc, p, v)[Len(p) - (i - 1)], p[i], Made(doc, p, v)[Len(p) - i],
                  Cur(doc, p)[i - 1])
<1> PICK m : m = Made(doc, p, v)
  OBVIOUS
<1>1. PICK c : c = Cur(doc, p)[i - 1]
  OBVIOUS
<1>2. Enters(OrEmpty(c), c, K, V)
  BY <1>1, MapsOnTheWay
<1>3. PICK j : j = Len(p) - (i - 1)
  OBVIOUS
<1>4. j \in 1..Len(p) /\ Len(p) - j = i - 1 /\ Len(p) - j + 1 = i /\ j - 1 = Len(p) - i
  BY <1>3
<1>5. m[j] = Insert(OrEmpty(c), p[i], m[j - 1])
  <2>1. m[j] = Above(doc, p, j, m[j - 1])
    <3>1. Builds(m, doc, p, v)
      BY MadeBuilds
    <3> QED
      BY <1>4, <3>1 DEF Builds
  <2> QED
    BY <1>1, <1>4, <2>1 DEF Above
<1>6. PICK e, x : e = OrEmpty(c) /\ x = m[j - 1]
  OBVIOUS
<1>7. SetsOnly(Insert(e, p[i], x), p[i], x, e)
  <2>1. e[2] \in Seq(K \X V) /\ IsMap(e) /\ e \notin {Missing, Blocked}
    BY <1>2, <1>6 DEF Enters
  <2> QED
    BY <2>1, ChildOfInsert
<1>8. \A l : Child(e, l) = Child(c, l)
  BY <1>2, <1>6 DEF Enters
<1>9. m[Len(p) - (i - 1)] = Insert(e, p[i], x) /\ m[Len(p) - i] = x
  BY <1>3, <1>4, <1>5, <1>6
<1>10. SetsOnly(Insert(e, p[i], x), p[i], x, c)
  BY <1>7, <1>8 DEF SetsOnly
<1> QED
  BY <1>1, <1>9, <1>10

(* p and q have their first d segments in common.                          *)
Agree(p, q, d) == d <= Len(p) /\ d <= Len(q) /\ \A i \in 1..d : p[i] = q[i]

(* A walk of the spliced document meets the maps Made has put on the way,  *)
(* as far as it goes along the path.                                       *)
LEMMA SpliceIsWalked ==
  ASSUME NEW K, NEW V, Trees(K, V), NEW doc \in V, NEW p \in Seq(K), Descend(doc, p) # Blocked,
         NEW v, NEW q \in Seq(K), NEW d \in Nat, Agree(p, q, d), NEW i \in 0..d
  PROVE  Cur(Splice(doc, p, v), q)[i] = Made(doc, p, v)[Len(p) - i]
<1> PICK m : m = Made(doc, p, v)
  OBVIOUS
<1> PICK c : c = Cur(Splice(doc, p, v), q)
  OBVIOUS
<1> DEFINE Bad == {j \in 0..d : c[j] # m[Len(p) - j]}
<1> SUFFICES ASSUME Bad # {} PROVE FALSE
  OBVIOUS
<1>1. PICK j \in Bad : \A l \in Bad : j <= l
  <2>1. Bad \subseteq Nat
    OBVIOUS
  <2> QED
    BY <2>1, LeastNat
<1>2. Walks(c, Splice(doc, p, v), q)
  BY CurWalks
<1>3. j # 0
  <2>1. c[0] = m[Len(p)] /\ Len(p) - 0 = Len(p)
    BY <1>2 DEF Walks, Splice
  <2> QED
    BY <1>1, <2>1
<1>4. j \in 1..d /\ j - 1 \in 0..d /\ j - 1 \notin Bad
  BY <1>1, <1>3
<1>5. j \in 1..Len(p) /\ j \in 1..Len(q) /\ p[j] = q[j]
  BY <1>4 DEF Agree
<1>6. c[j - 1] = m[Len(p) - (j - 1)]
  BY <1>4
<1>7. c[j] = Child(c[j - 1], p[j])
  BY <1>2, <1>5 DEF Walks
<1>8. Child(m[Len(p) - (j - 1)], p[j]) = m[Len(p) - j]
  BY <1>5, SpliceStep DEF SetsOnly
<1> QED
  BY <1>1, <1>6, <1>7, <1>8

(* At the end of the path it finds the value.                              *)
LEMMA SpliceSets ==
  ASSUME NEW K, NEW V, Trees(K, V), NEW doc \in V, NEW p \in Seq(K), Descend(doc, p) # Blocked,
         NEW v
  PROVE  Descend(Splice(doc, p, v), p) = v
<1>1. Agree(p, p, Len(p)) /\ Len(p) \in 0..Len(p) /\ Len(p) \in Nat /\ Len(p) - Len(p) = 0
  BY DEF Agree
<1>2. Cur(Splice(doc, p, v), p)[Len(p)] = Made(doc, p, v)[Len(p) - Len(p)]
  BY <1>1, SpliceIsWalked
<1>3. Made(doc, p, v)[0] = v
  BY MadeBuilds DEF Builds
<1> QED
  BY <1>1, <1>2, <1>3 DEF Descend

(* Two walks along one path that meet end together.                        *)
LEMMA WalksStayTogether ==
  ASSUME NEW K, NEW q \in Seq(K), NEW v, NEW w, NEW d \in 0..Len(q),
         Cur(v, q)[d] = Cur(w, q)[d]
  PROVE  Descend(v, q) = Descend(w, q)
<1> DEFINE Bad == {j \in d..Len(q) : Cur(v, q)[j] # Cur(w, q)[j]}
<1>1. Bad = {}
  <2> SUFFICES ASSUME Bad # {} PROVE FALSE
    OBVIOUS
  <2>1. PICK j \in Bad : \A l \in Bad : j <= l
    <3>1. Bad \subseteq Nat
      OBVIOUS
    <3> QED
      BY <3>1, LeastNat
  <2>2. j # d
    BY <2>1
  <2>3. j \in 1..Len(q) /\ j - 1 \in d..Len(q) /\ j - 1 \notin Bad
    BY <2>1, <2>2
  <2>4. Cur(v, q)[j - 1] = Cur(w, q)[j - 1]
    BY <2>3
  <2>5. Cur(v, q)[j] = Child(Cur(v, q)[j - 1], q[j]) /\ Cur(w, q)[j] = Child(Cur(w, q)[j - 1], q[j])
    BY <2>3, CurWalks DEF Walks
  <2> QED
    BY <2>1, <2>4, <2>5
<1>2. Len(q) \in d..Len(q)
  OBVIOUS
<1> QED
  BY <1>1, <1>2 DEF Descend

(* Walks of one document meet the same values as far as their paths agree. *)
LEMMA SameWayDown ==
  ASSUME NEW K, NEW p \in Seq(K), NEW q \in Seq(K), NEW v, NEW d \in Nat, Agree(p, q, d),
         NEW i \in 0..d
  PROVE  Cur(v, p)[i] = Cur(v, q)[i]
<1> DEFINE Bad == {j \in 0..d : Cur(v, p)[j] # Cur(v, q)[j]}
<1> SUFFICES ASSUME Bad # {} PROVE FALSE
  OBVIOUS
<1>1. PICK j \in Bad : \A l \in Bad : j <= l
  <2>1. Bad \subseteq Nat
    OBVIOUS
  <2> QED
    BY <2>1, LeastNat
<1>2. Walks(Cur(v, p), v, p) /\ Walks(Cur(v, q), v, q)
  BY CurWalks
<1>3. j # 0
  BY <1>1, <1>2 DEF Walks
<1>4. j \in 1..d /\ j - 1 \in 0..d /\ j - 1 \notin Bad
  BY <1>1, <1>3
<1>5. j \in 1..Len(p) /\ j \in 1..Len(q) /\ p[j] = q[j]
  BY <1>4 DEF Agree
<1>6. Cur(v, p)[j - 1] = Cur(v, q)[j - 1]
  BY <1>4
<1>7. Cur(v, p)[j] = Child(Cur(v, p)[j - 1], p[j]) /\ Cur(v, q)[j] = Child(Cur(v, q)[j - 1], q[j])
  BY <1>2, <1>5 DEF Walks
<1> QED
  BY <1>1, <1>5, <1>6, <1>7

(* Two paths neither of which is above the other part somewhere.           *)
LEMMA FirstDifference ==
  ASSUME NEW K, NEW p \in Seq(K), NEW q \in Seq(K), ~Related(p, q)
  PROVE  \E d \in Nat : d + 1 <= Len(p) /\ d + 1 <= Len(q) /\ Agree(p, q, d) /\ p[d + 1] # q[d + 1]
<1> DEFINE D == {i \in 1..Len(p) : i <= Len(q) /\ p[i] # q[i]}
<1>1. D # {}
  <2> SUFFICES ASSUME D = {} PROVE FALSE
    OBVIOUS
  <2>1. CASE Len(p) <= Len(q)
    <3>1. SubSeq(p, 1, Len(p)) = SubSeq(q, 1, Len(p))
      BY <2>1
    <3> QED
      BY <2>1, <3>1 DEF Related, IsPrefix
  <2>2. CASE Len(q) <= Len(p)
    <3>1. SubSeq(q, 1, Len(q)) = SubSeq(p, 1, Len(q))
      BY <2>2
    <3> QED
      BY <2>2, <3>1 DEF Related, IsPrefix
  <2> QED
    BY <2>1, <2>2
<1>2. PICK e \in D : \A l \in D : e <= l
  <2>1. D \subseteq Nat
    OBVIOUS
  <2> QED
    BY <1>1, <2>1, LeastNat
<1>3. PICK d \in Nat : d = e - 1
  BY <1>2
<1>4. Agree(p, q, d)
  BY <1>2, <1>3 DEF Agree
<1> QED
  BY <1>2, <1>3, <1>4

(* A walk along a path that parts from p finds what it found before.       *)
LEMMA SpliceSpares ==
  ASSUME NEW K, NEW V, Trees(K, V), NEW doc \in V, NEW p \in Seq(K), Descend(doc, p) # Blocked,
         NEW v, NEW q \in Seq(K), ~Related(p, q)
  PROVE  Descend(Splice(doc, p, v), q) = Descend(doc, q)
<1>1. PICK d \in Nat : d + 1 <= Len(p) /\ d + 1 <= Len(q) /\ Agree(p, q, d) /\ p[d + 1] # q[d + 1]
  BY FirstDifference
<1>2. PICK i : i = d + 1
  OBVIOUS
<1>3. i \in 1..Len(p) /\ i \in 1..Len(q) /\ i \in 0..Len(q) /\ i - 1 = d /\ d \in 0..d
  BY <1>1, <1>2
<1> PICK s : s = Splice(doc, p, v)
  OBVIOUS
<1> PICK m : m = Made(doc, p, v)
  OBVIOUS
<1>4. Cur(s, q)[d] = m[Len(p) - d]
  BY <1>1, <1>3, SpliceIsWalked
<1>5. Child(m[Len(p) - d], q[i]) = Child(Cur(doc, p)[d], q[i])
  <2>1. \A l : l # p[i] => Child(m[Len(p) - (i - 1)], l) = Child(Cur(doc, p)[i - 1], l)
    <3>1. SetsOnly(m[Len(p) - (i - 1)], p[i], m[Len(p) - i], Cur(doc, p)[i - 1])
      BY <1>3, SpliceStep
    <3> QED
      BY <3>1 DEF SetsOnly
  <2> QED
    BY <1>1, <1>2, <1>3, <2>1
<1>6. Cur(doc, p)[d] = Cur(doc, q)[d]
  BY <1>1, <1>3, SameWayDown
<1>7. Cur(s, q)[i] = Child(Cur(s, q)[d], q[i]) /\ Cur(doc, q)[i] = Child(Cur(doc, q)[d], q[i])
  BY <1>3, CurWalks DEF Walks
<1>8. Cur(s, q)[i] = Cur(doc, q)[i]
  BY <1>4, <1>5, <1>6, <1>7
<1> QED
  BY <1>3, <1>8, WalksStayTogether

-----------------------------------------------------------------------------
(* Writes                                                                  *)

(* At p there is now v, and at every path that is not above or below p     *)
(* what was there before.                                                  *)
InPlace(new, old, p, v, K) ==
  /\ Descend(new, p) = v
  /\ \A q \in Seq(K) : ~Related(p, q) => Descend(new, q) = Descend(old, q)

(* A replace that is not refused (view.rs replace) stores its payload at   *)
(* its view and changes nothing at any path beside it, through whatever    *)
(* maps descend_creating had to make: for every document, path and         *)
(* payload.                                                                *)
THEOREM ReplaceLandsInPlace ==
  ASSUME NEW K, NEW V, Trees(K, V), NEW doc \in V, NEW p \in Seq(K), NEW v, NEW below,
         Replaced(doc, p, v, Descend(doc, p), below).ok
  PROVE  InPlace(Replaced(doc, p, v, Descend(doc, p), below).doc, doc, p, v, K)
<1>1. Descend(doc, p) # Blocked
  BY DEF Replaced, Refusal
<1>2. Replaced(doc, p, v, Descend(doc, p), below).doc = Splice(doc, p, v)
  BY <1>1 DEF Replaced, Done
<1> QED
  BY <1>1, <1>2, SpliceSets, SpliceSpares DEF InPlace

(* A merge that is not refused (view.rs merge) leaves the document alone   *)
(* when the patch wrote nothing and a map or nothing was there, and        *)
(* otherwise stores the patched map at its view and changes nothing at any *)
(* path beside it: for every document, path and outcome of the patch.      *)
THEOREM MergeLandsInPlace ==
  ASSUME NEW K, NEW V, Trees(K, V), NEW doc \in V, NEW p \in Seq(K), NEW sub, NEW r,
         r = Merged(doc, p, Descend(doc, p), sub), r.ok
  PROVE  IF sub.touched = {} /\ (Descend(doc, p) = Missing \/ IsMap(Descend(doc, p)))
         THEN r.doc = doc ELSE InPlace(r.doc, doc, p, sub.doc, K)
<1>1. Descend(doc, p) # Blocked
  BY DEF Merged, Refusal
<1>2. CASE sub.touched = {} /\ (Descend(doc, p) = Missing \/ IsMap(Descend(doc, p)))
  BY <1>1, <1>2 DEF Merged, Done
<1>3. CASE ~(sub.touched = {} /\ (Descend(doc, p) = Missing \/ IsMap(Descend(doc, p))))
  <2>1. r.doc = Splice(doc, p, sub.doc)
    BY <1>1, <1>3 DEF Merged, Done
  <2> QED
    BY <1>1, <1>3, <2>1, SpliceSets, SpliceSpares DEF InPlace
<1> QED
  BY <1>2, <1>3

-----------------------------------------------------------------------------
(* Removal                                                                 *)

(* No key is twice in a map, as in every serde_json::Map.                  *)
KeysOnce(m) == \A i, j \in DOMAIN m[2] : m[2][i][1] = m[2][j][1] => i = j

(* n is a map without k, and for every other key as m.                     *)
Drops(n, m, k, S) ==
  /\ n[2] \in Seq(S) /\ IsMap(n) /\ n \notin {Missing, Blocked} /\ KeysOnce(n)
  /\ Child(n, k) = Missing
  /\ \A l : l # k => Child(n, l) = Child(m, l)

(* A step by a key leads to the value of its entry.                        *)
LEMMA ChildIsTheEntry ==
  ASSUME NEW m, IsMap(m), m \notin {Missing, Blocked}, KeysOnce(m), NEW i \in DOMAIN m[2]
  PROVE  Child(m, m[2][i][1]) = m[2][i][2]
<1>1. PICK k : k = m[2][i][1]
  OBVIOUS
<1>2. Places(m, k) = {i}
  BY <1>1 DEF Places, KeysOnce
<1>3. Position(m, k) = i
  BY <1>2 DEF Position
<1>4. k \in KeysOf(m)
  BY <1>1 DEF KeysOf
<1> QED
  BY <1>1, <1>3, <1>4 DEF Child, At

(* By a key without an entry it leads nowhere.                             *)
LEMMA NoEntryNoChild ==
  ASSUME NEW m, IsMap(m), m \notin {Missing, Blocked}, NEW k, \A i \in DOMAIN m[2] : m[2][i][1] # k
  PROVE  Child(m, k) = Missing
<1>1. k \notin KeysOf(m)
  BY DEF KeysOf
<1> QED
  BY <1>1 DEF Child

(* t is s without its entry j.                                             *)
Skips(t, s, j, S) ==
  /\ t \in Seq(S) /\ DOMAIN t = 1..(Len(s) - 1)
  /\ \A i \in 1..(Len(s) - 1) : t[i] = IF i < j THEN s[i] ELSE s[i + 1]

LEMMA Without ==
  ASSUME NEW S, NEW s \in Seq(S), NEW j \in 1..Len(s)
  PROVE  Skips(RemoveAt(s, j), s, j, S)
<1>1. PICK u, w, t : u = SubSeq(s, 1, j - 1) /\ w = SubSeq(s, j + 1, Len(s)) /\ t = RemoveAt(s, j)
  OBVIOUS
<1>2. Len(s) \in Nat /\ j \in Nat
  OBVIOUS
<1>3. /\ u \in Seq(S) /\ Len(u) = j - 1 /\ \A i \in 1..(j - 1) : u[i] = s[i]
      /\ w \in Seq(S) /\ Len(w) = Len(s) - j /\ \A i \in 1..(Len(s) - j) : w[i] = s[i + j]
  BY <1>1, <1>2
<1>4. t = u \o w
  BY <1>1 DEF RemoveAt
<1>5. /\ t \in Seq(S) /\ Len(t) = Len(s) - 1
      /\ \A i \in 1..(Len(s) - 1) : t[i] = IF i <= j - 1 THEN u[i] ELSE w[i - (j - 1)]
  <2>1. /\ u \o w \in Seq(S) /\ Len(u \o w) = Len(u) + Len(w)
        /\ \A i \in 1..(Len(u) + Len(w)) :
             (u \o w)[i] = IF i <= Len(u) THEN u[i] ELSE w[i - Len(u)]
    BY <1>3, ConcatProperties
  <2>2. Len(u) + Len(w) = Len(s) - 1
    BY <1>2, <1>3
  <2> QED
    BY <1>3, <1>4, <2>1, <2>2
<1>6. ASSUME NEW i \in 1..(Len(s) - 1) PROVE t[i] = IF i < j THEN s[i] ELSE s[i + 1]
  <2>1. CASE i < j
    BY <1>2, <1>3, <1>5, <2>1
  <2>2. CASE ~(i < j)
    <3>1. i - (j - 1) \in 1..(Len(s) - j) /\ (i - (j - 1)) + j = i + 1
      BY <1>2, <2>2
    <3>2. w[i - (j - 1)] = s[(i - (j - 1)) + j]
      BY <1>3, <3>1
    <3> QED
      BY <1>2, <1>5, <2>2, <3>1, <3>2
  <2> QED
    BY <2>1, <2>2
<1>7. DOMAIN t = 1..(Len(s) - 1)
  BY <1>5
<1> QED
  BY <1>1, <1>5, <1>6, <1>7 DEF Skips

(* shift_remove takes the one entry of its key out.                        *)
LEMMA ShiftRemoveDrops ==
  ASSUME NEW S, NEW m, m[2] \in Seq(S), IsMap(m), m \notin {Missing, Blocked}, KeysOnce(m), NEW k
  PROVE  Drops(ShiftRemove(m, k), m, k, S)
<1>1. PICK s \in Seq(S) : s = m[2]
  OBVIOUS
<1>2. DOMAIN s = 1..Len(s) /\ Len(s) \in Nat
  OBVIOUS
<1>3. CASE k \notin KeysOf(m)
  <2>1. ShiftRemove(m, k) = m
    BY <1>3 DEF ShiftRemove
  <2>2. Child(m, k) = Missing
    BY <1>3 DEF Child
  <2> QED
    BY <2>1, <2>2 DEF Drops
<1>4. CASE k \in KeysOf(m)
  <2>1. Places(m, k) # {}
    BY <1>4 DEF KeysOf, Places
  <2>2. PICK j : j = Position(m, k) /\ j \in Places(m, k)
    BY <2>1 DEF Position
  <2>3. j \in 1..Len(s) /\ s[j][1] = k
    BY <1>1, <1>2, <2>2 DEF Places
  <2>4. PICK t : t = RemoveAt(s, j)
    OBVIOUS
  <2>5. /\ t \in Seq(S) /\ DOMAIN t = 1..(Len(s) - 1)
        /\ \A i \in 1..(Len(s) - 1) : t[i] = IF i < j THEN s[i] ELSE s[i + 1]
    BY <2>3, <2>4, Without DEF Skips
  <2>6. PICK n : n = ShiftRemove(m, k)
    OBVIOUS
  <2>7. n[2] = t /\ IsMap(n) /\ n \notin {Missing, Blocked}
    BY <1>1, <1>4, <2>2, <2>4, <2>6 DEF ShiftRemove, Map, IsMap, Missing, Blocked
  <2> DEFINE Old(i) == IF i < j THEN i ELSE i + 1
  <2>8. ASSUME NEW i \in DOMAIN t PROVE Old(i) \in DOMAIN s /\ Old(i) # j /\ t[i] = s[Old(i)]
    BY <1>2, <2>3, <2>5
  <2>9. ASSUME NEW i \in DOMAIN s, i # j PROVE \E h \in DOMAIN t : t[h] = s[i]
    <3>1. CASE i < j
      <4>1. i \in DOMAIN t /\ t[i] = s[i]
        BY <1>2, <2>3, <2>5, <3>1
      <4> QED
        BY <4>1
    <3>2. CASE i > j
      <4>1. i - 1 \in 1..(Len(s) - 1) /\ ~(i - 1 < j) /\ i - 1 + 1 = i
        BY <1>2, <2>3, <3>2
      <4>2. i - 1 \in DOMAIN t /\ t[i - 1] = s[i]
        BY <2>5, <4>1
      <4> QED
        BY <4>2
    <3> QED
      BY <1>2, <2>3, <2>9, <3>1, <3>2
  <2>10. \A i, h \in DOMAIN s : s[i][1] = s[h][1] => i = h
    BY <1>1 DEF KeysOnce
  <2>11. KeysOnce(n)
    <3> SUFFICES ASSUME NEW i \in DOMAIN t, NEW h \in DOMAIN t, t[i][1] = t[h][1] PROVE i = h
      BY <2>7 DEF KeysOnce
    <3>1. Old(i) = Old(h)
      BY <2>8, <2>10
    <3> QED
      BY <2>3, <2>5, <3>1
  <2>12. Child(n, k) = Missing
    <3>1. \A i \in DOMAIN t : t[i][1] # k
      BY <2>3, <2>8, <2>10, <1>2
    <3> QED
      BY <2>7, <3>1, NoEntryNoChild
  <2>13. ASSUME NEW l, l # k PROVE Child(n, l) = Child(m, l)
    <3>1. CASE \E i \in DOMAIN s : s[i][1] = l
      <4>1. PICK i \in DOMAIN s : s[i][1] = l
        BY <3>1
      <4>2. i # j
        BY <2>3, <2>13, <4>1
      <4>3. PICK h \in DOMAIN t : t[h] = s[i]
        BY <2>9, <4>2
      <4>4. Child(m, l) = s[i][2]
        BY <1>1, <4>1, ChildIsTheEntry
      <4>5. Child(n, l) = t[h][2]
        BY <2>7, <2>11, <4>1, <4>3, ChildIsTheEntry
      <4> QED
        BY <4>3, <4>4, <4>5
    <3>2. CASE \A i \in DOMAIN s : s[i][1] # l
      <4>1. \A h \in DOMAIN t : t[h][1] # l
        BY <2>8, <3>2
      <4>2. Child(n, l) = Missing
        BY <2>7, <4>1, NoEntryNoChild
      <4>3. Child(m, l) = Missing
        BY <1>1, <3>2, NoEntryNoChild
      <4> QED
        BY <4>2, <4>3
    <3> QED
      BY <3>1, <3>2
  <2> QED
    BY <2>5, <2>6, <2>7, <2>11, <2>12, <2>13 DEF Drops
<1> QED
  BY <1>3, <1>4

(* A walk one segment further is a step further.                           *)
LEMMA DescendAppend ==
  ASSUME NEW K, NEW f \in Seq(K), NEW k, NEW w
  PROVE  Descend(w, Append(f, k)) = Child(Descend(w, f), k)
<1>1. PICK L, q, d : L = K \cup {k} /\ q = Append(f, k) /\ d = Len(f)
  OBVIOUS
<1>2. f \in Seq(L)
  BY <1>1
<1>3. q \in Seq(L) /\ Len(q) = d + 1 /\ q[d + 1] = k /\ d \in Nat /\ \A i \in 1..d : q[i] = f[i]
  BY <1>1, <1>2
<1>4. Agree(f, q, d)
  BY <1>1, <1>3 DEF Agree
<1>5. d \in 0..d
  BY <1>3
<1>6. Cur(w, f)[d] = Cur(w, q)[d]
  BY <1>2, <1>3, <1>4, <1>5, SameWayDown
<1>7. Walks(Cur(w, q), w, q)
  BY <1>3, CurWalks
<1>8. PICK e \in 1..Len(q) : e = d + 1 /\ e - 1 = d
  BY <1>3
<1>9. Cur(w, q)[e] = Child(Cur(w, q)[e - 1], q[e])
  BY <1>7 DEF Walks
<1> QED
  BY <1>1, <1>3, <1>6, <1>8, <1>9 DEF Descend

(* q goes on from f by another key than k.                                 *)
GoesOn(q, f, k) == Agree(f, q, Len(f)) /\ Len(f) + 1 <= Len(q) /\ q[Len(f) + 1] # k

(* So does a path beside f's continuation by k that is not beside f.       *)
LEMMA BesideTheKey ==
  ASSUME NEW K, NEW f \in Seq(K), NEW q \in Seq(K), NEW k, Related(f, q), ~Related(Append(f, k), q)
  PROVE  GoesOn(q, f, k)
<1>1. PICK L, p, d : L = K \cup {k} /\ p = Append(f, k) /\ d = Len(f)
  OBVIOUS
<1>2. f \in Seq(L) /\ q \in Seq(L)
  BY <1>1
<1>3. p \in Seq(L) /\ Len(p) = d + 1 /\ p[d + 1] = k /\ d \in Nat /\ \A i \in 1..d : p[i] = f[i]
  BY <1>1, <1>2
<1>4. PICK e \in Nat : /\ e + 1 <= Len(p) /\ e + 1 <= Len(q)
                       /\ Agree(p, q, e) /\ p[e + 1] # q[e + 1]
  <2>1. ~Related(p, q)
    BY <1>1
  <2> QED
    BY <1>2, <1>3, <2>1, FirstDifference
<1>5. e = d
  <2> SUFFICES ASSUME e < d PROVE FALSE
    BY <1>3, <1>4
  <2>1. e + 1 \in 1..d /\ p[e + 1] = f[e + 1] /\ Len(q) \in Nat
    BY <1>3
  <2>2. CASE IsPrefix(f, q)
    <3>1. SubSeq(f, 1, d) = SubSeq(q, 1, d) /\ d <= Len(q)
      BY <1>1, <2>2 DEF IsPrefix
    <3>2. SubSeq(f, 1, d)[e + 1] = f[e + 1] /\ SubSeq(q, 1, d)[e + 1] = q[e + 1]
      BY <1>1, <1>3, <2>1, <3>1
    <3> QED
      BY <1>4, <2>1, <3>1, <3>2
  <2>3. CASE IsPrefix(q, f)
    <3>1. SubSeq(q, 1, Len(q)) = SubSeq(f, 1, Len(q)) /\ Len(q) <= d
      BY <1>1, <2>3 DEF IsPrefix
    <3>2. SubSeq(q, 1, Len(q))[e + 1] = q[e + 1] /\ SubSeq(f, 1, Len(q))[e + 1] = f[e + 1]
      BY <1>1, <1>3, <1>4, <2>1, <3>1
    <3> QED
      BY <1>4, <2>1, <3>1, <3>2
  <2> QED
    BY <2>2, <2>3 DEF Related
<1>6. Agree(f, q, d)
  BY <1>1, <1>3, <1>4, <1>5 DEF Agree
<1> QED
  BY <1>1, <1>3, <1>4, <1>5, <1>6 DEF GoesOn

(* What is at p is gone, the note about it too, and at every path that is  *)
(* not above or below one of the two there is what was there before.       *)
TakenAway(new, old, p, K) ==
  LET note == Append(Front(p), NoteOf(Last(p)))
  IN /\ Descend(new, p) = Missing /\ Descend(new, note) = Missing
     /\ \A q \in Seq(K) : ~Related(p, q) /\ ~Related(note, q) => Descend(new, q) = Descend(old, q)

(* A remove that is not refused (view.rs remove) takes away what is at its *)
(* view and the note about it, and changes nothing at any path beside      *)
(* them: for every document without double keys and every path but the     *)
(* root's.                                                                 *)
THEOREM RemoveTakesItAway ==
  ASSUME NEW K, NEW V, Trees(K, V), \A m \in V : IsMap(m) => KeysOnce(m),
         NEW doc \in V, NEW p \in Seq(K), p # <<>>, NEW own,
         NEW r, r = Removed(doc, p, Descend(doc, Front(p)), own), r.ok
  PROVE  TakenAway(r.doc, doc, p, K)
<1>1. PICK f, k, n, c : f = Front(p) /\ k = Last(p) /\ n = NoteOf(k) /\ c = Descend(doc, f)
  OBVIOUS
<1>2. f \in Seq(K) /\ p = Append(f, k) /\ Len(f) \in Nat
  BY <1>1 DEF Front, Last
<1>3. \A w : Descend(w, p) = Child(Descend(w, f), k) /\ Descend(w, Append(f, n)) = Child(Descend(w, f), n)
  BY <1>2, DescendAppend
<1>4. CASE c = Missing
  <2>1. r.doc = doc
    BY <1>1, <1>4 DEF Removed, Done
  <2>2. Child(c, k) = Missing /\ Child(c, n) = Missing
    BY <1>4 DEF Child
  <2> QED
    BY <1>1, <1>3, <2>1, <2>2 DEF TakenAway
<1>5. CASE c # Missing
  <2>1. PICK x, y : x = ShiftRemove(c, n) /\ y = ShiftRemove(x, k)
    OBVIOUS
  <2>2. IsMap(c) /\ r.doc = Splice(doc, f, y)
    BY <1>1, <1>5, <2>1 DEF Removed, Done, Refusal
  <2>3. c # Blocked
    BY <2>2 DEF IsMap, Blocked
  <2>4. c \in V
    <3>1. Len(f) \in 0..Len(f)
      BY <1>2
    <3> QED
      BY <1>1, <1>2, <1>5, <2>3, <3>1, CurIsAValue DEF Descend
  <2>5. c[2] \in Seq(K \X V) /\ KeysOnce(c) /\ c \notin {Missing, Blocked}
    BY <1>5, <2>2, <2>3, <2>4 DEF Trees
  <2>6. Drops(x, c, n, K \X V)
    BY <2>1, <2>2, <2>5, ShiftRemoveDrops
  <2>7. Drops(y, x, k, K \X V)
    <3>1. x[2] \in Seq(K \X V) /\ IsMap(x) /\ x \notin {Missing, Blocked} /\ KeysOnce(x)
      BY <2>6 DEF Drops
    <3> QED
      BY <2>1, <3>1, ShiftRemoveDrops
  <2>8. /\ Child(y, k) = Missing /\ Child(y, n) = Missing
        /\ \A l : l # k /\ l # n => Child(y, l) = Child(c, l)
    BY <2>6, <2>7 DEF Drops
  <2>9. PICK s : s = Splice(doc, f, y)
    OBVIOUS
  <2>10. Descend(s, f) = y
    BY <1>1, <1>2, <2>3, <2>9, SpliceSets
  <2>11. ASSUME NEW q \in Seq(K), ~Related(p, q), ~Related(Append(f, n), q)
         PROVE  Descend(s, q) = Descend(doc, q)
    <3>1. CASE ~Related(f, q)
      BY <1>1, <1>2, <2>3, <2>9, <3>1, SpliceSpares
    <3>2. CASE Related(f, q)
      <4>1. GoesOn(q, f, k) /\ GoesOn(q, f, n)
        BY <1>2, <2>11, <3>2, BesideTheKey
      <4>2. PICK d, l : d = Len(f) /\ l = q[d + 1]
        OBVIOUS
      <4>3. Agree(f, q, d) /\ d \in Nat /\ d \in 0..d /\ d + 1 \in 1..Len(q) /\ d + 1 - 1 = d
        BY <1>2, <4>1, <4>2 DEF GoesOn
      <4>4. l # k /\ l # n
        BY <4>1, <4>2 DEF GoesOn
      <4>5. Cur(s, q)[d] = y /\ Cur(doc, q)[d] = c
        <5>1. \A w : Cur(w, f)[d] = Cur(w, q)[d]
          BY <1>2, <4>3, SameWayDown
        <5> QED
          BY <1>1, <2>10, <4>2, <5>1 DEF Descend
      <4>6. /\ Cur(s, q)[d + 1] = Child(Cur(s, q)[d], q[d + 1])
            /\ Cur(doc, q)[d + 1] = Child(Cur(doc, q)[d], q[d + 1])
        BY <4>3, CurWalks DEF Walks
      <4>7. Cur(s, q)[d + 1] = Cur(doc, q)[d + 1]
        BY <2>8, <4>2, <4>4, <4>5, <4>6
      <4>8. d + 1 \in 0..Len(q)
        BY <4>3
      <4> QED
        BY <4>7, <4>8, WalksStayTogether
    <3> QED
      BY <3>1, <3>2
  <2>12. Descend(s, p) = Missing /\ Descend(s, Append(f, n)) = Missing
    BY <1>3, <2>8, <2>10
  <2> QED
    BY <1>1, <2>2, <2>9, <2>11, <2>12 DEF TakenAway
<1> QED
  BY <1>4, <1>5
=============================================================================
