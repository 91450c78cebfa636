------------------------- MODULE BackupNotes_proofs -------------------------
(***************************************************************************)
(* Theorems about BackupNotes: a backup's document comes back, an import   *)
(* spares the text and leaves no block, for every set of notes and         *)
(* documents and every limit.                                              *)
(*                                                                         *)
(* What the recursion of strip_all computes is shown by least              *)
(* counterexample: a set of natural numbers that is not empty has a least  *)
(* member (LeastNat), and there the induction step fails.  Most of the     *)
(* rest is about one strip: it closes a gap (StripCloses), after which the *)
(* lines left, their blocks and the text outside blocks are those of       *)
(* before (SameBlocks, OutsideStays).                                      *)
(***************************************************************************)
EXTENDS BackupNotes, WellFoundedInduction, FiniteSetTheorems, SequenceTheorems, TLAPS

(* A set of natural numbers has a least element.                           *)
LEMMA LeastNat ==
  ASSUME NEW S, S \subseteq Nat, S # {}
  PROVE  \E m \in S : \A k \in S : m <= k
<1>1. PICK m \in S : \A k \in S : <<k, m>> \notin OpToRel(<, Nat)
  BY WFMin, NatLessThanWellFounded, Zenon
<1>2. \A k \in S : ~(k < m)
  BY <1>1, Zenon DEF OpToRel
<1> QED
  BY <1>2

(* Min and Max are what their names say, for the sets trim and find take   *)
(* them of.                                                                *)
LEMMA MinIsLeast ==
  ASSUME NEW S, S \subseteq Nat, S # {}
  PROVE  Min(S) \in S /\ \A k \in S : Min(S) <= k
BY LeastNat DEF Min

LEMMA MaxIsGreatest ==
  ASSUME NEW S, NEW b \in Nat, S \subseteq 0..b, S # {}
  PROVE  Max(S) \in S /\ \A k \in S : k <= Max(S)
<1> DEFINE R == {i \in Nat : \A k \in S : k <= i}
<1>1. b \in R
  OBVIOUS
<1>2. PICK m \in R : \A k \in R : m <= k
  BY <1>1, LeastNat
<1>3. m \in S
  <2> SUFFICES ASSUME m \notin S PROVE FALSE
    OBVIOUS
  <2>1. \A k \in S : k \in Nat /\ k <= m - 1
    BY <1>2
  <2> PICK k \in S : TRUE
    OBVIOUS
  <2>2. m - 1 \in Nat
    BY <2>1, <1>2
  <2>3. m - 1 \in R
    BY <2>1, <2>2
  <2> QED
    BY <2>3, <1>2
<1> HIDE DEF R
<1>4. \A k \in S : k <= m
  BY <1>2 DEF R
<1> QED
  BY <1>3, <1>4 DEF Max

(* f starts at x and goes on by step.                                      *)
Iterates(f, T, x, step) ==
  f \in [Nat -> T] /\ f[0] = x /\ \A k \in Nat : f[k + 1] = step[f[k]]

(* There is such a function: its finite beginnings exist and agree, by a   *)
(* least counterexample each.                                              *)
LEMMA IteratesExist ==
  ASSUME NEW T, NEW x \in T, NEW step \in [T -> T]
  PROVE  \E f : Iterates(f, T, x, step)
<1> DEFINE Upto(k, g) == /\ g \in [0..k -> T] /\ g[0] = x
                         /\ \A i \in 0..k : i > 0 => g[i] = step[g[i - 1]]
           Lost == {k \in Nat : ~\E g : Upto(k, g)}
           Split == {k \in Nat : \E l \in Nat : \E g, h : k <= l /\ Upto(k, g) /\ Upto(l, h) /\ g[k] # h[k]}
<1>1. \A k \in Nat : \E g : Upto(k, g)
  <2> SUFFICES ASSUME Lost # {} PROVE FALSE
    OBVIOUS
  <2>1. PICK k \in Lost : \A i \in Lost : k <= i
    BY LeastNat
  <2>2. k # 0
    <3>1. Upto(0, [i \in 0..0 |-> x])
      OBVIOUS
    <3> QED
      BY <3>1
  <2>3. k - 1 \in Nat /\ k - 1 \notin Lost
    BY <2>1, <2>2
  <2>4. PICK g : Upto(k - 1, g)
    BY <2>3
  <2> DEFINE h == [i \in 0..k |-> IF i = k THEN step[g[k - 1]] ELSE g[i]]
  <2>5. g[k - 1] \in T
    BY <2>3, <2>4
  <2>6. h \in [0..k -> T]
    BY <2>4, <2>5
  <2>7. h[0] = x
    BY <2>2, <2>4
  <2>8. \A i \in 0..k : i > 0 => h[i] = step[h[i - 1]]
    BY <2>2, <2>3, <2>4
  <2> QED
    BY <2>6, <2>7, <2>8
<1>2. ASSUME NEW k \in Nat, NEW l \in Nat, NEW g, NEW h, k <= l, Upto(k, g), Upto(l, h)
      PROVE  g[k] = h[k]
  <2> HIDE DEF Upto
  <2> SUFFICES ASSUME Split # {} PROVE FALSE
    BY <1>2
  <2>1. PICK i \in Split : \A j \in Split : i <= j
    BY LeastNat
  <2>m. PICK m \in Nat : \E u, v : i <= m /\ Upto(i, u) /\ Upto(m, v) /\ u[i] # v[i]
    BY <2>1
  <2>2. PICK u, v : i <= m /\ Upto(i, u) /\ Upto(m, v) /\ u[i] # v[i]
    BY <2>m
  <2>3. i # 0
    BY <2>2 DEF Upto
  <2>4. i \in Nat /\ i - 1 \in Nat
    BY <2>3
  <2>5. i - 1 \notin Split
    BY <2>1, <2>4
  <2> DEFINE w == [j \in 0..(i - 1) |-> u[j]]
  <2>6. Upto(i - 1, w)
    BY <2>2, <2>4 DEF Upto
  <2>7. w[i - 1] = v[i - 1]
    BY <2>2, <2>4, <2>5, <2>6
  <2>8. u[i] = step[u[i - 1]] /\ v[i] = step[v[i - 1]] /\ w[i - 1] = u[i - 1]
    BY <2>2, <2>3, <2>4 DEF Upto
  <2> QED
    BY <2>2, <2>7, <2>8
<1> DEFINE f == [k \in Nat |-> (CHOOSE g : Upto(k, g))[k]]
<1>3. \A k \in Nat : Upto(k, CHOOSE g : Upto(k, g))
  BY <1>1
<1> HIDE DEF Upto
<1>4. \A k \in Nat : \A g : Upto(k, g) => f[k] = g[k]
  BY <1>2, <1>3
<1>5. \A k \in Nat : \A g : Upto(k + 1, g) => f[k] = g[k] /\ f[k + 1] = g[k + 1]
  BY <1>2, <1>3, <1>4
<1>6. f \in [Nat -> T]
  <2> SUFFICES ASSUME NEW k \in Nat PROVE (CHOOSE g : Upto(k, g))[k] \in T
    OBVIOUS
  <2>1. PICK g : g = CHOOSE u : Upto(k, u)
    OBVIOUS
  <2>2. Upto(k, g)
    BY <1>3, <2>1
  <2>3. g[k] \in T
    BY <2>2 DEF Upto
  <2> QED
    BY <2>1, <2>3
<1>7. f[0] = x
  BY <1>3 DEF Upto
<1>8. ASSUME NEW k \in Nat PROVE f[k + 1] = step[f[k]]
  <2>1. PICK g : Upto(k + 1, g)
    BY <1>1
  <2>2. g[k + 1] = step[g[k]]
    BY <2>1 DEF Upto
  <2> QED
    BY <1>5, <2>1, <2>2
<1> HIDE DEF f
<1>9. Iterates(f, T, x, step)
  BY <1>6, <1>7, <1>8 DEF Iterates
<1> QED
  BY <1>9

-----------------------------------------------------------------------------

-----------------------------------------------------------------------------
(* Lines, trims and find                                                   *)

(* The lines of a block are told apart by what the parser looks at.        *)
LEMMA LineKinds ==
  /\ {Header("v1"), Open, Close, End, Blank} \subseteq Line
  /\ Header("v1")[1] = "head" /\ Open[1] = "open" /\ Close[1] = "close"
  /\ End[1] = "end" /\ Blank[1] = "blank"
<1>1. {Header("v1"), Open, Close, End, Blank} \subseteq Line
  BY Zenon DEF Line
<1>2. /\ Header("v1")[1] = "head" /\ Open[1] = "open" /\ Close[1] = "close"
      /\ End[1] = "end" /\ Blank[1] = "blank"
  BY DEF Header, Open, Close, End, Blank
<1> QED
  BY <1>1, <1>2

(* trim_end and trim_start cut the notes off, and nothing but blank lines  *)
(* goes.                                                                   *)
LEMMA TrimEndIs ==
  ASSUME NEW n \in Seq(Line)
  PROVE  \E m \in 0..Len(n) : /\ TrimEnd(n) = SubSeq(n, 1, m)
                              /\ \A i \in (m + 1)..Len(n) : n[i] = Blank
<1> DEFINE S == Written(n) \cup {0}
<1>1. S \subseteq 0..Len(n) /\ S # {} /\ Len(n) \in Nat
  BY DEF Written
<1>2. PICK m : m = Max(S) /\ m \in S /\ \A k \in S : k <= m
  BY <1>1, MaxIsGreatest
<1>3. m \in 0..Len(n) /\ m \in Nat
  BY <1>1, <1>2
<1>4. ASSUME NEW i \in (m + 1)..Len(n) PROVE n[i] = Blank
  <2>1. i \in DOMAIN n /\ ~(i <= m)
    BY <1>1, <1>3
  <2> QED
    BY <1>2, <2>1 DEF Written
<1>5. TrimEnd(n) = SubSeq(n, 1, m)
  BY <1>2 DEF TrimEnd
<1> QED
  BY <1>3, <1>4, <1>5

LEMMA TrimStartIs ==
  ASSUME NEW n \in Seq(Line)
  PROVE  \E m \in 1..(Len(n) + 1) : /\ TrimStart(n) = SubSeq(n, m, Len(n))
                                    /\ \A i \in 1..(m - 1) : n[i] = Blank
<1> DEFINE S == Written(n) \cup {Len(n) + 1}
<1>1. S \subseteq 1..(Len(n) + 1) /\ S # {} /\ Len(n) \in Nat
  BY DEF Written
<1>2. S \subseteq Nat
  BY <1>1
<1>3. PICK m : m = Min(S) /\ m \in S /\ \A k \in S : m <= k
  BY <1>1, <1>2, MinIsLeast
<1>4. m \in 1..(Len(n) + 1) /\ m \in Nat
  BY <1>1, <1>3
<1>5. ASSUME NEW i \in 1..(m - 1) PROVE n[i] = Blank
  <2>1. i \in DOMAIN n /\ ~(m <= i)
    BY <1>1, <1>4
  <2> QED
    BY <1>3, <2>1 DEF Written
<1>6. TrimStart(n) = SubSeq(n, m, Len(n))
  BY <1>3 DEF TrimStart
<1> QED
  BY <1>4, <1>5, <1>6

(* last_header is a header with an end line after it, and no later header  *)
(* has one.                                                                *)
LEMMA LastHeaderIs ==
  ASSUME NEW n \in Seq(Line), LastHeader(n) # 0
  PROVE  /\ LastHeader(n) \in DOMAIN n /\ n[LastHeader(n)][1] = "head"
         /\ \E j \in LastHeader(n)..Len(n) : n[j] = End
         /\ \A i, j \in DOMAIN n : LastHeader(n) < i /\ i <= j /\ n[i][1] = "head" => n[j] # End
<1> DEFINE S == {0} \cup {i \in DOMAIN n : n[i][1] = "head" /\ \E j \in i..Len(n) : n[j] = End}
<1>1. S \subseteq 0..Len(n) /\ S # {} /\ Len(n) \in Nat
  OBVIOUS
<1>2. Max(S) \in S /\ \A k \in S : k <= Max(S)
  BY <1>1, MaxIsGreatest
<1>3. PICK m : m = LastHeader(n) /\ m = Max(S)
  BY DEF LastHeader
<1>4. \A i, j \in DOMAIN n : i <= j /\ n[i][1] = "head" /\ n[j] = End => i \in S
  BY <1>1
<1>5. m \in {i \in DOMAIN n : n[i][1] = "head" /\ \E j \in i..Len(n) : n[j] = End}
  BY <1>2, <1>3
<1>6. \A k \in S : k <= m
  BY <1>2, <1>3
<1> HIDE DEF S
<1>7. ASSUME NEW i \in DOMAIN n, NEW j \in DOMAIN n, m < i, i <= j, n[i][1] = "head", n[j] = End
      PROVE  FALSE
  <2>1. i \in S
    BY <1>4, <1>7
  <2> QED
    BY <1>5, <1>6, <1>7, <2>1
<1> QED
  BY <1>3, <1>5, <1>7

(* What find reports is a well-formed block of the notes, and the text     *)
(* between its fences.                                                     *)
LEMMA FoundBlock ==
  ASSUME NEW n \in Seq(Line), NEW f, f = Find(n), f.kind = "block"
  PROVE  /\ f.start \in 1..Len(n) /\ f.end \in 1..Len(n)
         /\ BlockAt(n, f.start, f.end)
         /\ f.yaml = SubSeq(n, f.start + 2, f.end - 2)
<1> DEFINE s == LastHeader(n)
           T == {j \in (s + 2)..Len(n) : n[j] = End}
<1>1. s # 0 /\ f = FindAt(n, s)
  BY DEF Find, Nothing
<1>2. n[s] = Header("v1") /\ n[s + 1] = Open /\ f = Block(n, s, Min(T))
  BY <1>1 DEF FindAt, Malformed
<1>3. /\ s \in DOMAIN n /\ \E j \in s..Len(n) : n[j] = End
      /\ \A i, j \in DOMAIN n : s < i /\ i <= j /\ n[i][1] = "head" => n[j] # End
  BY <1>1, LastHeaderIs
<1> HIDE DEF s
<1>4. T \subseteq Nat /\ T # {}
  <2>1. PICK j \in s..Len(n) : n[j] = End
    BY <1>3
  <2>2. Header("v1") # End /\ Open # End
    BY LineKinds
  <2>3. j \in T
    BY <1>2, <1>3, <2>1, <2>2
  <2> QED
    BY <1>3, <2>3
<1>5. PICK e : e = Min(T) /\ e \in T /\ \A k \in T : e <= k
  BY <1>4, MinIsLeast
<1>6. e \in (s + 2)..Len(n) /\ n[e] = End /\ \A k \in (s + 2)..(e - 1) : n[k] # End
  <2>1. e \in (s + 2)..Len(n) /\ n[e] = End /\ s \in Nat /\ e \in Nat
    BY <1>3, <1>5
  <2>2. ASSUME NEW k \in (s + 2)..(e - 1) PROVE n[k] # End
    <3>1. k \in (s + 2)..Len(n) /\ ~(e <= k)
      BY <2>1
    <3> QED
      BY <1>5, <3>1
  <2> QED
    BY <2>1, <2>2
<1>7. /\ n[e - 1] = Close /\ e - 1 > s + 1
      /\ f = [kind |-> "block", start |-> s, end |-> e, yaml |-> SubSeq(n, s + 2, e - 2)]
  BY <1>2, <1>5 DEF Block, Malformed
<1>8. \A k \in (s + 1)..(e - 1) : n[k][1] # "head" /\ n[k] # End
  <2> SUFFICES ASSUME NEW k \in (s + 1)..(e - 1) PROVE n[k][1] # "head" /\ n[k] # End
    OBVIOUS
  <2>1. k \in DOMAIN n /\ e \in DOMAIN n /\ s < k /\ k <= e
    BY <1>3, <1>6
  <2>2. n[k][1] # "head"
    BY <1>3, <1>6, <2>1
  <2>3. n[k] # End
    <3>1. CASE k = s + 1
      BY <3>1, <1>2, LineKinds
    <3>2. CASE k # s + 1
      BY <3>2, <1>3, <1>6
    <3> QED
      BY <3>1, <3>2
  <2> QED
    BY <2>2, <2>3
<1>9. f.start = s /\ f.end = e /\ f.yaml = SubSeq(n, s + 2, e - 2)
  <2>1. PICK y : y = SubSeq(n, s + 2, e - 2)
    OBVIOUS
  <2>2. f = [kind |-> "block", start |-> s, end |-> e, yaml |-> y]
    BY <1>7, <2>1, Zenon
  <2>3. f.start = s /\ f.end = e /\ f.yaml = y
    BY <2>2
  <2> QED
    BY <2>1, <2>3
<1>10. s \in 1..Len(n) /\ e \in 1..Len(n) /\ e >= s + 3
  BY <1>3, <1>6, <1>7
<1>11. BlockAt(n, s, e)
  BY <1>2, <1>6, <1>7, <1>8, <1>10 DEF BlockAt
<1> QED
  BY <1>9, <1>10, <1>11

-----------------------------------------------------------------------------

-----------------------------------------------------------------------------
(* What one strip does                                                     *)

(* Where line i of what a strip leaves was before: the lines after the     *)
(* first a come from those from b on.                                      *)
Origin(i, a, b) == IF i <= a THEN i ELSE i - a + b - 1
(* r is n with the lines s..e taken out and with them blank lines before,  *)
(* after and at the end: nothing else is missing.                          *)
Closes(r, n, s, e, a, b) ==
  /\ a \in 0..(s - 1) /\ b \in (e + 1)..(Len(n) + 1)
  /\ r \in Seq(Line) /\ Len(r) <= a + Len(n) + 1 - b
  /\ \A i \in 1..Len(r) : r[i] = n[Origin(i, a, b)]
  /\ \A i \in (a + 1)..(s - 1) : n[i] = Blank
  /\ \A i \in (e + 1)..(b - 1) : n[i] = Blank
  /\ \A i \in (Len(r) + 1)..(a + Len(n) + 1 - b) : n[Origin(i, a, b)] = Blank

(* strip closes the gap a block leaves, and takes blank lines only         *)
(* besides.                                                                *)
LEMMA StripCloses ==
  ASSUME NEW n \in Seq(Line), NEW f,
         f.start \in 1..Len(n), f.end \in 1..Len(n), f.start <= f.end
  PROVE  \E a, b \in Nat : Closes(Strip(n, f), n, f.start, f.end, a, b)
<1>1. PICK s, e : s = f.start /\ e = f.end
  OBVIOUS
<1>2. s \in 1..Len(n) /\ e \in 1..Len(n) /\ s <= e /\ Len(n) \in Nat
  BY <1>1
<1>3. PICK pre, post : pre = SubSeq(n, 1, s - 1) /\ post = SubSeq(n, e + 1, Len(n))
  OBVIOUS
<1>4. /\ pre \in Seq(Line) /\ Len(pre) = s - 1 /\ \A i \in 1..(s - 1) : pre[i] = n[i]
      /\ post \in Seq(Line) /\ Len(post) = Len(n) - e
      /\ \A i \in 1..(Len(n) - e) : post[i] = n[i + e]
  BY <1>2, <1>3
<1>5. PICK a \in 0..Len(pre) : /\ TrimEnd(pre) = SubSeq(pre, 1, a)
                              /\ \A i \in (a + 1)..Len(pre) : pre[i] = Blank
  BY <1>4, TrimEndIs
<1>6. PICK c \in 1..(Len(post) + 1) : /\ TrimStart(post) = SubSeq(post, c, Len(post))
                                     /\ \A i \in 1..(c - 1) : post[i] = Blank
  BY <1>4, TrimStartIs
<1>7. PICK q : q = TrimEnd(pre) \o TrimStart(post)
  OBVIOUS
<1>8. PICK b : b = c + e
  OBVIOUS
<1>9. a \in 0..(s - 1) /\ b \in (e + 1)..(Len(n) + 1) /\ a \in Nat /\ b \in Nat /\ c = b - e
  BY <1>2, <1>4, <1>5, <1>6, <1>8
<1>10. /\ SubSeq(pre, 1, a) \in Seq(Line) /\ Len(SubSeq(pre, 1, a)) = a
       /\ \A i \in 1..a : SubSeq(pre, 1, a)[i] = pre[i]
  BY <1>4, <1>5
<1>11. PICK w : w = SubSeq(post, c, Len(post))
  OBVIOUS
<1>12. w \in Seq(Line) /\ Len(w) = Len(n) + 1 - b
  <2>1. /\ c \in Int /\ Len(post) \in Int
        /\ \A i \in c..Len(post) : post[i] \in Line
    BY <1>4, <1>6
  <2>2. w \in Seq(Line) /\ Len(w) = IF c <= Len(post) THEN Len(post) - c + 1 ELSE 0
    BY <1>11, <2>1, SubSeqProperties
  <2>3. Len(post) = Len(n) - e
    BY <1>4
  <2>4. (IF c <= Len(post) THEN Len(post) - c + 1 ELSE 0) = Len(n) + 1 - b
    BY <1>2, <1>9, <2>3
  <2> QED
    BY <2>2, <2>4
<1>13. \A i \in 1..(Len(n) + 1 - b) : w[i] = n[i + b - 1]
  <2> SUFFICES ASSUME NEW i \in 1..(Len(n) + 1 - b) PROVE w[i] = n[i + b - 1]
    OBVIOUS
  <2>1. w[i] = post[i + c - 1]
    BY <1>2, <1>4, <1>6, <1>9, <1>11
  <2>2. i + c - 1 \in 1..(Len(n) - e)
    BY <1>2, <1>9
  <2>3. i + c - 1 + e = i + b - 1
    BY <1>2, <1>9
  <2> QED
    BY <1>4, <2>1, <2>2, <2>3
<1>14. q = SubSeq(pre, 1, a) \o w
  BY <1>5, <1>6, <1>7, <1>11
<1>15. q \in Seq(Line) /\ Len(q) = a + Len(n) + 1 - b
  <2>1. PICK v : v = SubSeq(pre, 1, a)
    OBVIOUS
  <2>2. v \in Seq(Line) /\ Len(v) = a
    BY <2>1, <1>10
  <2>3. q \in Seq(Line) /\ Len(q) = Len(v) + Len(w)
    BY <2>1, <2>2, <1>12, <1>14, ConcatProperties
  <2> QED
    BY <1>2, <1>9, <1>12, <2>2, <2>3
<1>16. \A i \in 1..Len(q) : q[i] = n[Origin(i, a, b)]
  <2> SUFFICES ASSUME NEW i \in 1..Len(q) PROVE q[i] = n[Origin(i, a, b)]
    OBVIOUS
  <2>1. CASE i <= a
    <3>1. q[i] = SubSeq(pre, 1, a)[i]
      BY <2>1, <1>9, <1>10, <1>12, <1>14
    <3> QED
      BY <3>1, <2>1, <1>4, <1>9, <1>10 DEF Origin
  <2>2. CASE ~(i <= a)
    <3>1. q[i] = w[i - a]
      BY <2>2, <1>9, <1>10, <1>12, <1>14
    <3>2. i - a \in 1..(Len(n) + 1 - b)
      BY <2>2, <1>2, <1>9, <1>15
    <3> QED
      BY <3>1, <3>2, <2>2, <1>13 DEF Origin
  <2> QED
    BY <2>1, <2>2
<1>17. PICK m \in 0..Len(q) : /\ TrimEnd(q) = SubSeq(q, 1, m)
                              /\ \A i \in (m + 1)..Len(q) : q[i] = Blank
  BY <1>15, TrimEndIs
<1>18. PICK r : r = Strip(n, f)
  OBVIOUS
<1>19. r = SubSeq(q, 1, m)
  BY <1>1, <1>3, <1>7, <1>17, <1>18 DEF Strip
<1>20. r \in Seq(Line) /\ Len(r) = m /\ \A i \in 1..m : r[i] = q[i]
  <2>1. m \in Int /\ m >= 0 /\ \A i \in 1..m : q[i] \in Line
    BY <1>15, <1>17
  <2> QED
    BY <1>19, <2>1, SubSeqProperties
<1>21. \A i \in (a + 1)..(s - 1) : n[i] = Blank
  <2> SUFFICES ASSUME NEW i \in (a + 1)..(s - 1) PROVE n[i] = Blank
    OBVIOUS
  <2>1. i \in 1..(s - 1) /\ i \in (a + 1)..Len(pre)
    BY <1>2, <1>4, <1>9
  <2> QED
    BY <1>4, <1>5, <2>1
<1>22. \A i \in (e + 1)..(b - 1) : n[i] = Blank
  <2> SUFFICES ASSUME NEW i \in (e + 1)..(b - 1) PROVE n[i] = Blank
    OBVIOUS
  <2>1. i - e \in 1..(c - 1) /\ i - e \in 1..(Len(n) - e) /\ i - e + e = i
    BY <1>2, <1>9
  <2> QED
    BY <1>4, <1>6, <2>1
<1>23. \A i \in 1..Len(r) : r[i] = n[Origin(i, a, b)]
  BY <1>15, <1>16, <1>17, <1>20
<1>24. \A i \in (Len(r) + 1)..(a + Len(n) + 1 - b) : n[Origin(i, a, b)] = Blank
  BY <1>15, <1>16, <1>17, <1>20
<1>25. Len(r) <= a + Len(n) + 1 - b
  BY <1>15, <1>17, <1>20
<1>26. Closes(r, n, s, e, a, b)
  BY <1>9, <1>20, <1>21, <1>22, <1>23, <1>24, <1>25 DEF Closes
<1> QED
  BY <1>1, <1>9, <1>18, <1>26

(* What makes a block: its head, its end and no other of either between    *)
(* them.                                                                   *)
LEMMA BlockFacts ==
  ASSUME NEW n, NEW i \in Int, NEW j \in Int, BlockAt(n, i, j)
  PROVE  /\ i + 3 <= j /\ n[i][1] = "head" /\ n[i] # End /\ n[j] = End /\ n[j][1] # "head"
         /\ n[i] # Blank /\ n[j] # Blank
         /\ \A k \in Int : i < k /\ k < j => n[k][1] # "head" /\ n[k] # End
<1>1. \A k \in Int : i < k /\ k < j => k \in (i + 1)..(j - 1)
  OBVIOUS
<1>2. i + 3 <= j /\ n[i] = Header("v1") /\ n[j] = End
  BY DEF BlockAt
<1> QED
  BY <1>1, <1>2, LineKinds DEF BlockAt

(* Two blocks of the same notes are the same or do not overlap.            *)
LEMMA BlocksApart ==
  ASSUME NEW n, NEW i \in Int, NEW j \in Int, NEW s \in Int, NEW e \in Int,
         BlockAt(n, i, j), BlockAt(n, s, e)
  PROVE  j < s \/ e < i \/ (i = s /\ j = e)
<1>1. ~(i < s /\ s < j) /\ ~(s < i /\ i < e)
  BY BlockFacts
<1>2. i # e /\ s # j
  BY BlockFacts
<1>3. ~(i < e /\ e < j) /\ ~(s < j /\ j < e)
  BY BlockFacts
<1>4. i + 3 <= j /\ s + 3 <= e
  BY BlockFacts
<1> QED
  BY <1>1, <1>2, <1>3, <1>4

(* A header inside a block is the block's own; so is an end line.          *)
LEMMA BlockOfHead ==
  ASSUME NEW n \in Seq(Line), NEW k \in 1..Len(n), InBlock(n, k), n[k][1] = "head"
  PROVE  \E j \in k..Len(n) : BlockAt(n, k, j)
<1>1. PICK i \in 1..k, j \in k..Len(n) : BlockAt(n, i, j)
  BY DEF InBlock
<1>2. i = k
  BY <1>1, BlockFacts
<1> QED
  BY <1>1, <1>2

LEMMA BlockOfEnd ==
  ASSUME NEW n \in Seq(Line), NEW k \in 1..Len(n), InBlock(n, k), n[k] = End
  PROVE  \E i \in 1..k : BlockAt(n, i, k)
<1>1. PICK i \in 1..k, j \in k..Len(n) : BlockAt(n, i, j)
  BY DEF InBlock
<1>2. j = k
  BY <1>1, BlockFacts
<1> QED
  BY <1>1, <1>2

(* The lines left keep their order and miss s..e; written lines outside    *)
(* s..e are all left.                                                      *)
LEMMA OriginFacts ==
  ASSUME NEW n \in Seq(Line), NEW r, NEW s \in 1..Len(n), NEW e \in 1..Len(n), s <= e,
         NEW a \in Nat, NEW b \in Nat, Closes(r, n, s, e, a, b)
  PROVE  /\ Len(n) \in Nat /\ Len(r) \in Nat /\ a < s /\ e < b
         /\ \A i \in 1..Len(r) : /\ Origin(i, a, b) \in 1..Len(n)
                                 /\ Origin(i, a, b) < s \/ e < Origin(i, a, b)
                                 /\ r[i] = n[Origin(i, a, b)]
         /\ \A i, j \in 1..Len(r) : i < j <=> Origin(i, a, b) < Origin(j, a, b)
         /\ \A k \in 1..Len(n) : n[k] # Blank /\ k < s => k <= a /\ k <= Len(r)
         /\ \A k \in 1..Len(n) : n[k] # Blank /\ e < k => k - b + 1 + a <= Len(r) /\ b <= k
<1>1. /\ Len(n) \in Nat /\ Len(r) \in Nat /\ a < s /\ e < b /\ b <= Len(n) + 1
      /\ Len(r) <= a + Len(n) + 1 - b
  BY DEF Closes
<1>2. ASSUME NEW i \in 1..Len(r)
      PROVE  /\ Origin(i, a, b) \in 1..Len(n)
             /\ Origin(i, a, b) < s \/ e < Origin(i, a, b)
             /\ r[i] = n[Origin(i, a, b)]
  <2>1. r[i] = n[Origin(i, a, b)]
    BY DEF Closes
  <2>2. Origin(i, a, b) \in 1..Len(n) /\ (Origin(i, a, b) < s \/ e < Origin(i, a, b))
    BY <1>1 DEF Origin
  <2> QED
    BY <2>1, <2>2
<1>3. \A i, j \in 1..Len(r) : i < j <=> Origin(i, a, b) < Origin(j, a, b)
  BY <1>1 DEF Origin
<1>4. ASSUME NEW k \in 1..Len(n), n[k] # Blank, k < s PROVE k <= a /\ k <= Len(r)
  <2>1. k <= a
    <3>1. k \in (a + 1)..(s - 1) => n[k] = Blank
      BY DEF Closes
    <3> QED
      BY <3>1, <1>1, <1>4
  <2>2. Origin(k, a, b) = k
    BY <2>1 DEF Origin
  <2>3. k \in (Len(r) + 1)..(a + Len(n) + 1 - b) => n[k] = Blank
    BY <2>2 DEF Closes
  <2> QED
    BY <1>1, <1>4, <2>1, <2>3
<1>5. ASSUME NEW k \in 1..Len(n), n[k] # Blank, e < k PROVE k - b + 1 + a <= Len(r) /\ b <= k
  <2>1. b <= k
    <3>1. k \in (e + 1)..(b - 1) => n[k] = Blank
      BY DEF Closes
    <3> QED
      BY <3>1, <1>1, <1>5
  <2> DEFINE i == k - b + 1 + a
  <2>2. i \in Int /\ Origin(i, a, b) = k
    BY <2>1, <1>1 DEF Origin
  <2>3. i \in (Len(r) + 1)..(a + Len(n) + 1 - b) => n[Origin(i, a, b)] = Blank
    BY DEF Closes
  <2>4. i <= a + Len(n) + 1 - b
    BY <1>1
  <2> QED
    BY <1>1, <1>5, <2>1, <2>2, <2>3, <2>4
<1> QED
  BY <1>1, <1>2, <1>3, <1>4, <1>5

(* A block stays one where its lines are moved together.                   *)
LEMMA BlockMoves ==
  ASSUME NEW n, NEW m, NEW i \in Int, NEW j \in Int, NEW d \in Int,
         \A k \in i..j : m[k] = n[k + d]
  PROVE  BlockAt(m, i, j) <=> BlockAt(n, i + d, j + d)
<1>1. ASSUME BlockAt(m, i, j) PROVE BlockAt(n, i + d, j + d)
  <2>1. j >= i + 3 /\ j + d >= i + d + 3
    BY <1>1 DEF BlockAt
  <2>2. /\ m[i] = n[i + d] /\ m[i + 1] = n[i + d + 1]
        /\ m[j - 1] = n[j + d - 1] /\ m[j] = n[j + d]
    <3>1. m[i + 1] = n[i + 1 + d] /\ i + 1 + d = i + d + 1
      BY <2>1
    <3>2. m[j - 1] = n[j - 1 + d] /\ j - 1 + d = j + d - 1
      BY <2>1
    <3> QED
      BY <2>1, <3>1, <3>2
  <2>3. ASSUME NEW k \in (i + d + 1)..(j + d - 1) PROVE n[k][1] # "head" /\ n[k] # End
    <3>1. k - d \in (i + 1)..(j - 1) /\ k - d \in i..j /\ k - d + d = k
      OBVIOUS
    <3>2. m[k - d] = n[k]
      BY <3>1
    <3> QED
      BY <1>1, <3>1, <3>2 DEF BlockAt
  <2> QED
    BY <1>1, <2>1, <2>2, <2>3 DEF BlockAt
<1>2. ASSUME BlockAt(n, i + d, j + d) PROVE BlockAt(m, i, j)
  <2>1. j >= i + 3
    BY <1>2 DEF BlockAt
  <2>2. /\ m[i] = n[i + d] /\ m[i + 1] = n[i + d + 1]
        /\ m[j - 1] = n[j + d - 1] /\ m[j] = n[j + d]
    <3>1. m[i + 1] = n[i + 1 + d] /\ i + 1 + d = i + d + 1
      BY <2>1
    <3>2. m[j - 1] = n[j - 1 + d] /\ j - 1 + d = j + d - 1
      BY <2>1
    <3> QED
      BY <2>1, <3>1, <3>2
  <2>3. ASSUME NEW k \in (i + 1)..(j - 1) PROVE m[k][1] # "head" /\ m[k] # End
    <3>1. k + d \in (i + d + 1)..(j + d - 1) /\ k \in i..j
      OBVIOUS
    <3> QED
      BY <1>2, <3>1 DEF BlockAt
  <2> QED
    BY <1>2, <2>1, <2>2, <2>3 DEF BlockAt
<1> QED
  BY <1>1, <1>2

(* Where the strip joined the lines before and after the block no block    *)
(* arises: it would have a header before and an end line after, and both   *)
(* would be of blocks that are now apart.                                  *)
LEMMA NoBlockOverTheSeam ==
  ASSUME NEW n \in Seq(Line), NEW r, NEW s \in 1..Len(n), NEW e \in 1..Len(n),
         BlockAt(n, s, e), ~TakenApart(n),
         NEW a \in Nat, NEW b \in Nat, Closes(r, n, s, e, a, b),
         NEW i \in 1..Len(r), NEW j \in 1..Len(r), BlockAt(r, i, j)
  PROVE  j <= a \/ a < i
<1> SUFFICES ASSUME i <= a, a < j PROVE FALSE
  OBVIOUS
<1>1. s <= e /\ s + 3 <= e
  BY BlockFacts
<1>2. Len(r) \in Nat /\ Len(n) \in Nat /\ a < s /\ e < b
  BY <1>1, OriginFacts
<1> DEFINE k == Origin(j, a, b)
<1>3. k = j - a + b - 1 /\ b <= k /\ Origin(i, a, b) = i
  BY <1>2 DEF Origin
<1>4. k \in 1..Len(n) /\ n[k] = End /\ i \in 1..Len(n) /\ n[i] = r[i] /\ n[i][1] = "head"
  <2>1. k \in 1..Len(n) /\ r[j] = n[k] /\ i \in 1..Len(n) /\ r[i] = n[i]
    BY <1>1, <1>3, OriginFacts
  <2>2. r[j] = End /\ r[i][1] = "head"
    BY BlockFacts
  <2> QED
    BY <2>1, <2>2
<1> HIDE DEF k
<1>8. /\ \A p \in 1..Len(n) : n[p] # Blank /\ p < s => p <= a /\ p <= Len(r)
      /\ \A p \in 1..Len(n) : n[p] # Blank /\ e < p => p - b + 1 + a <= Len(r) /\ b <= p
  BY <1>1, OriginFacts
<1>9. ASSUME NEW l \in Int, i < l, l < j PROVE r[l][1] # "head" /\ r[l] # End
  <2>1. i \in Int /\ j \in Int
    OBVIOUS
  <2> QED
    BY <1>9, <2>1, BlockFacts
<1>5. InBlock(n, i) \/ InBlock(n, k)
  <2>1. i \in DOMAIN n /\ k \in DOMAIN n /\ i < k
    BY <1>1, <1>2, <1>3, <1>4
  <2> QED
    BY <1>4, <2>1, Zenon DEF TakenApart
<1>6. CASE InBlock(n, i)
  <2>1. PICK l \in i..Len(n) : BlockAt(n, i, l)
    BY <1>4, <1>6, BlockOfHead
  <2>2. l < s
    BY <1>1, <1>2, <2>1, BlocksApart
  <2>3. l \in 1..Len(n) /\ n[l] = End /\ n[l] # Blank /\ i < l
    BY <2>1, BlockFacts
  <2>4. l <= a /\ l <= Len(r)
    BY <1>8, <2>2, <2>3
  <2>5. Origin(l, a, b) = l /\ l \in 1..Len(r)
    BY <2>3, <2>4 DEF Origin
  <2>6. r[l] = End
    <3>1. r[l] = n[Origin(l, a, b)]
      BY <2>5 DEF Closes
    <3> QED
      BY <2>3, <2>5, <3>1
  <2>7. l \in Int /\ i < l /\ l < j
    BY <1>2, <1>3, <2>3, <2>4
  <2> QED
    BY <1>9, <2>6, <2>7
<1>7. CASE InBlock(n, k)
  <2>1. PICK l \in 1..k : BlockAt(n, l, k)
    BY <1>4, <1>7, BlockOfEnd
  <2>2. e < l
    BY <1>1, <1>2, <1>3, <2>1, BlocksApart
  <2>3. l \in 1..Len(n) /\ n[l][1] = "head" /\ n[l] # Blank /\ l < k
    <3>1. l \in Int /\ k \in Int /\ l \in 1..Len(n)
      BY <1>2, <1>4
    <3> QED
      BY <2>1, <3>1, BlockFacts
  <2>4. l - b + 1 + a <= Len(r) /\ b <= l
    BY <1>8, <2>2, <2>3
  <2>5. PICK m : m = l - b + 1 + a
    OBVIOUS
  <2>6. m \in Int /\ m \in 1..Len(r) /\ a < m /\ m < j
    BY <1>2, <1>3, <2>3, <2>4, <2>5
  <2>7. Origin(m, a, b) = l
    BY <1>2, <2>3, <2>5, <2>6 DEF Origin
  <2>8. r[m][1] = "head"
    <3>1. r[m] = n[Origin(m, a, b)]
      BY <2>6 DEF Closes
    <3> QED
      BY <2>3, <2>7, <3>1
  <2>9. i < m /\ m < j
    BY <1>2, <2>6
  <2> QED
    BY <1>9, <2>6, <2>8, <2>9
<1> QED
  BY <1>5, <1>6, <1>7

(* So a line left is inside a block when it was inside one before.         *)
LEMMA SameBlocks ==
  ASSUME NEW n \in Seq(Line), NEW r, NEW s \in 1..Len(n), NEW e \in 1..Len(n),
         BlockAt(n, s, e), ~TakenApart(n),
         NEW a \in Nat, NEW b \in Nat, Closes(r, n, s, e, a, b),
         NEW k \in 1..Len(r)
  PROVE  InBlock(r, k) <=> InBlock(n, Origin(k, a, b))
<1>1. s + 3 <= e /\ s <= e
  BY BlockFacts
<1>2. Len(r) \in Nat /\ Len(n) \in Nat /\ a < s /\ e < b
  BY <1>1, OriginFacts
<1>3. PICK o : o = Origin(k, a, b)
  OBVIOUS
<1>4. o \in 1..Len(n) /\ (o < s \/ e < o)
  BY <1>1, <1>3, OriginFacts
<1>5. ASSUME NEW i \in Int, NEW j \in Int, 1 <= i, j <= a, j <= Len(r)
      PROVE  BlockAt(r, i, j) <=> BlockAt(n, i, j)
  <2>1. ASSUME NEW l \in i..j PROVE r[l] = n[l + 0]
    <3>1. l \in 1..Len(r) /\ Origin(l, a, b) = l /\ l + 0 = l
      BY <1>2, <1>5 DEF Origin
    <3> QED
      BY <1>1, <3>1, OriginFacts
  <2>2. i + 0 = i /\ j + 0 = j /\ 0 \in Int
    OBVIOUS
  <2>3. BlockAt(r, i, j) <=> BlockAt(n, i + 0, j + 0)
    BY <2>1, <2>2, BlockMoves, Zenon
  <2> QED
    BY <2>2, <2>3
<1>6. ASSUME NEW i \in Int, NEW j \in Int, a < i, j <= Len(r)
      PROVE  BlockAt(r, i, j) <=> BlockAt(n, i + (b - 1 - a), j + (b - 1 - a))
  <2>1. ASSUME NEW l \in i..j PROVE r[l] = n[l + (b - 1 - a)]
    <3>1. l \in 1..Len(r) /\ Origin(l, a, b) = l + (b - 1 - a)
      BY <1>2, <1>6 DEF Origin
    <3> QED
      BY <1>1, <3>1, OriginFacts
  <2>2. b - 1 - a \in Int
    OBVIOUS
  <2> QED
    BY <2>1, <2>2, BlockMoves
<1>7. ASSUME InBlock(r, k) PROVE InBlock(n, o)
  <2>1. PICK i \in 1..k, j \in k..Len(r) : BlockAt(r, i, j)
    BY <1>7 DEF InBlock
  <2>2. i \in 1..Len(r) /\ j \in 1..Len(r) /\ i <= k /\ k <= j
    BY <1>2
  <2>3. j <= a \/ a < i
    BY <2>1, <2>2, NoBlockOverTheSeam
  <2>4. CASE j <= a
    <3>1. BlockAt(n, i, j)
      BY <1>5, <2>1, <2>2, <2>4
    <3>2. o = k
      BY <1>3, <2>2, <2>4 DEF Origin
    <3>3. i \in 1..o /\ j \in o..Len(n)
      BY <1>1, <1>2, <2>2, <2>4, <3>2
    <3> QED
      BY <3>1, <3>3 DEF InBlock
  <2>5. CASE a < i
    <3>1. BlockAt(n, i + (b - 1 - a), j + (b - 1 - a))
      BY <1>6, <2>1, <2>2, <2>5
    <3>2. o = k + (b - 1 - a)
      BY <1>2, <1>3, <2>2, <2>5 DEF Origin
    <3>3. Origin(j, a, b) = j + (b - 1 - a) /\ Origin(j, a, b) \in 1..Len(n)
      <4>1. Origin(j, a, b) = j + (b - 1 - a)
        BY <1>2, <2>2, <2>5 DEF Origin
      <4> QED
        BY <1>1, <2>2, <4>1, OriginFacts
    <3>4. i + (b - 1 - a) \in 1..o /\ j + (b - 1 - a) \in o..Len(n)
      BY <1>2, <2>2, <2>5, <3>2, <3>3
    <3> QED
      BY <3>1, <3>4 DEF InBlock
  <2> QED
    BY <2>3, <2>4, <2>5
<1>8. ASSUME InBlock(n, o) PROVE InBlock(r, k)
  <2>1. PICK i \in 1..o, j \in o..Len(n) : BlockAt(n, i, j)
    BY <1>8 DEF InBlock
  <2>2. i \in 1..Len(n) /\ j \in 1..Len(n) /\ i <= o /\ o <= j
    BY <1>2, <1>4
  <2>3. j < s \/ e < i
    <3>1. j < s \/ e < i \/ (i = s /\ j = e)
      BY <2>1, <2>2, BlocksApart
    <3> QED
      BY <1>4, <2>2, <3>1
  <2>4. i + 3 <= j /\ n[i] # Blank /\ n[j] # Blank
    BY <2>1, <2>2, BlockFacts
  <2>5. CASE j < s
    <3>1. j <= a /\ j <= Len(r)
      BY <1>1, <2>2, <2>4, <2>5, OriginFacts
    <3>2. BlockAt(r, i, j)
      BY <1>5, <2>1, <2>2, <3>1
    <3>3. o = k
      BY <1>1, <1>2, <1>3, <2>2, <3>1 DEF Origin
    <3>4. i \in 1..k /\ j \in k..Len(r)
      BY <1>2, <2>2, <3>1, <3>3
    <3> QED
      BY <3>2, <3>4 DEF InBlock
  <2>6. CASE e < i
    <3>1. j - b + 1 + a <= Len(r) /\ b <= i /\ b <= j
      BY <1>1, <1>2, <2>2, <2>4, <2>6, OriginFacts
    <3>2. PICK u, v : u = i - b + 1 + a /\ v = j - b + 1 + a
      OBVIOUS
    <3>3. /\ u \in Int /\ v \in Int /\ a < u /\ v <= Len(r)
          /\ i = u + (b - 1 - a) /\ j = v + (b - 1 - a)
      BY <1>2, <2>2, <3>1, <3>2
    <3>4. BlockAt(r, u, v)
      BY <1>6, <2>1, <3>3
    <3>5. o = k + (b - 1 - a)
      BY <1>1, <1>2, <1>3, <2>2, <2>6 DEF Origin
    <3>6. u \in 1..k /\ v \in k..Len(r)
      BY <1>2, <2>2, <3>3, <3>5
    <3> QED
      BY <3>4, <3>6 DEF InBlock
  <2> QED
    BY <2>3, <2>5, <2>6
<1> QED
  BY <1>3, <1>7, <1>8

(* What is outside every block after a strip was so before, and nothing    *)
(* that was is missing.                                                    *)
LEMMA KeptComeFromKept ==
  ASSUME NEW n \in Seq(Line), NEW r, NEW s \in 1..Len(n), NEW e \in 1..Len(n),
         BlockAt(n, s, e), ~TakenApart(n),
         NEW a \in Nat, NEW b \in Nat, Closes(r, n, s, e, a, b),
         NEW k \in Kept(r)
  PROVE  Origin(k, a, b) \in Kept(n)
<1>1. s + 3 <= e /\ s <= e
  BY BlockFacts
<1>2. Len(r) \in Nat /\ Len(n) \in Nat /\ a < s /\ e < b /\ DOMAIN r = 1..Len(r) /\ DOMAIN n = 1..Len(n)
  BY <1>1, OriginFacts DEF Closes
<1> QED
  <2>1. k \in 1..Len(r) /\ r[k] # Blank /\ ~InBlock(r, k)
    BY <1>2 DEF Kept
  <2>2. Origin(k, a, b) \in 1..Len(n) /\ r[k] = n[Origin(k, a, b)]
    <3>1. \A i \in 1..Len(r) : Origin(i, a, b) \in 1..Len(n) /\ r[i] = n[Origin(i, a, b)]
      BY <1>1, OriginFacts
    <3> QED
      BY <2>1, <3>1
  <2>3. ~InBlock(n, Origin(k, a, b))
    BY <2>1, SameBlocks
  <2> QED
    BY <1>2, <2>1, <2>2, <2>3 DEF Kept

(* Every kept line of n is a kept line of r.                               *)
AllCome(r, n, a, b) == \A m \in Kept(n) : \E k \in Kept(r) : m = Origin(k, a, b)

LEMMA KeptStay ==
  ASSUME NEW n \in Seq(Line), NEW r, NEW s \in 1..Len(n), NEW e \in 1..Len(n),
         BlockAt(n, s, e), ~TakenApart(n),
         NEW a \in Nat, NEW b \in Nat, Closes(r, n, s, e, a, b)
  PROVE  AllCome(r, n, a, b)
<1> SUFFICES ASSUME NEW m \in Kept(n) PROVE \E k \in Kept(r) : m = Origin(k, a, b)
  BY DEF AllCome
<1>1. s + 3 <= e /\ s <= e
  BY BlockFacts
<1>2. Len(r) \in Nat /\ Len(n) \in Nat /\ a < s /\ e < b /\ DOMAIN r = 1..Len(r) /\ DOMAIN n = 1..Len(n)
  BY <1>1, OriginFacts DEF Closes
<1> QED
  <2>1. m \in 1..Len(n) /\ n[m] # Blank /\ ~InBlock(n, m)
    BY <1>2 DEF Kept
  <2>2. m < s \/ e < m
    <3> SUFFICES ASSUME s <= m, m <= e PROVE FALSE
      BY <2>1
    <3>1. s \in 1..m /\ e \in m..Len(n)
      BY <2>1
    <3> QED
      BY <2>1, <3>1 DEF InBlock
  <2>3. PICK k : k = IF m < s THEN m ELSE m - b + 1 + a
    OBVIOUS
  <2>4. k \in 1..Len(r) /\ Origin(k, a, b) = m
    <3>1. CASE m < s
      <4>1. m <= a /\ m <= Len(r)
        BY <1>1, <2>1, <3>1, OriginFacts
      <4> QED
        BY <1>2, <2>1, <2>3, <3>1, <4>1 DEF Origin
    <3>2. CASE e < m
      <4>1. m - b + 1 + a <= Len(r) /\ b <= m
        BY <1>1, <2>1, <3>2, OriginFacts
      <4>2. k = m - b + 1 + a
        BY <1>1, <2>1, <2>3, <3>2
      <4> QED
        BY <1>2, <2>1, <4>1, <4>2 DEF Origin
    <3> QED
      BY <2>2, <3>1, <3>2
  <2>5. r[k] = n[m] /\ ~InBlock(r, k)
    BY <1>1, <2>1, <2>4, OriginFacts, SameBlocks
  <2> QED
    BY <1>2, <2>1, <2>4, <2>5 DEF Kept

(* Taking one block out leaves the text outside blocks as it is, numbers   *)
(* included: the kept lines correspond one to one and in order.            *)
LEMMA OutsideStays ==
  ASSUME NEW n \in Seq(Line), NEW r, NEW s \in 1..Len(n), NEW e \in 1..Len(n),
         BlockAt(n, s, e), ~TakenApart(n),
         NEW a \in Nat, NEW b \in Nat, Closes(r, n, s, e, a, b)
  PROVE  Outside(r) = Outside(n)
<1>1. s <= e
  BY BlockFacts
<1>2. Len(r) \in Nat /\ Len(n) \in Nat /\ DOMAIN r = 1..Len(r) /\ DOMAIN n = 1..Len(n)
  BY <1>1, OriginFacts DEF Closes
<1>3. /\ Kept(r) \subseteq 1..Len(r)
      /\ \A m \in Kept(n) : \E k \in Kept(r) : m = Origin(k, a, b)
  <2>1. Kept(r) \subseteq 1..Len(r)
    BY <1>2 DEF Kept
  <2>2. \A m \in Kept(n) : \E k \in Kept(r) : m = Origin(k, a, b)
    <3>1. AllCome(r, n, a, b)
      BY KeptStay
    <3> QED
      BY <3>1 DEF AllCome
  <2> QED
    BY <2>1, <2>2
<1>4. ASSUME NEW k \in Kept(r)
      PROVE  Numbered(Kept(r), k) = Numbered(Kept(n), Origin(k, a, b))
  <2> DEFINE R == {j \in Kept(r) : j <= k}
             N == {j \in Kept(n) : j <= Origin(k, a, b)}
             g == [j \in R |-> Origin(j, a, b)]
  <2>1. \A i, j \in Kept(r) : i <= j <=> Origin(i, a, b) <= Origin(j, a, b)
    <3> SUFFICES ASSUME NEW i \in Kept(r), NEW j \in Kept(r)
                 PROVE  i <= j <=> Origin(i, a, b) <= Origin(j, a, b)
      OBVIOUS
    <3>1. i \in 1..Len(r) /\ j \in 1..Len(r)
      BY <1>3
    <3>2. Origin(i, a, b) \in Int /\ Origin(j, a, b) \in Int
      BY <3>1 DEF Origin
    <3>3. j < i <=> Origin(j, a, b) < Origin(i, a, b)
      BY <1>1, <3>1, OriginFacts
    <3> QED
      BY <3>1, <3>2, <3>3
  <2>2. \A i, j \in Kept(r) : Origin(i, a, b) = Origin(j, a, b) => i = j
    <3> SUFFICES ASSUME NEW i \in Kept(r), NEW j \in Kept(r), Origin(i, a, b) = Origin(j, a, b)
                 PROVE  i = j
      OBVIOUS
    <3>1. i \in 1..Len(r) /\ j \in 1..Len(r)
      BY <1>3
    <3>2. Origin(i, a, b) \in Int
      BY <3>1 DEF Origin
    <3>3. ~(j < i) /\ ~(i < j)
      BY <1>1, <3>1, <3>2, OriginFacts
    <3> QED
      BY <3>1, <3>3
  <2>3. g \in [R -> N]
    BY <2>1, KeptComeFromKept
  <2>4. \A m \in N : \E j \in R : g[j] = m
    <3> SUFFICES ASSUME NEW m \in N PROVE \E j \in R : g[j] = m
      OBVIOUS
    <3>1. PICK j \in Kept(r) : m = Origin(j, a, b)
      BY <1>3
    <3>2. j \in R
      BY <2>1, <3>1
    <3> QED
      BY <3>1, <3>2
  <2>5. \A i, j \in R : g[i] = g[j] => i = j
    BY <2>2
  <2>6. ExistsBijection(R, N)
    <3> HIDE DEF R, N, g
    <3>1. g \in Bijection(R, N)
      BY <2>3, <2>4, <2>5 DEF Bijection, Injection, Surjection, IsInjective
    <3> QED
      BY <3>1 DEF ExistsBijection
  <2>7. IsFiniteSet(R)
    <3>1. R \subseteq 1..Len(r)
      BY <1>3
    <3>2. IsFiniteSet(1..Len(r))
      BY <1>2, FS_Interval
    <3> QED
      BY <3>1, <3>2, FS_Subset
  <2>8. Cardinality(N) = Cardinality(R)
    BY <2>6, <2>7, FS_Bijection
  <2> QED
    BY <2>8 DEF Numbered
<1>5. ASSUME NEW k \in Kept(r) PROVE r[k] = n[Origin(k, a, b)]
  BY <1>1, <1>3, OriginFacts
<1>6. Outside(r) \subseteq Outside(n)
  <2> SUFFICES ASSUME NEW k \in Kept(r) PROVE <<Numbered(Kept(r), k), r[k]>> \in Outside(n)
    BY DEF Outside
  <2>1. Origin(k, a, b) \in Kept(n)
    BY KeptComeFromKept
  <2> QED
    BY <1>4, <1>5, <2>1 DEF Outside
<1>7. Outside(n) \subseteq Outside(r)
  <2> SUFFICES ASSUME NEW m \in Kept(n) PROVE <<Numbered(Kept(n), m), n[m]>> \in Outside(r)
    BY DEF Outside
  <2>1. PICK k \in Kept(r) : m = Origin(k, a, b)
    BY <1>3
  <2> QED
    BY <1>4, <1>5, <2>1 DEF Outside
<1> QED
  BY <1>6, <1>7

(* Nor does it leave a header and an end line without a block between them *)
(* where there was none.                                                   *)
LEMMA StaysWhole ==
  ASSUME NEW n \in Seq(Line), NEW r, NEW s \in 1..Len(n), NEW e \in 1..Len(n),
         BlockAt(n, s, e), ~TakenApart(n),
         NEW a \in Nat, NEW b \in Nat, Closes(r, n, s, e, a, b)
  PROVE  ~TakenApart(r)
<1> SUFFICES ASSUME NEW i \in DOMAIN r, NEW j \in DOMAIN r, i < j, r[i][1] = "head", r[j] = End,
                    ~InBlock(r, i), ~InBlock(r, j)
             PROVE  FALSE
  BY DEF TakenApart
<1>1. s <= e
  BY BlockFacts
<1>2. DOMAIN r = 1..Len(r) /\ DOMAIN n = 1..Len(n)
  BY DEF Closes
<1>3. PICK u, v : u = Origin(i, a, b) /\ v = Origin(j, a, b)
  OBVIOUS
<1>4. u \in DOMAIN n /\ v \in DOMAIN n /\ u < v /\ n[u] = r[i] /\ n[v] = r[j]
  <2>1. /\ \A k \in 1..Len(r) : Origin(k, a, b) \in 1..Len(n) /\ r[k] = n[Origin(k, a, b)]
        /\ \A k, l \in 1..Len(r) : k < l <=> Origin(k, a, b) < Origin(l, a, b)
    BY <1>1, OriginFacts
  <2> QED
    BY <1>2, <1>3, <2>1
<1>5. ~InBlock(n, u) /\ ~InBlock(n, v)
  BY <1>2, <1>3, SameBlocks
<1> QED
  BY <1>4, <1>5, Zenon DEF TakenApart

-----------------------------------------------------------------------------

(* One round of strip_all makes the notes shorter and spares the text      *)
(* outside blocks.                                                         *)
LEMMA StripTakesTheBlock ==
  ASSUME NEW n \in Seq(Line), NEW f, f = Find(n), f.kind = "block"
  PROVE  /\ Strip(n, f) \in Seq(Line) /\ Len(Strip(n, f)) < Len(n)
         /\ ~TakenApart(n) => ~TakenApart(Strip(n, f)) /\ Outside(Strip(n, f)) = Outside(n)
<1>1. PICK s, e, r : s = f.start /\ e = f.end /\ r = Strip(n, f)
  OBVIOUS
<1>2. s \in 1..Len(n) /\ e \in 1..Len(n) /\ BlockAt(n, s, e)
  BY <1>1, FoundBlock
<1>3. s <= e
  BY <1>2, BlockFacts
<1>4. PICK a \in Nat, b \in Nat : Closes(r, n, s, e, a, b)
  BY <1>1, <1>2, <1>3, StripCloses
<1>5. r \in Seq(Line) /\ Len(r) < Len(n)
  BY <1>2, <1>3, <1>4 DEF Closes
<1>6. ~TakenApart(n) => ~TakenApart(r) /\ Outside(r) = Outside(n)
  BY <1>2, <1>4, OutsideStays, StaysWhole
<1> QED
  BY <1>1, <1>5, <1>6

-----------------------------------------------------------------------------
(* strip_all                                                               *)

(* After k rounds the notes are k lines shorter or hold no block that find *)
(* would report; the text outside blocks is what it was.                   *)
Settled(n, k, r) ==
  /\ r \in Seq(Line)
  /\ Len(r) <= Len(n) - k \/ Find(r).kind # "block"
  /\ ~TakenApart(n) => ~TakenApart(r) /\ Outside(r) = Outside(n)

(* A round of strip_all keeps Settled, one round on.                       *)
LEMMA OneRound ==
  ASSUME NEW n \in Seq(Line), NEW k \in Nat, NEW r, Settled(n, k, r)
  PROVE  Settled(n, k + 1, StripOne(r))
<1>1. r \in Seq(Line) /\ Len(r) \in Nat /\ Len(n) \in Nat
  BY DEF Settled
<1>2. CASE Find(r).kind = "block"
  <2>1. PICK q : q = StripOne(r) /\ q = Strip(r, Find(r))
    BY <1>2 DEF StripOne
  <2>2. /\ q \in Seq(Line) /\ Len(q) < Len(r)
        /\ ~TakenApart(r) => ~TakenApart(q) /\ Outside(q) = Outside(r)
    BY <1>1, <1>2, <2>1, StripTakesTheBlock
  <2>3. Len(r) <= Len(n) - k
    BY <1>2 DEF Settled
  <2>4. Len(q) <= Len(n) - (k + 1)
    BY <1>1, <2>2, <2>3
  <2>5. ~TakenApart(n) => ~TakenApart(q) /\ Outside(q) = Outside(n)
    BY <2>2 DEF Settled
  <2> QED
    BY <2>1, <2>2, <2>4, <2>5 DEF Settled
<1>3. CASE Find(r).kind # "block"
  BY <1>3 DEF StripOne, Settled
<1> QED
  BY <1>2, <1>3

(* The recursion strip_all is written with defines its rounds.             *)
LEMMA RoundsFollow ==
  ASSUME NEW n \in Seq(Line)
  PROVE  /\ Rounds(n)[0] = n
         /\ \A k \in Nat : Rounds(n)[k + 1] = StripOne(Rounds(n)[k])
<1> DEFINE E(g) == [k \in Nat |-> IF k = 0 THEN n ELSE StripOne(g[k - 1])]
           step == [m \in Seq(Line) |-> StripOne(m)]
<1>1. ASSUME NEW m \in Seq(Line) PROVE StripOne(m) \in Seq(Line)
  <2>1. CASE Find(m).kind = "block"
    BY <2>1, StripTakesTheBlock DEF StripOne
  <2>2. CASE Find(m).kind # "block"
    BY <2>2 DEF StripOne
  <2> QED
    BY <2>1, <2>2
<1>2. step \in [Seq(Line) -> Seq(Line)]
  BY <1>1
<1>3. PICK f : f \in [Nat -> Seq(Line)] /\ f[0] = n /\ \A k \in Nat : f[k + 1] = step[f[k]]
  <2> HIDE DEF step
  <2>1. PICK f : Iterates(f, Seq(Line), n, step)
    BY <1>2, IteratesExist, Zenon
  <2> QED
    BY <2>1, Zenon DEF Iterates
<1>4. f = E(f)
  <2>1. ASSUME NEW k \in Nat, k # 0 PROVE f[k] = StripOne(f[k - 1])
    <3>1. k - 1 \in Nat /\ k = (k - 1) + 1
      BY <2>1
    <3>2. f[(k - 1) + 1] = step[f[k - 1]] /\ f[k - 1] \in Seq(Line)
      BY <1>3, <3>1
    <3> QED
      BY <3>1, <3>2
  <2> QED
    BY <1>3, <2>1
<1>5. Rounds(n) = CHOOSE g : g = E(g)
  BY DEF Rounds
<1>6. PICK g : g = Rounds(n) /\ g = E(g)
  BY <1>4, <1>5
<1>7. g[0] = n
  BY <1>6
<1>8. ASSUME NEW k \in Nat PROVE g[k + 1] = StripOne(g[k])
  <2>1. k + 1 \in Nat /\ k + 1 # 0 /\ (k + 1) - 1 = k
    OBVIOUS
  <2>2. g[k + 1] = StripOne(g[(k + 1) - 1])
    BY <1>6, <2>1
  <2> QED
    BY <2>1, <2>2
<1> QED
  BY <1>6, <1>7, <1>8

(* No round is a first that is not settled.                                *)
LEMMA RoundsSettle ==
  ASSUME NEW n \in Seq(Line), NEW k \in Nat
  PROVE  Settled(n, k, Rounds(n)[k])
<1> DEFINE Bad == {i \in Nat : ~Settled(n, i, Rounds(n)[i])}
<1> SUFFICES ASSUME Bad # {} PROVE FALSE
  OBVIOUS
<1>1. PICK i \in Bad : \A j \in Bad : i <= j
  BY LeastNat
<1>2. i # 0
  <2>1. Settled(n, 0, n)
    BY DEF Settled
  <2> QED
    BY <2>1, RoundsFollow
<1>3. i - 1 \in Nat /\ i - 1 \notin Bad /\ (i - 1) + 1 = i
  BY <1>1, <1>2
<1>4. Settled(n, i - 1, Rounds(n)[i - 1])
  BY <1>3
<1>5. Settled(n, (i - 1) + 1, StripOne(Rounds(n)[i - 1]))
  BY <1>3, <1>4, OneRound
<1>6. Rounds(n)[(i - 1) + 1] = StripOne(Rounds(n)[i - 1])
  BY <1>3, RoundsFollow
<1> QED
  BY <1>3, <1>5, <1>6

(* Empty notes hold no block.                                              *)
LEMMA EmptyHasNoBlock == Find(<<>>).kind # "block"
<1>1. {i \in DOMAIN <<>> : <<>>[i][1] = "head" /\ \E j \in i..Len(<<>>) : <<>>[j] = End} = {}
  OBVIOUS
<1>2. LastHeader(<<>>) = Max({0})
  BY <1>1 DEF LastHeader
<1>3. Max({0}) = 0
  BY MaxIsGreatest
<1> QED
  BY <1>2, <1>3 DEF Find, Nothing

(* strip_all ends with no block to find, and has spared the text outside   *)
(* blocks.                                                                 *)
LEMMA StripAllSettles ==
  ASSUME NEW n \in Seq(Line)
  PROVE  /\ StripAll(n) \in Seq(Line) /\ Find(StripAll(n)).kind # "block"
         /\ ~TakenApart(n) => Outside(StripAll(n)) = Outside(n)
<1>1. PICK r : r = StripAll(n)
  OBVIOUS
<1>2. Settled(n, Len(n), r)
  BY <1>1, RoundsSettle DEF StripAll
<1>3. r \in Seq(Line) /\ (Len(r) <= 0 \/ Find(r).kind # "block")
  BY <1>2 DEF Settled
<1>4. Len(r) <= 0 => r = <<>>
  BY <1>3
<1> QED
  BY <1>1, <1>2, <1>3, <1>4, EmptyHasNoBlock DEF Settled

-----------------------------------------------------------------------------

-----------------------------------------------------------------------------
(* What a backup assembles                                                 *)

(* r is p and then q.                                                      *)
Joins(r, p, q) ==
  /\ r \in Seq(Line) /\ Len(r) = Len(p) + Len(q)
  /\ \A i \in 1..Len(p) : r[i] = p[i]
  /\ \A i \in 1..Len(q) : r[Len(p) + i] = q[i]

LEMMA ConcatJoins ==
  ASSUME NEW p \in Seq(Line), NEW q \in Seq(Line)
  PROVE  Joins(p \o q, p, q)
BY DEF Joins

(* What assemble makes of notes and a document it carries: the block comes *)
(* last.                                                                   *)
LEMMA AssembledLines ==
  ASSUME NEW n \in Seq(Line), NEW d \in Seq(Line), Carried(d)
  PROVE  \E l \in Nat, x \in Seq(Line) :
           /\ x = Assemble(n, d) /\ Len(x) = l + Len(d) + 4
           /\ x[l + 1] = Header("v1") /\ x[l + 2] = Open
           /\ x[l + Len(d) + 3] = Close /\ x[l + Len(d) + 4] = End
           /\ \A i \in 1..Len(d) : x[l + 2 + i] = d[i]
<1>1. PICK p : p = IF n = <<>> THEN <<>> ELSE Append(n, Blank)
  OBVIOUS
<1>2. p \in Seq(Line) /\ Len(p) \in Nat /\ Len(d) \in Nat
  BY <1>1, LineKinds
<1>3. PICK h, t : h = <<Header("v1"), Open>> /\ t = <<Close, End>>
  OBVIOUS
<1>4. /\ h \in Seq(Line) /\ Len(h) = 2 /\ h[1] = Header("v1") /\ h[2] = Open
      /\ t \in Seq(Line) /\ Len(t) = 2 /\ t[1] = Close /\ t[2] = End
  BY <1>3, LineKinds
<1>5. PICK u : u = h \o d
  OBVIOUS
<1>6. /\ u \in Seq(Line) /\ Len(u) = 2 + Len(d)
      /\ \A i \in 1..2 : u[i] = h[i]
      /\ \A i \in 1..Len(d) : u[2 + i] = d[i]
  <2>1. /\ u \in Seq(Line) /\ Len(u) = Len(h) + Len(d)
        /\ \A i \in 1..Len(h) : u[i] = h[i]
        /\ \A i \in 1..Len(d) : u[Len(h) + i] = d[i]
    <3>1. h \in Seq(Line)
      BY <1>4
    <3>2. Joins(u, h, d)
      BY <1>5, <3>1, ConcatJoins
    <3> QED
      BY <3>2 DEF Joins
  <2> QED
    BY <1>4, <2>1
<1>7. u[1] = Header("v1") /\ u[2] = Open /\ \A i \in 1..Len(d) : u[2 + i] = d[i]
  BY <1>4, <1>6
<1>8. PICK v : v = u \o t
  OBVIOUS
<1>9. /\ v \in Seq(Line) /\ Len(v) = Len(d) + 4
      /\ \A i \in 1..(2 + Len(d)) : v[i] = u[i]
      /\ v[Len(d) + 3] = t[1] /\ v[Len(d) + 4] = t[2]
  <2>1. /\ v \in Seq(Line) /\ Len(v) = Len(u) + Len(t)
        /\ \A i \in 1..Len(u) : v[i] = u[i]
        /\ \A i \in 1..Len(t) : v[Len(u) + i] = t[i]
    <3>1. u \in Seq(Line) /\ t \in Seq(Line)
      BY <1>4, <1>6
    <3>2. Joins(v, u, t)
      BY <1>8, <3>1, ConcatJoins
    <3> QED
      BY <3>2 DEF Joins
  <2>2. Len(u) = 2 + Len(d) /\ Len(t) = 2
    BY <1>4, <1>6
  <2>3. v[(2 + Len(d)) + 1] = t[1] /\ v[(2 + Len(d)) + 2] = t[2]
    BY <2>1, <2>2
  <2>4. (2 + Len(d)) + 1 = Len(d) + 3 /\ (2 + Len(d)) + 2 = Len(d) + 4
    BY <1>2
  <2> QED
    BY <2>1, <2>2, <2>3, <2>4
<1>10. /\ v[1] = Header("v1") /\ v[2] = Open /\ v[Len(d) + 3] = Close /\ v[Len(d) + 4] = End
       /\ \A i \in 1..Len(d) : v[2 + i] = d[i]
  <2>1. 1 \in 1..(2 + Len(d)) /\ 2 \in 1..(2 + Len(d)) /\ \A i \in 1..Len(d) : 2 + i \in 1..(2 + Len(d))
    BY <1>2
  <2> QED
    BY <1>4, <1>7, <1>9, <2>1
<1>11. PICK x : x = p \o v
  OBVIOUS
<1>12. x = Assemble(n, d)
  BY <1>1, <1>3, <1>5, <1>8, <1>11, Zenon DEF Assemble, Render
<1>13. x \in Seq(Line) /\ Len(x) = Len(p) + Len(d) + 4
  <2>1. x \in Seq(Line) /\ Len(x) = Len(p) + Len(v)
    BY <1>2, <1>9, <1>11, ConcatJoins DEF Joins
  <2> QED
    BY <1>2, <1>9, <2>1
<1>14. \A i \in 1..(Len(d) + 4) : x[Len(p) + i] = v[i]
  <2>1. \A i \in 1..Len(v) : x[Len(p) + i] = v[i]
    BY <1>2, <1>9, <1>11, ConcatJoins DEF Joins
  <2> QED
    BY <1>9, <2>1
<1>15. /\ x[Len(p) + 1] = v[1] /\ x[Len(p) + 2] = v[2]
       /\ x[Len(p) + Len(d) + 3] = v[Len(d) + 3] /\ x[Len(p) + Len(d) + 4] = v[Len(d) + 4]
  BY <1>2, <1>14
<1>16. ASSUME NEW i \in 1..Len(d) PROVE x[Len(p) + 2 + i] = d[i]
  <2>1. 2 + i \in 1..(Len(d) + 4) /\ Len(p) + 2 + i = Len(p) + (2 + i)
    BY <1>2
  <2> QED
    BY <1>10, <1>14, <2>1
<1> QED
  BY <1>2, <1>10, <1>12, <1>13, <1>15, <1>16

(* find reports the block assemble wrote, and in it the document, whatever *)
(* the notes in front of it hold.                                          *)
LEMMA AssembledIsFound ==
  ASSUME NEW n \in Seq(Line), NEW d \in Seq(Line), Carried(d)
  PROVE  /\ Mentions(Assemble(n, d))
         /\ Find(Assemble(n, d)).kind = "block" /\ Find(Assemble(n, d)).yaml = d
<1>1. PICK l \in Nat, x \in Seq(Line) :
        /\ x = Assemble(n, d) /\ Len(x) = l + Len(d) + 4
        /\ x[l + 1] = Header("v1") /\ x[l + 2] = Open
        /\ x[l + Len(d) + 3] = Close /\ x[l + Len(d) + 4] = End
        /\ \A i \in 1..Len(d) : x[l + 2 + i] = d[i]
  BY AssembledLines
<1>2. Len(d) \in Nat /\ Len(d) >= 1 /\ \A i \in 1..Len(d) : d[i][1] = "yaml"
  <2>1. d # <<>> /\ \A i \in DOMAIN d : d[i][1] = "yaml"
    BY DEF Carried, Parses
  <2> QED
    BY <2>1
<1>3. PICK e : e = l + Len(d) + 4
  OBVIOUS
<1>4. /\ e \in Nat /\ l + 5 <= e /\ Len(x) = e /\ x[e] = End /\ x[e - 1] = Close
      /\ l + 1 \in DOMAIN x /\ e \in DOMAIN x /\ DOMAIN x = 1..e
  BY <1>1, <1>2, <1>3
<1>5. ASSUME NEW i \in (l + 2)..(e - 1) PROVE x[i][1] # "head" /\ x[i] # End
  <2>1. CASE i = l + 2
    BY <1>1, <2>1, LineKinds
  <2>2. CASE i = e - 1
    BY <1>4, <2>2, LineKinds
  <2>3. CASE i # l + 2 /\ i # e - 1
    <3>1. i - (l + 2) \in 1..Len(d) /\ l + 2 + (i - (l + 2)) = i
      <4>1. PICK c \in Nat : c = Len(d)
        BY <1>2
      <4>2. i - (l + 2) \in 1..c /\ l + 2 + (i - (l + 2)) = i
        BY <1>3, <2>3, <4>1
      <4> QED
        BY <4>1, <4>2
    <3>2. x[i][1] = "yaml"
      BY <1>1, <1>2, <3>1
    <3> QED
      BY <3>2, LineKinds
  <2> QED
    BY <2>1, <2>2, <2>3
<1>6. LastHeader(x) = l + 1
  <2> DEFINE S == {0} \cup {i \in DOMAIN x : x[i][1] = "head" /\ \E j \in i..Len(x) : x[j] = End}
  <2>1. S \subseteq 0..Len(x) /\ S # {} /\ Len(x) \in Nat
    BY <1>4
  <2>2. PICK m : m = Max(S) /\ m \in S /\ \A k \in S : k <= m
    BY <2>1, MaxIsGreatest
  <2>3. l + 1 \in S
    <3>1. x[l + 1][1] = "head"
      BY <1>1, LineKinds
    <3>2. e \in (l + 1)..Len(x)
      BY <1>4
    <3> QED
      BY <1>4, <3>1, <3>2
  <2>4. m \in Nat /\ l + 1 <= m /\ m <= e
    BY <1>4, <2>1, <2>2, <2>3
  <2>5. x[m][1] = "head"
    BY <2>2, <2>4
  <2>6. x[e][1] # "head"
    BY <1>4, LineKinds
  <2>7. m = l + 1
    <3>1. m # e
      BY <2>5, <2>6
    <3>2. m \notin (l + 2)..(e - 1)
      BY <1>5, <2>5
    <3> QED
      BY <1>4, <2>4, <3>1, <3>2
  <2> QED
    BY <2>2, <2>7 DEF LastHeader
<1>7. Min({j \in ((l + 1) + 2)..Len(x) : x[j] = End}) = e
  <2> DEFINE T == {j \in ((l + 1) + 2)..Len(x) : x[j] = End}
  <2>1. T = {e}
    <3>1. e \in T
      BY <1>4
    <3>2. ASSUME NEW j \in T PROVE j = e
      <4>1. j \in Int /\ l + 3 <= j /\ j <= e /\ x[j] = End
        BY <1>4
      <4>2. j \notin (l + 2)..(e - 1)
        BY <1>5, <4>1
      <4> QED
        BY <1>4, <4>1, <4>2
    <3> QED
      BY <3>1, <3>2
  <2>2. {e} \subseteq Nat /\ {e} # {}
    BY <1>4
  <2>3. Min({e}) = e
    BY <2>2, MinIsLeast
  <2> QED
    BY <2>1, <2>3
<1>8. Find(x) = FindAt(x, l + 1)
  BY <1>6 DEF Find
<1>9. FindAt(x, l + 1) = Block(x, l + 1, e)
  <2>1. (l + 1) + 1 = l + 2
    OBVIOUS
  <2> QED
    BY <1>1, <1>7, <2>1, Zenon DEF FindAt
<1>10. PICK y : y = SubSeq(x, (l + 1) + 2, e - 2)
  OBVIOUS
<1>11. Block(x, l + 1, e) = [kind |-> "block", start |-> l + 1, end |-> e, yaml |-> y]
  BY <1>4, <1>10 DEF Block
<1>12. y = d
  <2>1. y \in Seq(Line) /\ Len(y) = Len(d)
    <3>1. \A i \in ((l + 1) + 2)..(e - 2) : x[i] \in Line
      BY <1>4
    <3>2. y \in Seq(Line) /\ Len(y) = IF (l + 1) + 2 <= e - 2 THEN (e - 2) - ((l + 1) + 2) + 1 ELSE 0
      BY <1>4, <1>10, <3>1, SubSeqProperties
    <3> QED
      BY <1>2, <1>3, <3>2
  <2>2. ASSUME NEW i \in 1..Len(d) PROVE y[i] = d[i]
    <3>1. y[i] = x[(l + 1) + 2 + i - 1]
      BY <1>2, <1>3, <1>4, <1>10
    <3>2. (l + 1) + 2 + i - 1 = l + 2 + i
      OBVIOUS
    <3> QED
      BY <1>1, <3>1, <3>2
  <2> QED
    BY <2>1, <2>2, SeqEqual
<1>13. Find(x).kind = "block" /\ Find(x).yaml = y
  BY <1>8, <1>9, <1>11
<1>14. Mentions(x)
  <2>1. x[l + 1][1] = "head"
    BY <1>1, LineKinds
  <2> QED
    BY <1>4, <2>1 DEF Mentions
<1> QED
  BY <1>1, <1>12, <1>13, <1>14

-----------------------------------------------------------------------------

-----------------------------------------------------------------------------
(* Imports                                                                 *)

(* What an import owes: it hands back lines, the text outside blocks as it *)
(* met it, and no block once it took one.                                  *)
Clears(n, r) ==
  /\ r.notes \in Seq(Line) /\ r.doc \in Seq(Line)
  /\ ~TakenApart(n) => Outside(r.notes) = Outside(n)
  /\ r.did \in Imports => Find(r.notes).kind # "block"

(* The two ways an import ends: the block and all others stripped, or the  *)
(* notes left alone.                                                       *)
LEMMA StripAllClears ==
  ASSUME NEW n \in Seq(Line), NEW f, f = Find(n), f.kind = "block",
         NEW d \in Seq(Line), NEW did
  PROVE  Clears(n, Result(StripAll(Strip(n, f)), d, did))
<1>1. PICK r : r = Strip(n, f)
  OBVIOUS
<1>2. /\ r \in Seq(Line)
      /\ ~TakenApart(n) => ~TakenApart(r) /\ Outside(r) = Outside(n)
  BY <1>1, StripTakesTheBlock
<1>3. PICK q : q = StripAll(r)
  OBVIOUS
<1>4. /\ q \in Seq(Line) /\ Find(q).kind # "block"
      /\ ~TakenApart(r) => Outside(q) = Outside(r)
  BY <1>2, <1>3, StripAllSettles
<1>5. Clears(n, Result(q, d, did))
  BY <1>2, <1>4 DEF Clears, Result
<1> QED
  BY <1>1, <1>3, <1>5

LEMMA UntouchedClears ==
  ASSUME NEW n \in Seq(Line), NEW d \in Seq(Line), NEW did, did \notin Imports
  PROVE  Clears(n, Result(n, d, did))
BY DEF Clears, Result

(* Every branch of import, and of write_config with its marker, does.      *)
LEMMA ImportClears ==
  ASSUME NEW n \in Seq(Line), NEW d \in Seq(Line), NEW mode
  PROVE  Clears(n, Import(n, d, mode))
<1>1. PICK f, keep : f = Find(n) /\ keep = (mode = "install" /\ d # NoDocument)
  OBVIOUS
<1>2. Import(n, d, mode) = ImportFound(n, d, keep, f)
  BY <1>1 DEF Import
<1>3. "none" \notin Imports /\ "error" \notin Imports
  BY DEF Imports
<1>4. f.kind \in {"nothing", "malformed", "block"}
  <2>1. \A s : FindAt(n, s).kind \in {"malformed", "block"}
    BY DEF FindAt, Block, Malformed
  <2> QED
    BY <1>1, <2>1 DEF Find, Nothing
<1>5. CASE f.kind = "block"
  <2>1. f.yaml \in Seq(Line)
    <3>1. f.start \in 1..Len(n) /\ f.end \in 1..Len(n) /\ f.yaml = SubSeq(n, f.start + 2, f.end - 2)
      BY <1>1, <1>5, FoundBlock
    <3>2. PICK s \in 1..Len(n), e \in 1..Len(n) : f.yaml = SubSeq(n, s + 2, e - 2)
      BY <3>1
    <3>3. s + 2 \in Int /\ e - 2 \in Int /\ \A i \in (s + 2)..(e - 2) : n[i] \in Line
      OBVIOUS
    <3>4. SubSeq(n, s + 2, e - 2) \in Seq(Line)
      BY <3>3, SubSeqProperties
    <3> QED
      BY <3>2, <3>4
  <2>2. CASE keep
    <3>1. Import(n, d, mode) = Result(StripAll(Strip(n, f)), d, "stripped")
      BY <1>2, <1>5, <2>2 DEF ImportFound
    <3> QED
      BY <1>1, <1>5, <3>1, StripAllClears
  <2>3. CASE ~keep /\ ~Lints(f.yaml)
    <3>1. Import(n, d, mode) = Result(n, d, "error")
      BY <1>2, <1>5, <2>3 DEF ImportFound
    <3> QED
      BY <1>3, <3>1, UntouchedClears
  <2>4. CASE ~keep /\ Lints(f.yaml)
    <3>1. Import(n, d, mode) = Result(StripAll(Strip(n, f)), f.yaml, "imported")
      BY <1>2, <1>5, <2>4 DEF ImportFound
    <3> QED
      BY <1>1, <1>5, <2>1, <3>1, StripAllClears
  <2> QED
    BY <2>2, <2>3, <2>4
<1>6. CASE f.kind = "nothing"
  <2>1. Import(n, d, mode) = Result(n, d, "none")
    BY <1>2, <1>6 DEF ImportFound
  <2> QED
    BY <1>3, <2>1, UntouchedClears
<1>7. CASE f.kind = "malformed"
  <2>1. Import(n, d, mode) = Result(n, d, "error")
    BY <1>2, <1>7 DEF ImportFound
  <2> QED
    BY <1>3, <2>1, UntouchedClears
<1> QED
  BY <1>4, <1>5, <1>6, <1>7

LEMMA RestoredClears ==
  ASSUME NEW n \in Seq(Line), NEW d \in Seq(Line)
  PROVE  Clears(n, Restored(n, d))
<1>1. CASE Mentions(n)
  BY <1>1, ImportClears DEF Restored
<1>2. CASE ~Mentions(n)
  <2>1. NoDocument \in Seq(Line) /\ "cleared" \notin Imports
    BY DEF NoDocument, Imports
  <2> QED
    BY <1>2, <2>1, UntouchedClears DEF Restored
<1> QED
  BY <1>1, <1>2

(* A restore of what assemble wrote brings the document back.              *)
LEMMA RestoredBringsBack ==
  ASSUME NEW n \in Seq(Line), NEW d \in Seq(Line), NEW e, Carried(d), Lints(d)
  PROVE  Restored(Assemble(n, d), e).doc = d
<1>1. PICK x : x = Assemble(n, d)
  OBVIOUS
<1>2. Mentions(x) /\ Find(x).kind = "block" /\ Find(x).yaml = d
  BY <1>1, AssembledIsFound
<1>3. Restored(x, e) = ImportFound(x, e, FALSE, Find(x))
  BY <1>2 DEF Restored, Import
<1>4. ImportFound(x, e, FALSE, Find(x)) = Result(StripAll(Strip(x, Find(x))), d, "imported")
  BY <1>2 DEF ImportFound
<1>5. PICK q : q = StripAll(Strip(x, Find(x)))
  OBVIOUS
<1>6. Result(q, d, "imported").doc = d
  BY DEF Result
<1> QED
  BY <1>1, <1>3, <1>4, <1>5, <1>6

(* What a backup writes is lines.                                          *)
LEMMA AssembleLines ==
  ASSUME NEW n \in Seq(Line), NEW d \in Seq(Line)
  PROVE  Assemble(n, d) \in Seq(Line)
<1>1. CASE Carried(d)
  BY <1>1, AssembledLines
<1>2. CASE ~Carried(d)
  BY <1>2 DEF Assemble
<1> QED
  BY <1>1, <1>2

-----------------------------------------------------------------------------

-----------------------------------------------------------------------------
(* The invariant                                                           *)

(* Notes and document are lines, and the archive's notes are what assemble *)
(* made of some notes and the document of that time.                       *)
Held ==
  /\ notes \in Seq(Line) /\ doc \in Seq(Line)
  /\ archive.taken => /\ archive.doc \in Seq(Line)
                      /\ \E n \in Seq(Line) : archive.notes = Assemble(n, archive.doc)

(* The inductive invariant.  The three properties speak of the last import *)
(* only; Held is what the next one relies on.                              *)
NotesInv == Held /\ CarriedDocumentComesBack /\ UserTextStays /\ NoBlockLeftToImport

USE LinesAssumption

(* A step that is not an import leaves nothing to show but Held.           *)
LEMMA QuietSteps ==
  ASSUME Held', last' = NoImport
  PROVE  NotesInv'
<1>1. last'.by = "none"
  BY DEF NoImport
<1> QED
  BY <1>1 DEF NotesInv, CarriedDocumentComesBack, UserTextStays, NoBlockLeftToImport

(* An import that clears, and brings the document back where it is a       *)
(* restore's, keeps the invariant.                                         *)
LEMMA TakeKeeps ==
  ASSUME NotesInv, NEW by, NEW met, NEW r, Take(by, met, r), Clears(met, r),
         by = "restore" =>
           /\ Carried(archive.doc) /\ Lints(archive.doc) => r.doc = archive.doc
           /\ ~Mentions(archive.notes) => r.doc = NoDocument
  PROVE  NotesInv'
<1>1. /\ notes' = r.notes /\ doc' = r.doc /\ archive' = archive
      /\ last' = [by |-> by, met |-> met, did |-> r.did]
  BY DEF Take
<1>2. last'.by = by /\ last'.met = met /\ last'.did = r.did
  BY <1>1
<1>3. Held'
  BY <1>1 DEF NotesInv, Held, Clears
<1>4. CarriedDocumentComesBack'
  BY <1>1, <1>2 DEF CarriedDocumentComesBack
<1>5. UserTextStays'
  BY <1>1, <1>2 DEF UserTextStays, Clears
<1>6. NoBlockLeftToImport'
  BY <1>1, <1>2 DEF NoBlockLeftToImport, Clears
<1> QED
  BY <1>3, <1>4, <1>5, <1>6 DEF NotesInv

(* A backup keeps it: the archive is what assemble made.                   *)
LEMMA BackupKeeps == NotesInv /\ Backup => NotesInv'
<1> SUFFICES ASSUME NotesInv, Backup PROVE NotesInv'
  OBVIOUS
<1>1. /\ notes' = notes /\ doc' = doc /\ last' = NoImport
      /\ archive' = [taken |-> TRUE, notes |-> Assemble(notes, doc), doc |-> doc]
  BY DEF Backup
<1>2. archive'.doc = doc /\ archive'.notes = Assemble(notes, doc)
  BY <1>1
<1>3. Held'
  BY <1>1, <1>2 DEF NotesInv, Held
<1> QED
  BY <1>1, <1>3, QuietSteps

(* A restore over the guest or at a new vmid keeps it, whatever document d *)
(* was there.                                                              *)
LEMMA RestoreKeeps ==
  ASSUME NotesInv, archive.taken, NEW d \in Seq(Line),
         Take("restore", archive.notes, Restored(archive.notes, d))
  PROVE  NotesInv'
<1>1. PICK n \in Seq(Line) : archive.notes = Assemble(n, archive.doc)
  BY DEF NotesInv, Held
<1>2. archive.doc \in Seq(Line) /\ archive.notes \in Seq(Line)
  BY <1>1, AssembleLines DEF NotesInv, Held
<1>3. Clears(archive.notes, Restored(archive.notes, d))
  BY <1>2, RestoredClears
<1>4. Carried(archive.doc) /\ Lints(archive.doc) => Restored(archive.notes, d).doc = archive.doc
  BY <1>1, <1>2, RestoredBringsBack
<1>5. ~Mentions(archive.notes) => Restored(archive.notes, d).doc = NoDocument
  BY DEF Restored, Result
<1> QED
  BY <1>3, <1>4, <1>5, TakeKeeps

(* A restore where pve-meta is not installed keeps it: block and all come  *)
(* in with the notes, and Held asks no more of notes than lines.           *)
LEMMA RestoreElsewhereKeeps == NotesInv /\ RestoreElsewhere => NotesInv'
<1> SUFFICES ASSUME NotesInv, RestoreElsewhere PROVE NotesInv'
  OBVIOUS
<1>1. PICK n \in Seq(Line) : archive.notes = Assemble(n, archive.doc)
  BY DEF NotesInv, Held, RestoreElsewhere
<1>2. archive.doc \in Seq(Line)
  BY DEF NotesInv, Held, RestoreElsewhere
<1>3. archive.notes \in Seq(Line)
  BY <1>1, <1>2, AssembleLines
<1>4. NoDocument \in Seq(Line) /\ "none" \notin Imports
  BY DEF NoDocument, Imports
<1>5. Clears(archive.notes, Result(archive.notes, NoDocument, "none"))
  BY <1>3, <1>4, UntouchedClears
<1>6. Take("elsewhere", archive.notes, Result(archive.notes, NoDocument, "none"))
  BY DEF RestoreElsewhere
<1> QED
  BY <1>5, <1>6, TakeKeeps

(* The scan at install keeps it.                                           *)
LEMMA ScanKeeps == NotesInv /\ ScanNotes => NotesInv'
<1> SUFFICES ASSUME NotesInv, ScanNotes PROVE NotesInv'
  OBVIOUS
<1>1. Take("scan", notes, Import(notes, doc, "install"))
  BY DEF ScanNotes
<1>2. Clears(notes, Import(notes, doc, "install"))
  BY ImportClears DEF NotesInv, Held
<1> QED
  BY <1>1, <1>2, TakeKeeps

(* An administrator's line taken out, and a document stored, keep it.      *)
LEMMA EditKeeps == NotesInv /\ (EditNotes \/ StoreDocument) => NotesInv'
<1>1. ASSUME NotesInv, EditNotes PROVE NotesInv'
  <2>1. /\ doc' = doc /\ archive' = archive /\ last' = NoImport
        /\ \E i \in DOMAIN notes : notes' = RemoveAt(notes, i)
    BY <1>1 DEF EditNotes
  <2>2. PICK i \in DOMAIN notes : notes' = RemoveAt(notes, i)
    BY <2>1
  <2>3. notes \in Seq(Line) /\ i \in 1..Len(notes) /\ Len(notes) \in Nat
    BY <1>1 DEF NotesInv, Held
  <2>4. SubSeq(notes, 1, i - 1) \in Seq(Line) /\ SubSeq(notes, i + 1, Len(notes)) \in Seq(Line)
    BY <2>3
  <2>5. notes' \in Seq(Line)
    BY <2>2, <2>4, ConcatProperties DEF RemoveAt
  <2>6. Held'
    BY <1>1, <2>1, <2>5 DEF NotesInv, Held
  <2> QED
    BY <2>1, <2>6, QuietSteps
<1>2. ASSUME NotesInv, StoreDocument PROVE NotesInv'
  <2>1. notes' = notes /\ archive' = archive /\ last' = NoImport /\ doc' \in Documents \cup {NoDocument}
    BY <1>2 DEF StoreDocument
  <2>2. doc' \in Seq(Line)
    <3>1. Documents \subseteq Seq(Line)
      BY LinesAssumption
    <3>2. CASE doc' \in Documents
      BY <3>1, <3>2
    <3>3. CASE doc' = NoDocument
      <4>1. NoDocument \in Seq(Line)
        BY DEF NoDocument
      <4> QED
        BY <3>3, <4>1
    <3> QED
      BY <2>1, <3>2, <3>3
  <2>3. Held'
    BY <1>2, <2>1, <2>2 DEF NotesInv, Held
  <2> QED
    BY <2>1, <2>3, QuietSteps
<1> QED
  BY <1>1, <1>2

(* NotesInv is an invariant of BackupNotes.                                *)
LEMMA NotesInvInductive == Spec => []NotesInv
<1>1. Init => NotesInv
  <2> SUFFICES ASSUME Init PROVE NotesInv
    OBVIOUS
  <2>1. notes \in Seq(Line) /\ doc \in Seq(Line)
    BY DEF Init, NoDocument
  <2>2. ~archive.taken /\ last.by = "none"
    BY DEF Init, NoArchive, NoImport
  <2> QED
    BY <2>1, <2>2 DEF NotesInv, Held, CarriedDocumentComesBack, UserTextStays, NoBlockLeftToImport
<1>2. NotesInv /\ [Next]_vars => NotesInv'
  <2> SUFFICES ASSUME NotesInv, [Next]_vars PROVE NotesInv'
    OBVIOUS
  <2>1. CASE Backup
    BY <2>1, BackupKeeps
  <2>2. CASE Restore
    <3>1. doc \in Seq(Line)
      BY DEF NotesInv, Held
    <3> QED
      BY <2>2, <3>1, RestoreKeeps DEF Restore
  <2>3. CASE RestoreNew
    <3>1. NoDocument \in Seq(Line)
      BY DEF NoDocument
    <3> QED
      BY <2>3, <3>1, RestoreKeeps DEF RestoreNew
  <2>4. CASE RestoreElsewhere
    BY <2>4, RestoreElsewhereKeeps
  <2>5. CASE ScanNotes
    BY <2>5, ScanKeeps
  <2>6. CASE EditNotes \/ StoreDocument
    BY <2>6, EditKeeps
  <2>7. CASE UNCHANGED vars
    BY <2>7 DEF vars, NotesInv, Held, CarriedDocumentComesBack, UserTextStays, NoBlockLeftToImport
  <2> QED
    BY <2>1, <2>2, <2>3, <2>4, <2>5, <2>6, <2>7 DEF Next
<1> QED
  BY <1>1, <1>2, PTL DEF Spec

(* A document a backup carried comes back by every restore of it, whatever *)
(* the notes hold in front of its block: find takes the last header with   *)
(* an end line (backup.rs), and that is assemble's.  Notes without the     *)
(* mark leave no document.  For all notes, documents and limits.           *)
THEOREM BackupRestores == Spec => []CarriedDocumentComesBack
BY NotesInvInductive, PTL DEF NotesInv

(* An import, however many blocks strip_all takes, leaves all other text   *)
(* of the notes in place and in order, unless they met a block taken apart *)
(* by hand.  For all notes, documents and limits.                          *)
THEOREM ImportsSpareTheText == Spec => []UserTextStays
BY NotesInvInductive, PTL DEF NotesInv

(* After an import that took a block strip_all has left none that a later  *)
(* scan-notes would import in place of a document deleted since.  For all  *)
(* notes, documents and limits.                                            *)
THEOREM ImportsLeaveNoBlock == Spec => []NoBlockLeftToImport
BY NotesInvInductive, PTL DEF NotesInv
=============================================================================
