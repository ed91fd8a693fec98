---------------------------- MODULE BTreeProofs ----------------------------
(***************************************************************************)
(* Proofs about BTree for every even order, every set of keys and any      *)
(* number of insertions: the shape of the tree, the order of its keys and  *)
(* the index it implements.                                                *)
(***************************************************************************)
EXTENDS BTree, FiniteSetTheorems, CommonTheorems

NodeType == [keys : Seq(Key), kids : Seq(Nat), is_leaf : BOOLEAN]

LEMMA Degree == t \in Nat /\ t >= 2 /\ ORDER = 2 * t /\ Key \subseteq Int /\ MAX_INSERTS \in Nat
<1>1. PICK s \in 2 .. ORDER : ORDER = 2 * s BY BTreeAssumption
<1>2. s \in Nat /\ s >= 2 /\ (2 * s) \div 2 = s BY <1>1
<1>3. t = s BY <1>1, <1>2 DEF t
<1> QED BY <1>1, <1>2, <1>3, BTreeAssumption

(***************************************************************************)
(* The operators: sequences that are cut and extended, the positions in a  *)
(* node.                                                                   *)
(***************************************************************************)
LEMMA SubSeqFacts ==
  ASSUME NEW S, NEW s \in Seq(S), NEW a \in Nat, NEW b \in Nat, 1 <= a, a <= b + 1, b <= Len(s)
  PROVE  /\ SubSeq(s, a, b) \in Seq(S) /\ Len(SubSeq(s, a, b)) = b + 1 - a
         /\ \A x \in 1 .. b + 1 - a : SubSeq(s, a, b)[x] = s[a + x - 1]
<1>1. SubSeq(s, a, b) = [x \in 1 .. b + 1 - a |-> s[a + x - 1]]
  OBVIOUS
<1>2. \A x \in 1 .. b + 1 - a : a + x - 1 \in 1 .. Len(s) OBVIOUS
<1> DEFINE u == SubSeq(s, a, b)
<1>3. b + 1 - a \in Nat OBVIOUS
<1>4. /\ u = [x \in 1 .. b + 1 - a |-> u[x]]
      /\ \A x \in 1 .. b + 1 - a : u[x] = s[a + x - 1]
  BY <1>1
<1>5. \A x \in 1 .. b + 1 - a : s[a + x - 1] \in S BY <1>2
<1> DEFINE m == b + 1 - a
<1>6. /\ m \in Nat /\ u = [x \in 1 .. m |-> u[x]]
      /\ \A x \in 1 .. m : u[x] \in S
  BY <1>3, <1>4, <1>5
<1> HIDE DEF u, m
<1>7. u \in Seq(S) /\ Len(u) = m BY <1>6, SeqIs
<1> QED BY <1>4, <1>7 DEF u, m

(* Sequence z is s with e at place i. *)
Extended(z, s, i, e) ==
  /\ Len(z) = Len(s) + 1
  /\ \A x \in 1 .. i - 1 : z[x] = s[x]
  /\ z[i] = e
  /\ \A x \in i + 1 .. Len(s) + 1 : z[x] = s[x - 1]

LEMMA InsertAtFacts ==
  ASSUME NEW S, NEW s \in Seq(S), NEW i \in 1 .. Len(s) + 1, NEW e \in S
  PROVE  InsertAt(s, i, e) \in Seq(S) /\ Extended(InsertAt(s, i, e), s, i, e)
<1> DEFINE u == SubSeq(s, 1, i - 1)
           v == SubSeq(s, i, Len(s))
<1>1. /\ u \in Seq(S) /\ Len(u) = i - 1
      /\ \A x \in 1 .. i - 1 : u[x] = s[x]
  <2>1. i - 1 \in Nat /\ 1 \in Nat /\ i - 1 <= Len(s) OBVIOUS
  <2>2. /\ u \in Seq(S) /\ Len(u) = (i - 1) + 1 - 1
        /\ \A x \in 1 .. (i - 1) + 1 - 1 : u[x] = s[1 + x - 1]
    BY <2>1, SubSeqFacts
  <2> HIDE DEF u
  <2> QED BY <2>2
<1>2. /\ v \in Seq(S) /\ Len(v) = Len(s) + 1 - i
      /\ \A x \in 1 .. Len(s) + 1 - i : v[x] = s[i + x - 1]
  BY SubSeqFacts
<1> HIDE DEF u, v
<1> DEFINE o == <<e>>
<1>3. o \in Seq(S) /\ Len(o) = 1 /\ o[1] = e OBVIOUS
<1> HIDE DEF o
<1> DEFINE w == u \o o
<1>4. /\ w \in Seq(S) /\ Len(w) = Len(u) + Len(o)
      /\ \A x \in 1 .. Len(u) : w[x] = u[x]
      /\ \A x \in Len(u) + 1 .. Len(u) + Len(o) : w[x] = o[x - Len(u)]
  BY <1>1, <1>3, ConcatFacts
<1> HIDE DEF w
<1>5. /\ w \in Seq(S) /\ Len(w) = i
      /\ \A x \in 1 .. i - 1 : w[x] = s[x]
      /\ w[i] = e
  BY <1>1, <1>3, <1>4
<1>6. /\ w \o v \in Seq(S) /\ Len(w \o v) = Len(w) + Len(v)
      /\ \A x \in 1 .. Len(w) : (w \o v)[x] = w[x]
      /\ \A x \in Len(w) + 1 .. Len(w) + Len(v) : (w \o v)[x] = v[x - Len(w)]
  BY <1>2, <1>5, ConcatFacts
<1>7. Len(w) + Len(v) = Len(s) + 1 BY <1>2, <1>5
<1>8. ASSUME NEW x \in i + 1 .. Len(s) + 1 PROVE (w \o v)[x] = s[x - 1]
  <2>1. x - i \in 1 .. Len(s) + 1 - i /\ i + (x - i) - 1 = x - 1 OBVIOUS
  <2>2. (w \o v)[x] = v[x - i] BY <1>5, <1>6, <1>7
  <2> QED BY <1>2, <2>1, <2>2
<1>9. InsertAt(s, i, e) = w \o v BY DEF InsertAt, w, u, v, o
<1> DEFINE z == w \o v
<1>10. z \in Seq(S) /\ Len(z) = Len(s) + 1 /\ z[i] = e BY <1>5, <1>6, <1>7
<1>11. \A x \in 1 .. i - 1 : z[x] = s[x] BY <1>5, <1>6
<1>12. \A x \in i + 1 .. Len(s) + 1 : z[x] = s[x - 1] BY <1>8
<1> HIDE DEF z, w, v
<1>13. Extended(z, s, i, e) BY <1>10, <1>11, <1>12 DEF Extended
<1>14. InsertAt(s, i, e) = z BY <1>9 DEF z
<1> QED BY <1>10, <1>13, <1>14

LEMMA GreatestFacts ==
  ASSUME NEW S \in SUBSET Nat, S # {}, NEW b \in Nat, \A x \in S : x <= b
  PROVE  Greatest(S) \in S /\ \A x \in S : x <= Greatest(S)
<1> DEFINE T == {u \in Nat : \A x \in S : x <= u}
<1>1. T # {} /\ T \in SUBSET Nat OBVIOUS
<1> HIDE DEF T
<1>2. PICK u \in T : \A y \in T : u <= y BY <1>1, LeastNumber
<1>3. u \in Nat /\ \A x \in S : x <= u BY <1>2 DEF T
<1>4. u \in S
  <2> SUFFICES ASSUME u \notin S PROVE FALSE OBVIOUS
  <2>1. \A x \in S : x <= u - 1 /\ x \in Nat BY <1>3
  <2>2. u - 1 \in Nat
    <3>1. PICK x \in S : TRUE OBVIOUS
    <3> QED BY <1>3, <2>1, <3>1
  <2>3. u - 1 \in T BY <2>1, <2>2 DEF T
  <2> QED BY <1>2, <1>3, <2>3
<1>5. \E x \in S : \A y \in S : y <= x BY <1>3, <1>4
<1> QED BY <1>5 DEF Greatest

LEMMA LeastFacts ==
  ASSUME NEW S \in SUBSET Nat, S # {}
  PROVE  Least(S) \in S /\ \A x \in S : Least(S) <= x
<1>1. \E x \in S : \A y \in S : x <= y BY LeastNumber
<1> QED BY <1>1 DEF Least

(* Position and Scan stay in the node and find what they look for. *)
LEMMA PositionFacts ==
  ASSUME NEW n, n.keys \in Seq(Key), NEW k \in Key
  PROVE  /\ Position(n, k) \in 1 .. Len(n.keys) + 1
         /\ Position(n, k) > 1 => n.keys[Position(n, k) - 1] <= k
         /\ \A x \in Position(n, k) .. Len(n.keys) : k < n.keys[x]
<1> DEFINE S == {0} \cup {x \in 1 .. Len(n.keys) : ~ (k < n.keys[x])}
           g == Greatest(S)
<1>1. S \in SUBSET Nat /\ S # {} /\ Len(n.keys) \in Nat /\ \A x \in S : x <= Len(n.keys)
  OBVIOUS
<1>2. g \in S /\ \A x \in S : x <= g
  <2> HIDE DEF S
  <2> QED BY <1>1, GreatestFacts
<1>3. Position(n, k) = 1 + g BY DEF Position
<1> HIDE DEF g
<1>4. \A x \in 1 .. Len(n.keys) : n.keys[x] \in Int /\ k \in Int
  <2> DEFINE s == n.keys
  <2>1. s \in Seq(Key) OBVIOUS
  <2> HIDE DEF s
  <2>2. \A x \in 1 .. Len(s) : s[x] \in Key BY <2>1
  <2>3. \A y \in Key : y \in Int BY Degree
  <2> QED BY <2>2, <2>3 DEF s
<1> QED BY <1>2, <1>3, <1>4

LEMMA ScanFacts ==
  ASSUME NEW n, n.keys \in Seq(Key), NEW k \in Key
  PROVE  /\ Scan(n, k) \in 1 .. Len(n.keys) + 1
         /\ \A x \in 1 .. Scan(n, k) - 1 : n.keys[x] < k
         /\ Scan(n, k) <= Len(n.keys) => k <= n.keys[Scan(n, k)]
<1> DEFINE S == {Len(n.keys) + 1} \cup {x \in 1 .. Len(n.keys) : ~ (k > n.keys[x])}
           g == Least(S)
<1>1. S \in SUBSET Nat /\ S # {} /\ Len(n.keys) \in Nat OBVIOUS
<1>2. g \in S /\ \A x \in S : g <= x
  <2> HIDE DEF S
  <2> QED BY <1>1, LeastFacts
<1>3. Scan(n, k) = g BY DEF Scan
<1> HIDE DEF g
<1>4. \A x \in 1 .. Len(n.keys) : n.keys[x] \in Int /\ k \in Int
  <2> DEFINE s == n.keys
  <2>1. s \in Seq(Key) OBVIOUS
  <2> HIDE DEF s
  <2>2. \A x \in 1 .. Len(s) : s[x] \in Key BY <2>1
  <2>3. \A y \in Key : y \in Int BY Degree
  <2> QED BY <2>2, <2>3 DEF s
<1> QED BY <1>1, <1>2, <1>3, <1>4

LEMMA HalfFacts ==
  ASSUME NEW full, full.keys \in Seq(Key), full.kids \in Seq(Nat), full.is_leaf \in BOOLEAN,
         Len(full.keys) = 2 * t - 1,
         Len(full.kids) = IF full.is_leaf THEN 0 ELSE 2 * t
  PROVE  /\ Left(full) \in NodeType /\ Right(full) \in NodeType
         /\ Left(full).is_leaf = full.is_leaf /\ Right(full).is_leaf = full.is_leaf
         /\ Len(Left(full).keys) = t - 1 /\ Len(Right(full).keys) = t - 1
         /\ \A a \in 1 .. t - 1 : /\ Left(full).keys[a] = full.keys[a]
                                  /\ Right(full).keys[a] = full.keys[t + a]
         /\ Len(Left(full).kids) = IF full.is_leaf THEN 0 ELSE t
         /\ Len(Right(full).kids) = IF full.is_leaf THEN 0 ELSE t
         /\ ~ full.is_leaf => \A a \in 1 .. t : /\ Left(full).kids[a] = full.kids[a]
                                                /\ Right(full).kids[a] = full.kids[t + a]
<1> DEFINE s == full.keys
           c == full.kids
           lo == SubSeq(s, 1, t - 1)
           hi == SubSeq(s, t + 1, 2 * t - 1)
           ll == SubSeq(c, 1, t)
           rr == SubSeq(c, t + 1, 2 * t)
<1>1. t \in Nat /\ t >= 2 BY Degree
<1>2. s \in Seq(Key) /\ Len(s) = 2 * t - 1 OBVIOUS
<1>3. c \in Seq(Nat) /\ (~ full.is_leaf => Len(c) = 2 * t) OBVIOUS
<1> HIDE DEF s, c
<1>4. lo \in Seq(Key) /\ Len(lo) = t - 1 /\ \A a \in 1 .. t - 1 : lo[a] = s[a]
  <2>1. 1 \in Nat /\ t - 1 \in Nat /\ 1 <= t - 1 + 1 /\ t - 1 <= Len(s) BY <1>1, <1>2
  <2>2. /\ lo \in Seq(Key) /\ Len(lo) = (t - 1) + 1 - 1
        /\ \A a \in 1 .. (t - 1) + 1 - 1 : lo[a] = s[1 + a - 1]
    BY <1>2, <2>1, SubSeqFacts
  <2> HIDE DEF lo
  <2> QED BY <1>1, <2>2
<1>5. hi \in Seq(Key) /\ Len(hi) = t - 1 /\ \A a \in 1 .. t - 1 : hi[a] = s[t + a]
  <2>1. t + 1 \in Nat /\ 2 * t - 1 \in Nat /\ t + 1 <= 2 * t - 1 + 1 /\ 2 * t - 1 <= Len(s)
    BY <1>1, <1>2
  <2>2. /\ hi \in Seq(Key) /\ Len(hi) = (2 * t - 1) + 1 - (t + 1)
        /\ \A a \in 1 .. (2 * t - 1) + 1 - (t + 1) : hi[a] = s[(t + 1) + a - 1]
    BY <1>1, <1>2, <2>1, SubSeqFacts
  <2> HIDE DEF hi
  <2> QED BY <1>1, <2>2
 <1>6. ~ full.is_leaf => /\ ll \in Seq(Nat) /\ Len(ll) = t
                       /\ \A a \in 1 .. t : ll[a] = c[a]
  <2> SUFFICES ASSUME ~ full.is_leaf
               PROVE  ll \in Seq(Nat) /\ Len(ll) = t /\ \A a \in 1 .. t : ll[a] = c[a]
    OBVIOUS
  <2>1. 1 \in Nat /\ 1 <= t + 1 /\ t <= Len(c) BY <1>1, <1>3
  <2>2. /\ ll \in Seq(Nat) /\ Len(ll) = t + 1 - 1
        /\ \A a \in 1 .. t + 1 - 1 : ll[a] = c[1 + a - 1]
    BY <1>1, <1>3, <2>1, SubSeqFacts, SMTT(30)
  <2> HIDE DEF ll
  <2> QED BY <1>1, <2>2
 <1>7. ~ full.is_leaf => /\ rr \in Seq(Nat) /\ Len(rr) = t
                       /\ \A a \in 1 .. t : rr[a] = c[t + a]
  <2> SUFFICES ASSUME ~ full.is_leaf
               PROVE  rr \in Seq(Nat) /\ Len(rr) = t /\ \A a \in 1 .. t : rr[a] = c[t + a]
    OBVIOUS
  <2>1. t + 1 \in Nat /\ 2 * t \in Nat /\ 1 <= t + 1 /\ t + 1 <= 2 * t + 1 /\ 2 * t <= Len(c)
    BY <1>1, <1>3
  <2>2. /\ rr \in Seq(Nat) /\ Len(rr) = 2 * t + 1 - (t + 1)
        /\ \A a \in 1 .. 2 * t + 1 - (t + 1) : rr[a] = c[(t + 1) + a - 1]
    BY <1>1, <1>3, <2>1, SubSeqFacts, SMTT(30)
  <2> HIDE DEF rr
  <2> QED BY <1>1, <2>2
<1>8. /\ Left(full) = [keys |-> lo, is_leaf |-> full.is_leaf,
                        kids |-> IF full.is_leaf THEN <<>> ELSE ll]
      /\ Right(full) = [keys |-> hi, is_leaf |-> full.is_leaf,
                         kids |-> IF full.is_leaf THEN <<>> ELSE rr]
  BY DEF Left, Right, s, c
<1> HIDE DEF lo, hi, ll, rr
<1>9. <<>> \in Seq(Nat) /\ Len(<<>>) = 0 OBVIOUS
<1> DEFINE kl == IF full.is_leaf THEN <<>> ELSE ll
           kr == IF full.is_leaf THEN <<>> ELSE rr
<1>10. /\ kl \in Seq(Nat) /\ kr \in Seq(Nat)
       /\ Len(kl) = IF full.is_leaf THEN 0 ELSE t
       /\ Len(kr) = IF full.is_leaf THEN 0 ELSE t
       /\ ~ full.is_leaf => \A a \in 1 .. t : kl[a] = c[a] /\ kr[a] = c[t + a]
  BY <1>6, <1>7, <1>9
<1> HIDE DEF kl, kr
<1>11. /\ Left(full).keys = lo /\ Left(full).is_leaf = full.is_leaf /\ Left(full).kids = kl
       /\ Right(full).keys = hi /\ Right(full).is_leaf = full.is_leaf
       /\ Right(full).kids = kr
  BY <1>8 DEF kl, kr
<1>12. Left(full) \in NodeType /\ Right(full) \in NodeType
  <2>1. /\ Left(full) = [keys |-> lo, is_leaf |-> full.is_leaf, kids |-> kl]
        /\ Right(full) = [keys |-> hi, is_leaf |-> full.is_leaf, kids |-> kr]
    BY <1>8 DEF kl, kr
  <2> QED BY <1>4, <1>5, <1>10, <2>1 DEF NodeType
<1> QED BY <1>4, <1>5, <1>10, <1>11, <1>12 DEF s, c

(***************************************************************************)
(* A tree on the nodes N with root r: H gives every node its height and D  *)
(* the nodes of its subtree.  N is a parameter because the proof of        *)
(* GrowRoot meets a tree between two states.                               *)
(***************************************************************************)
Shaped(N) ==
  /\ N \in Seq(NodeType)
  /\ \A n \in 1 .. Len(N) : \A a \in 1 .. Len(N[n].kids) : N[n].kids[a] \in 1 .. Len(N)

Filled(N, r) ==
  \A n \in 1 .. Len(N) :
    /\ Len(N[n].keys) <= ORDER - 1 /\ (n # r => Len(N[n].keys) >= t - 1)
    /\ Len(N[n].kids) = IF N[n].is_leaf THEN 0 ELSE Len(N[n].keys) + 1

Placed(N, r) ==
  /\ r \in 1 .. Len(N)
  /\ \A n \in 1 .. Len(N) : \A a \in 1 .. Len(N[n].kids) : N[n].kids[a] # r
  /\ \A n \in 1 .. Len(N), m \in 1 .. Len(N) :
       \A a \in 1 .. Len(N[n].kids), b \in 1 .. Len(N[m].kids) :
         N[n].kids[a] = N[m].kids[b] => n = m /\ a = b
  /\ \A m \in 1 .. Len(N) : m # r =>
       \E n \in 1 .. Len(N) : \E a \in 1 .. Len(N[n].kids) : m = N[n].kids[a]

Leveled(N, H) ==
  /\ H \in [1 .. Len(N) -> Nat]
  /\ \A n \in 1 .. Len(N) :
       /\ N[n].is_leaf => H[n] = 0
       /\ \A a \in 1 .. Len(N[n].kids) : H[n] = H[N[n].kids[a]] + 1

Below(N, D) ==
  /\ D \in [1 .. Len(N) -> SUBSET (1 .. Len(N))]
  /\ \A n \in 1 .. Len(N), m \in 1 .. Len(N) :
       m \in D[n] <=> m = n \/ \E a \in 1 .. Len(N[n].kids) : m \in D[N[n].kids[a]]

(* Key k may lie under the a-th child of n. *)
Fits(N, n, a, k) ==
  /\ a > 1 => N[n].keys[a - 1] <= k
  /\ a <= Len(N[n].keys) => k <= N[n].keys[a]

Ordered(N, D) ==
  \A n \in 1 .. Len(N) :
    /\ \A a \in 1 .. Len(N[n].keys), b \in 1 .. Len(N[n].keys) :
         a < b => N[n].keys[a] <= N[n].keys[b]
    /\ \A a \in 1 .. Len(N[n].kids) : \A m \in D[N[n].kids[a]] :
         \A b \in 1 .. Len(N[m].keys) : Fits(N, n, a, N[m].keys[b])

Tree(N, r, D, H) ==
  /\ Shaped(N) /\ Filled(N, r) /\ Placed(N, r)
  /\ Leveled(N, H) /\ Below(N, D) /\ Ordered(N, D)

(* Subtrees are lower, they are nested, and every node of one but its root *)
(* has its parent there.                                                   *)
Lower(N, D, H, n) ==
  /\ n \in D[n]
  /\ \A m \in D[n] : /\ m = n \/ H[m] < H[n]
                     /\ \A q \in D[m] : q \in D[n]
                     /\ \/ m = n
                        \/ \E q \in D[n] : \E a \in 1 .. Len(N[q].kids) : m = N[q].kids[a]

LEMMA Descent ==
  ASSUME NEW N, NEW D, NEW H, Shaped(N), Leveled(N, H), Below(N, D)
  PROVE  \A n \in 1 .. Len(N) : Lower(N, D, H, n)
<1> USE DEF Lower
<1> DEFINE Nested(n) == Lower(N, D, H, n)
           T == {h \in Nat : \E n \in 1 .. Len(N) : H[n] = h /\ ~ Nested(n)}
<1> SUFFICES \A n \in 1 .. Len(N) : Nested(n) OBVIOUS
<1>1. /\ Len(N) \in Nat /\ H \in [1 .. Len(N) -> Nat] /\ D \in [1 .. Len(N) -> SUBSET (1 .. Len(N))]
      /\ \A n \in 1 .. Len(N) : \A a \in 1 .. Len(N[n].kids) : N[n].kids[a] \in 1 .. Len(N)
      /\ \A n \in 1 .. Len(N) : \A a \in 1 .. Len(N[n].kids) : H[n] = H[N[n].kids[a]] + 1
      /\ \A n \in 1 .. Len(N), m \in 1 .. Len(N) :
           m \in D[n] <=> m = n \/ \E a \in 1 .. Len(N[n].kids) : m \in D[N[n].kids[a]]
  BY DEF Shaped, Leveled, Below
<1>2. ASSUME NEW n \in 1 .. Len(N), \A a \in 1 .. Len(N[n].kids) : Nested(N[n].kids[a])
      PROVE  Nested(n)
  <2>1. n \in D[n] BY <1>1
  <2>2. SUFFICES ASSUME NEW m \in D[n], m # n
                 PROVE  /\ H[m] < H[n] /\ \A q \in D[m] : q \in D[n]
                        /\ \E q \in D[n] : \E a \in 1 .. Len(N[q].kids) : m = N[q].kids[a]
    BY <2>1
  <2>3. PICK a \in 1 .. Len(N[n].kids) : m \in D[N[n].kids[a]]
    <3>1. m \in 1 .. Len(N) BY <1>1
    <3> QED BY <1>1, <2>2, <3>1
  <2> DEFINE c == N[n].kids[a]
  <2>4. c \in 1 .. Len(N) /\ H[n] = H[c] + 1 /\ H[c] \in Nat BY <1>1
  <2>5. Nested(c) BY <1>2
  <2>6. \A q \in D[c] : q \in D[n]
    <3>1. \A q \in D[c] : q \in 1 .. Len(N) BY <1>1, <2>4
    <3> QED BY <1>1, <3>1
  <2> HIDE DEF c
  <2>7. m \in D[c] BY <2>3 DEF c
  <2>8. H[m] < H[n]
    <3>1. m \in 1 .. Len(N) /\ H[m] \in Nat /\ H[n] \in Nat BY <1>1, <2>4, <2>7
    <3> QED BY <2>4, <2>5, <2>7, <3>1
  <2>9. \A q \in D[m] : q \in D[n] BY <2>5, <2>6, <2>7
  <2>10. \E q \in D[n] : \E b \in 1 .. Len(N[q].kids) : m = N[q].kids[b]
    <3>1. CASE m = c BY <2>1, <3>1 DEF c
    <3>2. CASE m # c
      <4> DEFINE Child(q) == \E b \in 1 .. Len(N[q].kids) : m = N[q].kids[b]
      <4>1. \A y \in D[c] : y = c \/ \E q \in D[c] :
                              \E b \in 1 .. Len(N[q].kids) : y = N[q].kids[b]
        BY <2>5
      <4>2. m = c \/ \E q \in D[c] : \E b \in 1 .. Len(N[q].kids) : m = N[q].kids[b]
        BY <2>7, <4>1
      <4>3. PICK q \in D[c] : Child(q) BY <3>2, <4>2
      <4>4. q \in D[n] BY <2>6
      <4> QED BY <4>3, <4>4
    <3> QED BY <3>1, <3>2
  <2> QED BY <2>8, <2>9, <2>10
<1> HIDE DEF Nested
<1>3. SUFFICES ASSUME NEW n \in 1 .. Len(N), ~ Nested(n) PROVE FALSE OBVIOUS
<1>4. T # {} /\ T \in SUBSET Nat BY <1>1, <1>3
<1> HIDE DEF T
<1>5. PICK h \in T : \A y \in T : h <= y BY <1>4, LeastNumber
<1>6. PICK m \in 1 .. Len(N) : H[m] = h /\ ~ Nested(m) BY <1>5 DEF T
<1>7. PICK a \in 1 .. Len(N[m].kids) : ~ Nested(N[m].kids[a]) BY <1>2, <1>6
<1> DEFINE c == N[m].kids[a]
<1>8. c \in 1 .. Len(N) /\ H[m] = H[c] + 1 /\ H[c] \in Nat BY <1>1
<1>9. ~ Nested(c) BY <1>7
<1> HIDE DEF c
<1>10. H[c] \in T BY <1>8, <1>9 DEF T
<1> QED BY <1>5, <1>6, <1>8, <1>10

(***************************************************************************)
(* bt_split_child, place by place: c is the i-th child of p and x the new  *)
(* node.                                                                   *)
(***************************************************************************)
Divided(N, M, p, i, c, x) ==
  /\ M \in Seq(NodeType) /\ Len(M) = x
  /\ \A n \in 1 .. Len(N) : n # p /\ n # c => M[n] = N[n]
  /\ M[p].is_leaf = N[p].is_leaf /\ M[c].is_leaf = N[c].is_leaf /\ M[x].is_leaf = N[c].is_leaf
  /\ Len(M[p].keys) = Len(N[p].keys) + 1
  /\ \A a \in 1 .. i - 1 : M[p].keys[a] = N[p].keys[a]
  /\ M[p].keys[i] = N[c].keys[t]
  /\ \A a \in i + 1 .. Len(N[p].keys) + 1 : M[p].keys[a] = N[p].keys[a - 1]
  /\ Len(M[p].kids) = Len(N[p].kids) + 1
  /\ \A a \in 1 .. i : M[p].kids[a] = N[p].kids[a]
  /\ M[p].kids[i + 1] = x
  /\ \A a \in i + 2 .. Len(N[p].kids) + 1 : M[p].kids[a] = N[p].kids[a - 1]
  /\ Len(M[c].keys) = t - 1 /\ Len(M[x].keys) = t - 1
  /\ \A a \in 1 .. t - 1 : M[c].keys[a] = N[c].keys[a] /\ M[x].keys[a] = N[c].keys[t + a]
  /\ Len(M[c].kids) = IF N[c].is_leaf THEN 0 ELSE t
  /\ Len(M[x].kids) = IF N[c].is_leaf THEN 0 ELSE t
  /\ ~ N[c].is_leaf =>
       \A a \in 1 .. t : M[c].kids[a] = N[c].kids[a] /\ M[x].kids[a] = N[c].kids[t + a]

LEMMA SplitDivides ==
  ASSUME NEW N, NEW p \in Nat, NEW i \in Nat, NEW c \in Nat,
         N \in Seq(NodeType), p \in 1 .. Len(N), i \in 1 .. Len(N[p].kids),
         c = N[p].kids[i], c \in 1 .. Len(N), c # p,
         i <= Len(N[p].keys) + 1, IsFull(N[c]),
         Len(N[c].kids) = IF N[c].is_leaf THEN 0 ELSE Len(N[c].keys) + 1
  PROVE  Divided(N, Split(N, p, i), p, i, c, Len(N) + 1)
<1> DEFINE F == N[c]
           P == N[p]
           x == Len(N) + 1
           ks == InsertAt(P.keys, i, F.keys[t])
           cs == InsertAt(P.kids, i + 1, x)
           Q == [keys |-> ks, kids |-> cs, is_leaf |-> P.is_leaf]
           E == [n \in 1 .. Len(N) |-> IF n = c THEN Left(F) ELSE IF n = p THEN Q ELSE N[n]]
           M == Append(E, Right(F))
<1> USE Degree
<1>1. F \in NodeType /\ P \in NodeType OBVIOUS
<1>2. /\ F.keys \in Seq(Key) /\ F.kids \in Seq(Nat) /\ F.is_leaf \in BOOLEAN
      /\ P.keys \in Seq(Key) /\ P.kids \in Seq(Nat) /\ P.is_leaf \in BOOLEAN
      /\ P = [keys |-> P.keys, kids |-> P.kids, is_leaf |-> P.is_leaf]
  BY <1>1 DEF NodeType
<1>3. /\ Len(F.keys) = 2 * t - 1 /\ Len(F.kids) = IF F.is_leaf THEN 0 ELSE 2 * t
  BY DEF IsFull
<1>4. Split(N, p, i) = M
  <2>1. Split(N, p, i) =
          Append([N EXCEPT ![c] = Left(F), ![p].keys = InsertAt(@, i, F.keys[t]),
                           ![p].kids = InsertAt(@, i + 1, x)], Right(F))
    BY DEF Split
  <2>2. [N EXCEPT ![c] = Left(F), ![p].keys = InsertAt(@, i, F.keys[t]),
                  ![p].kids = InsertAt(@, i + 1, x)] = E
    <3> HIDE DEF ks, cs, x, F
    <3>1. N = [n \in 1 .. Len(N) |-> N[n]] OBVIOUS
    <3>2. [N EXCEPT ![c] = Left(F), ![p].keys = InsertAt(@, i, F.keys[t]),
                    ![p].kids = InsertAt(@, i + 1, x)]
            = [n \in 1 .. Len(N) |-> IF n = p THEN [N[p] EXCEPT !.keys = ks, !.kids = cs]
                                    ELSE IF n = c THEN Left(F) ELSE N[n]]
      BY <3>1 DEF ks, cs
    <3>3. [N[p] EXCEPT !.keys = ks, !.kids = cs] = Q
      <4> DEFINE a == P.keys
                 b == P.kids
                 l == P.is_leaf
      <4>1. N[p] = [keys |-> a, kids |-> b, is_leaf |-> l] /\ l = P.is_leaf BY <1>2
      <4> HIDE DEF a, b, l
      <4>2. [[keys |-> a, kids |-> b, is_leaf |-> l] EXCEPT !.keys = ks, !.kids = cs]
              = [keys |-> ks, kids |-> cs, is_leaf |-> l]
        <5> DEFINE r == [keys |-> a, kids |-> b, is_leaf |-> l]
        <5>1. [r EXCEPT !.keys = ks] = [keys |-> ks, kids |-> b, is_leaf |-> l]
          <6> HIDE DEF ks
          <6> QED OBVIOUS
        <5>2. [[keys |-> ks, kids |-> b, is_leaf |-> l] EXCEPT !.kids = cs]
                = [keys |-> ks, kids |-> cs, is_leaf |-> l]
          <6> HIDE DEF ks, cs
          <6> QED OBVIOUS
        <5> HIDE DEF r
        <5>3. [r EXCEPT !.keys = ks, !.kids = cs] = [[r EXCEPT !.keys = ks] EXCEPT !.kids = cs]
          OBVIOUS
        <5> QED BY <5>1, <5>2, <5>3 DEF r
      <4>3. Q = [keys |-> ks, kids |-> cs, is_leaf |-> l] BY <4>1
      <4> QED BY <4>1, <4>2, <4>3
    <3> HIDE DEF Q
    <3> QED BY <3>2, <3>3
  <2> QED BY <2>1, <2>2
<1>5. /\ ks \in Seq(Key) /\ Len(ks) = Len(P.keys) + 1
      /\ \A a \in 1 .. i - 1 : ks[a] = P.keys[a]
      /\ ks[i] = F.keys[t]
      /\ \A a \in i + 1 .. Len(P.keys) + 1 : ks[a] = P.keys[a - 1]
  <2>1. F.keys[t] \in Key /\ i \in 1 .. Len(P.keys) + 1
    <3> HIDE DEF F
    <3> DEFINE s == F.keys
    <3>1. s \in Seq(Key) /\ t \in 1 .. Len(s) BY <1>2, <1>3
    <3> HIDE DEF s
    <3>2. s[t] \in Key BY <3>1
    <3>3. i \in 1 .. Len(P.keys) + 1 BY <1>2
    <3> QED BY <3>2, <3>3 DEF s
  <2> DEFINE s == P.keys
             e == F.keys[t]
  <2>2. s \in Seq(Key) /\ e \in Key /\ i \in 1 .. Len(s) + 1 BY <1>2, <2>1
  <2>3. ks = InsertAt(s, i, e) OBVIOUS
  <2> HIDE DEF s, e, ks
  <2>4. ks \in Seq(Key) /\ Extended(ks, s, i, e) BY ONLY <2>2, <2>3, InsertAtFacts
  <2> QED BY <2>4 DEF s, e, Extended
<1>6. /\ cs \in Seq(Nat) /\ Len(cs) = Len(P.kids) + 1
      /\ \A a \in 1 .. i : cs[a] = P.kids[a]
      /\ cs[i + 1] = x
      /\ \A a \in i + 2 .. Len(P.kids) + 1 : cs[a] = P.kids[a - 1]
  <2>1. x \in Nat /\ i + 1 \in 1 .. Len(P.kids) + 1 BY <1>2, SMTT(30)
  <2> DEFINE s == P.kids
             o == i + 1
             U == Nat
  <2>2. s \in Seq(U) /\ x \in U /\ o \in 1 .. Len(s) + 1 BY <1>2, <2>1
  <2>6. o = i + 1 OBVIOUS
  <2>3. cs = InsertAt(s, o, x) OBVIOUS
  <2> HIDE DEF s, x, o, cs, U
  <2>4. cs \in Seq(U) /\ Extended(cs, s, o, x) BY ONLY <2>2, <2>3, InsertAtFacts
  <2>5. o - 1 = i /\ o + 1 = i + 2 BY <2>1, <2>6
  <2> QED BY <2>4, <2>5, <2>6 DEF s, U, Extended
<1> HIDE DEF ks, cs
<1>7. Q \in NodeType /\ Q.keys = ks /\ Q.kids = cs /\ Q.is_leaf = P.is_leaf
  BY <1>2, <1>5, <1>6 DEF NodeType
<1> HIDE DEF Q
<1>8. /\ Left(F) \in NodeType /\ Right(F) \in NodeType
      /\ Left(F).is_leaf = F.is_leaf /\ Right(F).is_leaf = F.is_leaf
      /\ Len(Left(F).keys) = t - 1 /\ Len(Right(F).keys) = t - 1
      /\ \A a \in 1 .. t - 1 : /\ Left(F).keys[a] = F.keys[a]
                               /\ Right(F).keys[a] = F.keys[t + a]
      /\ Len(Left(F).kids) = IF F.is_leaf THEN 0 ELSE t
      /\ Len(Right(F).kids) = IF F.is_leaf THEN 0 ELSE t
      /\ ~ F.is_leaf => \A a \in 1 .. t : /\ Left(F).kids[a] = F.kids[a]
                                          /\ Right(F).kids[a] = F.kids[t + a]
  <2> HIDE DEF F
  <2> QED BY <1>2, <1>3, HalfFacts
<1>9. E \in Seq(NodeType) /\ Len(E) = Len(N)
      /\ \A n \in 1 .. Len(N) :
           E[n] = IF n = c THEN Left(F) ELSE IF n = p THEN Q ELSE N[n]
  <2>1. \A n \in 1 .. Len(N) : N[n] \in NodeType OBVIOUS
  <2> HIDE DEF F
  <2> QED BY <1>7, <1>8, <2>1
<1> HIDE DEF E
<1>10. M \in Seq(NodeType) /\ Len(M) = x /\ M[x] = Right(F)
       /\ \A n \in 1 .. Len(N) : M[n] = E[n]
  <2> DEFINE e == Right(F)
  <2>1. E \in Seq(NodeType) /\ e \in NodeType BY <1>8, <1>9
  <2>2. M = Append(E, e) OBVIOUS
  <2> HIDE DEF e, M
  <2>3. /\ M \in Seq(NodeType) /\ Len(M) = Len(E) + 1
        /\ \A n \in 1 .. Len(E) : M[n] = E[n]
        /\ M[Len(E) + 1] = e
    BY <2>1, <2>2, AppendFacts
  <2> QED BY <1>9, <2>3 DEF e
<1> HIDE DEF M
<1>11. /\ M[x] = Right(F) /\ M[c] = Left(F) /\ M[p] = Q
       /\ \A n \in 1 .. Len(N) : n # p /\ n # c => M[n] = N[n]
  BY <1>9, <1>10
<1>12. Divided(N, M, p, i, c, x)
  BY <1>5, <1>6, <1>7, <1>8, <1>10, <1>11, ZenonT(60) DEF Divided
<1> QED BY <1>4, <1>12

(* What the lemmas about a split assume, and where the children of a node  *)
(* of M were before.                                                       *)
Splits(N, r, D, H, M, p, i, c, x) ==
  /\ Tree(N, r, D, H) /\ Divided(N, M, p, i, c, x)
  /\ x = Len(N) + 1
  /\ p \in 1 .. Len(N) /\ i \in 1 .. Len(N[p].kids) /\ c = N[p].kids[i]
  /\ Len(N[p].keys) < ORDER - 1 /\ IsFull(N[c])

OldNode(n, c, x) == IF n = x THEN c ELSE n
OldPlace(n, a, p, i, x) == IF n = x THEN t + a ELSE IF n = p /\ a > i THEN a - 1 ELSE a

Before(N, M, p, i, c, x) ==
  \A n \in 1 .. x : \A a \in 1 .. Len(M[n].kids) :
    /\ n = p /\ a = i + 1 => M[n].kids[a] = x
    /\ ~ (n = p /\ a = i + 1) =>
         /\ OldNode(n, c, x) \in 1 .. Len(N)
         /\ OldPlace(n, a, p, i, x) \in 1 .. Len(N[OldNode(n, c, x)].kids)
         /\ M[n].kids[a] = N[OldNode(n, c, x)].kids[OldPlace(n, a, p, i, x)]

After(N, M, p, i, c, x) ==
  \A m \in 1 .. Len(N) : \A b \in 1 .. Len(N[m].kids) :
    \E n \in 1 .. x : \E a \in 1 .. Len(M[n].kids) :
      /\ ~ (n = p /\ a = i + 1)
      /\ OldNode(n, c, x) = m /\ OldPlace(n, a, p, i, x) = b

Alone(M, p, i, c, x) ==
  \A n \in 1 .. x, m \in 1 .. x : \A a \in 1 .. Len(M[n].kids), b \in 1 .. Len(M[m].kids) :
    /\ ~ (n = p /\ a = i + 1) /\ ~ (m = p /\ b = i + 1)
    /\ OldNode(n, c, x) = OldNode(m, c, x)
    /\ OldPlace(n, a, p, i, x) = OldPlace(m, b, p, i, x)
    => n = m /\ a = b

LEMMA SplitFacts ==
  ASSUME NEW N, NEW r, NEW D, NEW H, NEW M, NEW p \in Nat, NEW i \in Nat, NEW c \in Nat,
         NEW x \in Nat, Splits(N, r, D, H, M, p, i, c, x)
  PROVE  /\ Len(N) \in Nat /\ x = Len(N) + 1 /\ Len(M) = x
         /\ p \in 1 .. Len(N) /\ c \in 1 .. Len(N) /\ c # p /\ c # r /\ r \in 1 .. Len(N)
         /\ H[p] = H[c] + 1 /\ H[c] \in Nat
         /\ \A n \in 1 .. Len(N) : Len(N[n].keys) \in Nat /\ Len(N[n].kids) \in Nat
         /\ Len(N[p].kids) = Len(N[p].keys) + 1 /\ ~ N[p].is_leaf
         /\ i \in 1 .. Len(N[p].keys) + 1 /\ Len(N[p].keys) + 1 <= 2 * t - 1
         /\ Len(N[c].keys) = 2 * t - 1
         /\ Len(N[c].kids) = IF N[c].is_leaf THEN 0 ELSE 2 * t
<1>1. /\ x = Len(N) + 1 /\ p \in 1 .. Len(N) /\ i \in 1 .. Len(N[p].kids) /\ c = N[p].kids[i]
      /\ Len(N[p].keys) < ORDER - 1 /\ IsFull(N[c]) /\ Len(M) = x
  BY DEF Splits, Divided
<1>2. Shaped(N) /\ Filled(N, r) /\ Placed(N, r) /\ Leveled(N, H)
  BY DEF Splits, Tree
<1>3. N \in Seq(NodeType) /\ Len(N) \in Nat /\ c \in 1 .. Len(N) BY <1>1, <1>2 DEF Shaped
<1>4. \A n \in 1 .. Len(N) : Len(N[n].keys) \in Nat /\ Len(N[n].kids) \in Nat
  <2>1. \A n \in 1 .. Len(N) : N[n] \in NodeType BY <1>3
  <2>2. \A q \in NodeType : Len(q.keys) \in Nat /\ Len(q.kids) \in Nat BY DEF NodeType
  <2> QED BY <2>1, <2>2
<1>5. c # r /\ r \in 1 .. Len(N) BY <1>1, <1>2 DEF Placed
<1>6. H[p] = H[c] + 1 /\ H[c] \in Nat BY <1>1, <1>2, <1>3 DEF Leveled
<1>7. c # p BY <1>6
<1>8. Len(N[p].kids) = Len(N[p].keys) + 1 /\ ~ N[p].is_leaf BY <1>1, <1>2, <1>4 DEF Filled
<1>9. Len(N[c].keys) = 2 * t - 1 BY <1>1, Degree DEF IsFull
<1>10. Len(N[c].kids) = IF N[c].is_leaf THEN 0 ELSE 2 * t
  BY <1>2, <1>3, <1>9, Degree DEF Filled
<1> QED BY <1>1, <1>3, <1>4, <1>5, <1>6, <1>7, <1>8, <1>9, <1>10, Degree, SMTT(30)

LEMMA KidOrigin ==
  ASSUME NEW N, NEW r, NEW D, NEW H, NEW M, NEW p \in Nat, NEW i \in Nat, NEW c \in Nat,
         NEW x \in Nat, Splits(N, r, D, H, M, p, i, c, x)
  PROVE  Before(N, M, p, i, c, x)
<1> SUFFICES ASSUME NEW n \in 1 .. x, NEW a \in 1 .. Len(M[n].kids)
             PROVE  /\ n = p /\ a = i + 1 => M[n].kids[a] = x
                    /\ ~ (n = p /\ a = i + 1) =>
                         /\ OldNode(n, c, x) \in 1 .. Len(N)
                         /\ OldPlace(n, a, p, i, x) \in 1 .. Len(N[OldNode(n, c, x)].kids)
                         /\ M[n].kids[a] = N[OldNode(n, c, x)].kids[OldPlace(n, a, p, i, x)]
  BY DEF Before
<1> DEFINE o == OldNode(n, c, x)
           b == OldPlace(n, a, p, i, x)
<1>0. /\ Len(N) \in Nat /\ x = Len(N) + 1 /\ p \in 1 .. Len(N) /\ c \in 1 .. Len(N) /\ c # p
      /\ \A m \in 1 .. Len(N) : Len(N[m].keys) \in Nat /\ Len(N[m].kids) \in Nat
      /\ Len(N[p].kids) = Len(N[p].keys) + 1 /\ i \in 1 .. Len(N[p].keys) + 1
      /\ Len(N[c].kids) = IF N[c].is_leaf THEN 0 ELSE 2 * t
  BY SplitFacts
<1>1. Divided(N, M, p, i, c, x) BY DEF Splits
<1>2. t \in Nat /\ t >= 2 BY Degree
<1>3. CASE n = x
  <2>1. Len(M[x].kids) = IF N[c].is_leaf THEN 0 ELSE t BY <1>1 DEF Divided
  <2>2. ~ N[c].is_leaf /\ a \in 1 .. t BY <1>2, <1>3, <2>1
  <2>3. M[x].kids[a] = N[c].kids[t + a] BY <1>1, <2>2 DEF Divided
  <2>4. o = c /\ b = t + a /\ n # p BY <1>0, <1>3 DEF OldNode, OldPlace
  <2> QED BY <1>0, <1>2, <1>3, <2>2, <2>3, <2>4
<1>4. CASE n = c
  <2>1. Len(M[c].kids) = IF N[c].is_leaf THEN 0 ELSE t BY <1>1 DEF Divided
  <2>2. ~ N[c].is_leaf /\ a \in 1 .. t BY <1>2, <1>4, <2>1
  <2>3. M[c].kids[a] = N[c].kids[a] BY <1>1, <2>2 DEF Divided
  <2>4. o = c /\ b = a /\ n # p BY <1>0, <1>4 DEF OldNode, OldPlace
  <2> QED BY <1>0, <1>2, <1>4, <2>2, <2>3, <2>4
<1>5. CASE n = p
  <2>1. /\ Len(M[p].kids) = Len(N[p].kids) + 1
        /\ \A y \in 1 .. i : M[p].kids[y] = N[p].kids[y]
        /\ M[p].kids[i + 1] = x
        /\ \A y \in i + 2 .. Len(N[p].kids) + 1 : M[p].kids[y] = N[p].kids[y - 1]
    BY <1>1 DEF Divided
  <2>2. a \in 1 .. Len(N[p].kids) + 1 BY <1>5, <2>1
  <2>3. o = p /\ b = IF a > i THEN a - 1 ELSE a BY <1>0, <1>5 DEF OldNode, OldPlace
  <2>4. CASE a <= i BY <1>0, <1>5, <2>1, <2>2, <2>3, <2>4, SMTT(30)
  <2>5. CASE a = i + 1 BY <1>5, <2>1, <2>5
  <2>6. CASE a >= i + 2
    <3>1. M[p].kids[a] = N[p].kids[a - 1] BY <1>0, <2>1, <2>2, <2>6
    <3>2. b = a - 1 /\ a - 1 \in 1 .. Len(N[p].kids) BY <1>0, <2>2, <2>3, <2>6
    <3> QED BY <1>0, <1>5, <2>3, <2>6, <3>1, <3>2
  <2> QED BY <1>0, <2>2, <2>4, <2>5, <2>6
<1>6. CASE n # x /\ n # c /\ n # p
  <2>1. n \in 1 .. Len(N) BY <1>0, <1>6
  <2>2. M[n] = N[n] BY <1>1, <1>6, <2>1 DEF Divided
  <2>3. o = n /\ b = a BY <1>6 DEF OldNode, OldPlace
  <2> QED BY <1>6, <2>1, <2>2, <2>3
<1> QED BY <1>3, <1>4, <1>5, <1>6

(* Every place of N is the old place of one place of M. *)
LEMMA KidTarget ==
  ASSUME NEW N, NEW r, NEW D, NEW H, NEW M, NEW p \in Nat, NEW i \in Nat, NEW c \in Nat,
         NEW x \in Nat, Splits(N, r, D, H, M, p, i, c, x)
  PROVE  After(N, M, p, i, c, x)
<1> SUFFICES ASSUME NEW m \in 1 .. Len(N), NEW b \in 1 .. Len(N[m].kids)
             PROVE  \E n \in 1 .. x : \E a \in 1 .. Len(M[n].kids) :
                      /\ ~ (n = p /\ a = i + 1)
                      /\ OldNode(n, c, x) = m /\ OldPlace(n, a, p, i, x) = b
  BY DEF After
<1>0. /\ Len(N) \in Nat /\ x = Len(N) + 1 /\ p \in 1 .. Len(N) /\ c \in 1 .. Len(N) /\ c # p
      /\ \A q \in 1 .. Len(N) : Len(N[q].keys) \in Nat /\ Len(N[q].kids) \in Nat
      /\ Len(N[p].kids) = Len(N[p].keys) + 1 /\ i \in 1 .. Len(N[p].keys) + 1
      /\ Len(N[c].kids) = IF N[c].is_leaf THEN 0 ELSE 2 * t
  BY SplitFacts
<1>1. Divided(N, M, p, i, c, x) BY DEF Splits
<1>2. t \in Nat /\ t >= 2 BY Degree
<1>3. CASE m = c
  <2>1. /\ Len(M[c].kids) = IF N[c].is_leaf THEN 0 ELSE t
        /\ Len(M[x].kids) = IF N[c].is_leaf THEN 0 ELSE t
    BY <1>1 DEF Divided
  <2>2. ~ N[c].is_leaf /\ b \in 1 .. 2 * t BY <1>0, <1>3
  <2>3. CASE b <= t
    <3>1. b \in 1 .. Len(M[c].kids) /\ OldNode(c, c, x) = m /\ OldPlace(c, b, p, i, x) = b
      BY <1>0, <1>3, <2>1, <2>2, <2>3 DEF OldNode, OldPlace
    <3> QED BY <1>0, <3>1, SMTT(30)
  <2>4. CASE b > t
    <3>1. b - t \in 1 .. Len(M[x].kids) /\ OldNode(x, c, x) = m /\ OldPlace(x, b - t, p, i, x) = b
      BY <1>0, <1>2, <1>3, <2>1, <2>2, <2>4 DEF OldNode, OldPlace
    <3> QED BY <1>0, <3>1, SMTT(30)
  <2> QED BY <1>2, <2>2, <2>3, <2>4
<1>4. CASE m = p
  <2>1. Len(M[p].kids) = Len(N[p].kids) + 1 /\ b \in 1 .. Len(N[p].kids) /\ Len(N[p].kids) \in Nat
    BY <1>0, <1>1, <1>4 DEF Divided
  <2>2. CASE b <= i
    <3>1. b \in 1 .. Len(M[p].kids) /\ OldNode(p, c, x) = m /\ OldPlace(p, b, p, i, x) = b /\ b # i + 1
      BY <1>0, <1>4, <2>1, <2>2 DEF OldNode, OldPlace
    <3> QED BY <1>0, <3>1
  <2>3. CASE b > i
    <3>1. /\ b + 1 \in 1 .. Len(M[p].kids) /\ b + 1 # i + 1
          /\ OldNode(p, c, x) = m /\ OldPlace(p, b + 1, p, i, x) = b
      BY <1>0, <1>4, <2>1, <2>3 DEF OldNode, OldPlace
    <3> QED BY <1>0, <3>1
  <2> QED BY <2>1, <2>2, <2>3
<1>5. CASE m # c /\ m # p
  <2>1. M[m] = N[m] /\ m # x /\ m \in 1 .. x BY <1>0, <1>1, <1>5 DEF Divided
  <2>2. OldNode(m, c, x) = m /\ OldPlace(m, b, p, i, x) = b BY <1>5, <2>1 DEF OldNode, OldPlace
  <2> QED BY <1>5, <2>1, <2>2
<1> QED BY <1>3, <1>4, <1>5

LEMMA OneTarget ==
  ASSUME NEW N, NEW r, NEW D, NEW H, NEW M, NEW p \in Nat, NEW i \in Nat, NEW c \in Nat,
         NEW x \in Nat, Splits(N, r, D, H, M, p, i, c, x)
  PROVE  Alone(M, p, i, c, x)
<1>0. /\ Len(N) \in Nat /\ x = Len(N) + 1 /\ p \in 1 .. Len(N) /\ c \in 1 .. Len(N) /\ c # p
      /\ \A m \in 1 .. Len(N) : Len(N[m].keys) \in Nat /\ Len(N[m].kids) \in Nat
  BY SplitFacts
<1>1. /\ Len(M[c].kids) = (IF N[c].is_leaf THEN 0 ELSE t)
      /\ Len(M[x].kids) = (IF N[c].is_leaf THEN 0 ELSE t)
  BY DEF Splits, Divided
<1>2. t \in Nat /\ t >= 2 BY Degree
<1> SUFFICES ASSUME NEW n \in 1 .. x, NEW m \in 1 .. x,
                    NEW a \in 1 .. Len(M[n].kids), NEW b \in 1 .. Len(M[m].kids),
                    ~ (n = p /\ a = i + 1), ~ (m = p /\ b = i + 1),
                    OldNode(n, c, x) = OldNode(m, c, x),
                    OldPlace(n, a, p, i, x) = OldPlace(m, b, p, i, x)
             PROVE  n = m /\ a = b
  BY DEF Alone
<1>3. n = c \/ n = x => a \in 1 .. t BY <1>1, <1>2
<1>4. m = c \/ m = x => b \in 1 .. t BY <1>1, <1>2
<1>5. n = m
  <2> SUFFICES ASSUME n # m PROVE FALSE OBVIOUS
  <2>1. (n = x /\ m = c) \/ (n = c /\ m = x) BY DEF OldNode
  <2> QED BY <1>0, <1>2, <1>3, <1>4, <2>1 DEF OldPlace
<1>6. a = b
  <2>1. CASE n = x BY <1>2, <1>5, <2>1 DEF OldPlace
  <2>2. CASE n # x /\ n # p BY <1>5, <2>2 DEF OldPlace
  <2>3. CASE n = p /\ n # x BY <1>5, <2>3 DEF OldPlace
  <2> QED BY <2>1, <2>2, <2>3
<1> QED BY <1>5, <1>6

LEMMA SplitFilled ==
  ASSUME NEW N, NEW r, NEW D, NEW H, NEW M, NEW p \in Nat, NEW i \in Nat, NEW c \in Nat,
         NEW x \in Nat, Splits(N, r, D, H, M, p, i, c, x)
  PROVE  Filled(M, r)
<1>0. /\ Len(N) \in Nat /\ x = Len(N) + 1 /\ Len(M) = x
      /\ p \in 1 .. Len(N) /\ c \in 1 .. Len(N) /\ c # p /\ c # r /\ r \in 1 .. Len(N)
      /\ \A n \in 1 .. Len(N) : Len(N[n].keys) \in Nat /\ Len(N[n].kids) \in Nat
      /\ Len(N[p].kids) = Len(N[p].keys) + 1 /\ ~ N[p].is_leaf
      /\ Len(N[p].keys) + 1 <= 2 * t - 1
      /\ Len(N[c].keys) = 2 * t - 1
  BY SplitFacts
<1>1. Divided(N, M, p, i, c, x) /\ Filled(N, r) BY DEF Splits, Tree
<1>2. t \in Nat /\ t >= 2 /\ ORDER = 2 * t BY Degree
<1> SUFFICES ASSUME NEW n \in 1 .. x
             PROVE  /\ Len(M[n].keys) <= ORDER - 1 /\ (n # r => Len(M[n].keys) >= t - 1)
                    /\ Len(M[n].kids) = IF M[n].is_leaf THEN 0 ELSE Len(M[n].keys) + 1
  BY <1>0 DEF Filled
<1>3. CASE n = c \/ n = x
  <2>1. /\ Len(M[n].keys) = t - 1 /\ M[n].is_leaf = N[c].is_leaf
        /\ Len(M[n].kids) = IF N[c].is_leaf THEN 0 ELSE t
    BY <1>1, <1>3 DEF Divided
  <2> QED BY <1>2, <2>1
<1>4. CASE n = p
  <2>1. /\ Len(M[p].keys) = Len(N[p].keys) + 1 /\ M[p].is_leaf = N[p].is_leaf
        /\ Len(M[p].kids) = Len(N[p].kids) + 1
    BY <1>1 DEF Divided
  <2>2. p # r => Len(N[p].keys) >= t - 1 BY <1>0, <1>1 DEF Filled
  <2> QED BY <1>0, <1>2, <1>4, <2>1, <2>2
<1>5. CASE n # c /\ n # x /\ n # p
  <2>1. n \in 1 .. Len(N) BY <1>0, <1>5
  <2>2. M[n] = N[n] BY <1>1, <1>5, <2>1 DEF Divided
  <2> QED BY <1>1, <2>1, <2>2 DEF Filled
<1> QED BY <1>3, <1>4, <1>5

LEMMA SplitPlaced ==
  ASSUME NEW N, NEW r, NEW D, NEW H, NEW M, NEW p \in Nat, NEW i \in Nat, NEW c \in Nat,
         NEW x \in Nat, Splits(N, r, D, H, M, p, i, c, x)
  PROVE  Shaped(M) /\ Placed(M, r)
<1>0. /\ Len(N) \in Nat /\ x = Len(N) + 1 /\ Len(M) = x
      /\ p \in 1 .. Len(N) /\ c \in 1 .. Len(N) /\ c # p /\ c # r /\ r \in 1 .. Len(N)
      /\ \A n \in 1 .. Len(N) : Len(N[n].keys) \in Nat /\ Len(N[n].kids) \in Nat
      /\ Len(N[p].kids) = Len(N[p].keys) + 1 /\ i \in 1 .. Len(N[p].keys) + 1
  BY SplitFacts
<1> DEFINE New(n, a) == n = p /\ a = i + 1
           o(n) == OldNode(n, c, x)
           b(n, a) == OldPlace(n, a, p, i, x)
<1>1. \A n \in 1 .. x : \A a \in 1 .. Len(M[n].kids) :
        /\ New(n, a) => M[n].kids[a] = x
        /\ ~ New(n, a) => /\ o(n) \in 1 .. Len(N) /\ b(n, a) \in 1 .. Len(N[o(n)].kids)
                          /\ M[n].kids[a] = N[o(n)].kids[b(n, a)]
  <2>1. Before(N, M, p, i, c, x) BY KidOrigin
  <2> QED BY <2>1, Zenon DEF Before
<1>2. \A m \in 1 .. Len(N) : \A y \in 1 .. Len(N[m].kids) :
        \E n \in 1 .. x : \E a \in 1 .. Len(M[n].kids) :
          ~ New(n, a) /\ o(n) = m /\ b(n, a) = y
  <2>1. After(N, M, p, i, c, x) BY KidTarget
  <2> QED BY <2>1, Zenon DEF After
<1>3. \A n \in 1 .. x, m \in 1 .. x : \A a \in 1 .. Len(M[n].kids), y \in 1 .. Len(M[m].kids) :
        ~ New(n, a) /\ ~ New(m, y) /\ o(n) = o(m) /\ b(n, a) = b(m, y) => n = m /\ a = y
  <2>1. Alone(M, p, i, c, x) BY OneTarget
  <2> QED BY <2>1, Zenon DEF Alone
<1>4. /\ \A n \in 1 .. Len(N) : \A a \in 1 .. Len(N[n].kids) :
           N[n].kids[a] \in 1 .. Len(N) /\ N[n].kids[a] # r
      /\ \A n \in 1 .. Len(N), m \in 1 .. Len(N) :
           \A a \in 1 .. Len(N[n].kids), y \in 1 .. Len(N[m].kids) :
             N[n].kids[a] = N[m].kids[y] => n = m /\ a = y
      /\ \A m \in 1 .. Len(N) : m # r =>
           \E n \in 1 .. Len(N) : \E a \in 1 .. Len(N[n].kids) : m = N[n].kids[a]
  BY DEF Splits, Tree, Shaped, Placed
<1>5. i + 1 \in 1 .. Len(M[p].kids)
  <2>1. Len(M[p].kids) = Len(N[p].kids) + 1 BY DEF Splits, Divided
  <2> QED BY <1>0, <2>1
<1>6. M \in Seq(NodeType) BY DEF Splits, Divided
<1> HIDE DEF New, o, b
<1>7. ASSUME NEW n \in 1 .. x, NEW a \in 1 .. Len(M[n].kids)
      PROVE  /\ M[n].kids[a] \in 1 .. x /\ M[n].kids[a] # r
             /\ M[n].kids[a] = x <=> New(n, a)
  <2>1. CASE New(n, a)
    <3>1. M[n].kids[a] = x BY <1>1, <2>1
    <3> QED BY <1>0, <2>1, <3>1
  <2>2. CASE ~ New(n, a)
    <3> DEFINE m == o(n)
               y == b(n, a)
    <3>1. m \in 1 .. Len(N) /\ y \in 1 .. Len(N[m].kids) /\ M[n].kids[a] = N[m].kids[y]
      BY <1>1, <2>2
    <3> HIDE DEF m, y
    <3>2. N[m].kids[y] \in 1 .. Len(N) /\ N[m].kids[y] # r BY <1>4, <3>1
    <3> QED BY <1>0, <2>2, <3>1, <3>2, SMTT(30)
  <2> QED BY <2>1, <2>2
<1>8. ASSUME NEW n \in 1 .. x, NEW m \in 1 .. x,
             NEW a \in 1 .. Len(M[n].kids), NEW y \in 1 .. Len(M[m].kids),
             M[n].kids[a] = M[m].kids[y]
      PROVE  n = m /\ a = y
  <2>1. CASE New(n, a)
    <3>1. New(m, y) BY <1>7, <1>8, <2>1
    <3> QED BY <2>1, <3>1 DEF New
  <2>2. CASE ~ New(n, a)
    <3>1. ~ New(m, y) BY <1>7, <1>8, <2>2
    <3>2. /\ o(n) \in 1 .. Len(N) /\ b(n, a) \in 1 .. Len(N[o(n)].kids)
          /\ M[n].kids[a] = N[o(n)].kids[b(n, a)]
      BY <1>1, <2>2
    <3>3. /\ o(m) \in 1 .. Len(N) /\ b(m, y) \in 1 .. Len(N[o(m)].kids)
          /\ M[m].kids[y] = N[o(m)].kids[b(m, y)]
      BY <1>1, <3>1
    <3>4. o(n) = o(m) /\ b(n, a) = b(m, y)
      <4> DEFINE q == o(n)
                 w == o(m)
                 u == b(n, a)
                 v == b(m, y)
      <4>1. /\ q \in 1 .. Len(N) /\ w \in 1 .. Len(N)
            /\ u \in 1 .. Len(N[q].kids) /\ v \in 1 .. Len(N[w].kids)
            /\ N[q].kids[u] = N[w].kids[v]
        BY <1>8, <3>2, <3>3
      <4> HIDE DEF q, w, u, v
      <4>3. \A n1 \in 1 .. Len(N), n2 \in 1 .. Len(N) :
              \A a1 \in 1 .. Len(N[n1].kids), a2 \in 1 .. Len(N[n2].kids) :
                N[n1].kids[a1] = N[n2].kids[a2] => n1 = n2 /\ a1 = a2
        BY ONLY <1>4, Zenon
      <4>2. q = w /\ u = v BY ONLY <4>1, <4>3
      <4> QED BY <4>2 DEF q, w, u, v
    <3> QED BY <1>3, <2>2, <3>1, <3>4
  <2> QED BY <2>1, <2>2
<1>9. ASSUME NEW m \in 1 .. x, m # r
      PROVE  \E n \in 1 .. x : \E a \in 1 .. Len(M[n].kids) : m = M[n].kids[a]
  <2>1. CASE m = x
    <3>1. New(p, i + 1) /\ p \in 1 .. x BY <1>0 DEF New
    <3>2. x = M[p].kids[i + 1] BY <1>1, <1>5, <3>1
    <3> QED BY <1>5, <2>1, <3>1, <3>2
  <2>2. CASE m # x
    <3>1. m \in 1 .. Len(N) BY <1>0, <2>2
    <3> DEFINE Child(n) == \E a \in 1 .. Len(N[n].kids) : m = N[n].kids[a]
    <3>2. PICK n \in 1 .. Len(N) : Child(n) BY <1>4, <1>9, <3>1
    <3>3. PICK a \in 1 .. Len(N[n].kids) : m = N[n].kids[a] BY <3>2
    <3> DEFINE Was(q) == \E y \in 1 .. Len(M[q].kids) : ~ New(q, y) /\ o(q) = n /\ b(q, y) = a
    <3>4. PICK q \in 1 .. x : Was(q) BY <1>2
    <3>5. PICK y \in 1 .. Len(M[q].kids) : ~ New(q, y) /\ o(q) = n /\ b(q, y) = a BY <3>4
    <3>6. M[q].kids[y] = m BY <1>1, <3>3, <3>5
    <3> QED BY <3>6
  <2> QED BY <2>1, <2>2
<1>10. r \in 1 .. x BY <1>0
<1>11. Shaped(M)
  <2>1. Len(M) = x BY <1>0
  <2> QED BY <1>6, <1>7, <2>1 DEF Shaped
<1>12. Placed(M, r)
  <2>1. Len(M) = x BY <1>0
  <2> QED BY <1>7, <1>8, <1>9, <1>10, <2>1 DEF Placed
<1> QED BY <1>11, <1>12

(* A node is not below its children, nor is a child below another child of *)
(* the same node; who is below a node has its parent there, and who has    *)
(* its parent there is below.                                              *)
Paths(N, D) ==
  /\ \A n \in 1 .. Len(N) : n \in D[n] /\ D[n] \in SUBSET (1 .. Len(N))
  /\ \A n \in 1 .. Len(N) : \A a \in 1 .. Len(N[n].kids) : n \notin D[N[n].kids[a]]
  /\ \A n \in 1 .. Len(N) : \A a \in 1 .. Len(N[n].kids), b \in 1 .. Len(N[n].kids) :
       a # b => N[n].kids[b] \notin D[N[n].kids[a]]
  /\ \A m \in 1 .. Len(N), n \in 1 .. Len(N) : \A a \in 1 .. Len(N[n].kids) :
       N[n].kids[a] # m => (N[n].kids[a] \in D[m] <=> n \in D[m])

LEMMA PathFacts ==
  ASSUME NEW N, NEW r, NEW D, NEW H, Tree(N, r, D, H)
  PROVE  Paths(N, D)
<1>1. /\ Shaped(N) /\ Placed(N, r) /\ Leveled(N, H) /\ Below(N, D)
      /\ Len(N) \in Nat /\ H \in [1 .. Len(N) -> Nat] /\ D \in [1 .. Len(N) -> SUBSET (1 .. Len(N))]
      /\ \A n \in 1 .. Len(N) : \A a \in 1 .. Len(N[n].kids) : N[n].kids[a] \in 1 .. Len(N)
      /\ \A n \in 1 .. Len(N) : \A a \in 1 .. Len(N[n].kids) : H[n] = H[N[n].kids[a]] + 1
      /\ \A n \in 1 .. Len(N), m \in 1 .. Len(N) :
           \A a \in 1 .. Len(N[n].kids), b \in 1 .. Len(N[m].kids) :
             N[n].kids[a] = N[m].kids[b] => n = m /\ a = b
      /\ \A n \in 1 .. Len(N), m \in 1 .. Len(N) :
           m \in D[n] <=> m = n \/ \E a \in 1 .. Len(N[n].kids) : m \in D[N[n].kids[a]]
  BY DEF Tree, Shaped, Placed, Leveled, Below
<1>2. \A n \in 1 .. Len(N) :
        /\ n \in D[n]
        /\ \A m \in D[n] : /\ m = n \/ H[m] < H[n]
                           /\ \A q \in D[m] : q \in D[n]
                           /\ \/ m = n
                              \/ \E q \in D[n] : \E a \in 1 .. Len(N[q].kids) : m = N[q].kids[a]
  <2>1. \A n \in 1 .. Len(N) : Lower(N, D, H, n) BY <1>1, Descent
  <2> QED BY <2>1, Zenon DEF Lower
<1>3. ASSUME NEW n \in 1 .. Len(N), NEW a \in 1 .. Len(N[n].kids)
      PROVE  n \notin D[N[n].kids[a]]
  <2> DEFINE c == N[n].kids[a]
  <2>1. c \in 1 .. Len(N) /\ H[n] = H[c] + 1 /\ H[c] \in Nat BY <1>1
  <2> HIDE DEF c
  <2>2. n \in D[c] => n = c \/ H[n] < H[c] BY <1>2, <2>1
  <2>3. n \notin D[c] BY <2>1, <2>2
  <2> QED BY <2>3 DEF c
<1>4. ASSUME NEW m \in 1 .. Len(N), NEW n \in 1 .. Len(N), NEW a \in 1 .. Len(N[n].kids),
             N[n].kids[a] # m
      PROVE  N[n].kids[a] \in D[m] <=> n \in D[m]
  <2> DEFINE c == N[n].kids[a]
  <2>1. c \in 1 .. Len(N) /\ c # m BY <1>1, <1>4
  <2>2. c \in D[n]
    <3>1. c \in D[N[n].kids[a]] BY <1>2, <2>1
    <3> QED BY <1>1, <2>1, <3>1
  <2>3. ASSUME n \in D[m] PROVE c \in D[m]
    <3> HIDE DEF c
    <3> QED BY <1>2, <2>2, <2>3
  <2>4. ASSUME c \in D[m] PROVE n \in D[m]
    <3> DEFINE Child(q, w) == \E b \in 1 .. Len(N[q].kids) : w = N[q].kids[b]
    <3>1. \A w \in D[m] : w = m \/ \E q \in D[m] : Child(q, w) BY <1>2
    <3> HIDE DEF Child
    <3>2. PICK q \in D[m] : Child(q, c) BY <2>1, <2>4, <3>1
    <3>3. PICK b \in 1 .. Len(N[q].kids) : c = N[q].kids[b] BY <3>2 DEF Child
    <3>4. q \in 1 .. Len(N) BY <1>1
    <3>5. q = n BY <1>1, <3>3, <3>4
    <3> QED BY <3>5
  <2> QED BY <2>3, <2>4
<1>5. ASSUME NEW n \in 1 .. Len(N), NEW a \in 1 .. Len(N[n].kids), NEW b \in 1 .. Len(N[n].kids), a # b
      PROVE  N[n].kids[b] \notin D[N[n].kids[a]]
  <2> DEFINE c == N[n].kids[a]
  <2>1. c \in 1 .. Len(N) /\ N[n].kids[b] # c BY <1>1, <1>5
  <2>2. n \notin D[c] BY <1>3
  <2> HIDE DEF c
  <2>3. N[n].kids[b] \notin D[c] BY <1>4, <2>1, <2>2
  <2> QED BY <2>3 DEF c
<1>6. \A n \in 1 .. Len(N) : n \in D[n] /\ D[n] \in SUBSET (1 .. Len(N)) BY <1>1, <1>2
<1> QED BY <1>3, <1>4, <1>5, <1>6 DEF Paths

NewHeights(H, c, x) == [n \in 1 .. x |-> H[OldNode(n, c, x)]]

LEMMA SplitHeights ==
  ASSUME NEW N, NEW r, NEW D, NEW H, NEW M, NEW p \in Nat, NEW i \in Nat, NEW c \in Nat,
         NEW x \in Nat, Splits(N, r, D, H, M, p, i, c, x)
  PROVE  Leveled(M, NewHeights(H, c, x))
<1>0. /\ Len(N) \in Nat /\ x = Len(N) + 1 /\ Len(M) = x
      /\ p \in 1 .. Len(N) /\ c \in 1 .. Len(N) /\ c # p
      /\ H[p] = H[c] + 1 /\ H[c] \in Nat
      /\ \A n \in 1 .. Len(N) : Len(N[n].keys) \in Nat /\ Len(N[n].kids) \in Nat
  BY SplitFacts
<1>1. Before(N, M, p, i, c, x) BY KidOrigin
<1>2. Divided(N, M, p, i, c, x) /\ Leveled(N, H) /\ Shaped(N) BY DEF Splits, Tree
<1> DEFINE G == NewHeights(H, c, x)
           o(n) == OldNode(n, c, x)
<1>3. \A n \in 1 .. x : o(n) \in 1 .. Len(N) BY <1>0 DEF OldNode
<1>4. G \in [1 .. x -> Nat] /\ \A n \in 1 .. x : G[n] = H[o(n)]
  <2>1. \A n \in 1 .. x : H[o(n)] \in Nat BY <1>2, <1>3 DEF Leveled
  <2> HIDE DEF o
  <2>2. G = [n \in 1 .. x |-> H[o(n)]] BY DEF NewHeights, o
  <2> QED BY <2>1, <2>2
<1> HIDE DEF G
<1>5. ASSUME NEW n \in 1 .. x, M[n].is_leaf PROVE G[n] = 0
  <2>1. M[n].is_leaf = N[o(n)].is_leaf
    <3>1. /\ M[p].is_leaf = N[p].is_leaf /\ M[c].is_leaf = N[c].is_leaf
          /\ M[x].is_leaf = N[c].is_leaf
          /\ \A m \in 1 .. Len(N) : m # p /\ m # c => M[m] = N[m]
      BY <1>2 DEF Divided
    <3>2. CASE n = x \/ n = c \/ n = p BY <1>0, <3>1, <3>2 DEF OldNode
    <3>3. CASE n # x /\ n # c /\ n # p
      <4>1. n \in 1 .. Len(N) /\ o(n) = n BY <1>0, <3>3 DEF OldNode
      <4> QED BY <3>1, <3>3, <4>1
    <3> QED BY <3>2, <3>3
  <2> DEFINE m == o(n)
  <2>2. m \in 1 .. Len(N) /\ N[m].is_leaf /\ G[n] = H[m] BY <1>3, <1>4, <1>5, <2>1
  <2> HIDE DEF m, o
  <2> QED BY <1>2, <2>2 DEF Leveled
<1>6. ASSUME NEW n \in 1 .. x, NEW a \in 1 .. Len(M[n].kids)
      PROVE  G[n] = G[M[n].kids[a]] + 1
  <2>1. CASE n = p /\ a = i + 1
    <3>1. M[n].kids[a] = x BY <1>1, <2>1 DEF Before
    <3>2. G[x] = H[c] /\ G[p] = H[p] BY <1>0, <1>4, SMTT(30) DEF OldNode
    <3> QED BY <1>0, <2>1, <3>1, <3>2
  <2>2. CASE ~ (n = p /\ a = i + 1)
    <3> DEFINE m == o(n)
               b == OldPlace(n, a, p, i, x)
               y == N[m].kids[b]
    <3>1. m \in 1 .. Len(N) /\ b \in 1 .. Len(N[m].kids) /\ M[n].kids[a] = y
      BY <1>1, <2>2 DEF Before
    <3>2. G[n] = H[m] BY <1>4
    <3> HIDE DEF m, b, o
    <3>3. H[m] = H[y] + 1 /\ y \in 1 .. Len(N) BY <1>2, <3>1 DEF Leveled, Shaped
    <3> HIDE DEF y
    <3>4. G[y] = H[y]
      <4>1. y \in 1 .. x /\ y # x BY <1>0, <3>3
      <4> QED BY <1>4, <4>1 DEF o, OldNode
    <3> QED BY <3>1, <3>2, <3>3, <3>4
  <2> QED BY <2>1, <2>2
<1>7. G \in [1 .. Len(M) -> Nat] BY <1>0, <1>4
<1>8. ASSUME NEW n \in 1 .. Len(M)
      PROVE  /\ M[n].is_leaf => G[n] = 0
             /\ \A a \in 1 .. Len(M[n].kids) : G[n] = G[M[n].kids[a]] + 1
  <2>1. n \in 1 .. x BY <1>0
  <2> QED BY <1>5, <1>6, <2>1
<1>9. Leveled(M, G) BY <1>7, <1>8 DEF Leveled
<1> QED BY <1>9 DEF G

(* The subtrees after a split: x joins every subtree that holds p, and the *)
(* subtree of c is shared out.                                             *)
Regrouped(N, D, p, c, x, E) ==
  /\ E \in [1 .. x -> SUBSET (1 .. x)]
  /\ \A z \in 1 .. x :
       /\ z \in E[c] <=> z = c \/ (~ N[c].is_leaf /\ \E a \in 1 .. t : z \in D[N[c].kids[a]])
       /\ z \in E[x] <=> z = x \/ (~ N[c].is_leaf /\ \E a \in 1 .. t : z \in D[N[c].kids[t + a]])
  /\ \A m \in 1 .. Len(N), z \in 1 .. x :
       m # c => (z \in E[m] <=> z \in D[m] \/ (z = x /\ p \in D[m]))

LEMMA Regrouping ==
  ASSUME NEW N, NEW D, NEW p \in Nat, NEW c \in Nat, NEW x \in Nat,
         x = Len(N) + 1, Len(N) \in Nat, c \in 1 .. Len(N)
  PROVE  \E E : Regrouped(N, D, p, c, x, E)
<1> DEFINE Low(z) == z = c \/ (~ N[c].is_leaf /\ \E a \in 1 .. t : z \in D[N[c].kids[a]])
           High(z) == z = x \/ (~ N[c].is_leaf /\ \E a \in 1 .. t : z \in D[N[c].kids[t + a]])
           Old(m, z) == z \in D[m] \/ (z = x /\ p \in D[m])
           Kind(m, z) == \/ m = c /\ Low(z)
                         \/ m = x /\ High(z)
                         \/ m # c /\ m # x /\ Old(m, z)
           E == [m \in 1 .. x |-> {z \in 1 .. x : Kind(m, z)}]
<1> HIDE DEF Low, High, Old, Kind
<1>1. E \in [1 .. x -> SUBSET (1 .. x)] OBVIOUS
<1>2. \A m \in 1 .. x, z \in 1 .. x : z \in E[m] <=> Kind(m, z) OBVIOUS
<1> HIDE DEF E
<1>3. \A z \in 1 .. x : z \in E[c] <=> Low(z) BY <1>2 DEF Kind
<1>4. \A z \in 1 .. x : z \in E[x] <=> High(z) BY <1>2 DEF Kind
<1>5. \A m \in 1 .. Len(N), z \in 1 .. x : m # c => (z \in E[m] <=> Old(m, z)) BY <1>2 DEF Kind
<1>6. Regrouped(N, D, p, c, x, E)
  BY <1>1, <1>3, <1>4, <1>5 DEF Regrouped, Low, High, Old
<1> QED BY <1>6

(* The child y is a subtree of its own: the split does not touch it. *)
Untouched(D, p, c, x, E, y) ==
  /\ y # c /\ y # x /\ E[y] = D[y]
  /\ c \notin D[y] /\ p \notin D[y] /\ x \notin D[y]

Kinship(N, D, p, i, c, x, E) ==
  /\ \A z \in 1 .. x : z \in E[c] \/ z \in E[x] <=> z \in D[c] \/ z = x
  /\ \A a \in 1 .. Len(N[c].kids) : Untouched(D, p, c, x, E, N[c].kids[a])
  /\ \A a \in 1 .. Len(N[p].kids) : a # i => Untouched(D, p, c, x, E, N[p].kids[a])
  /\ c \notin E[x] /\ x \notin E[c]
  /\ \A m \in 1 .. Len(N) : m # c => (c \in D[m] <=> p \in D[m])

LEMMA KinFacts ==
  ASSUME NEW N, NEW r, NEW D, NEW H, NEW M, NEW p \in Nat, NEW i \in Nat, NEW c \in Nat,
         NEW x \in Nat, Splits(N, r, D, H, M, p, i, c, x),
         NEW E, Regrouped(N, D, p, c, x, E)
  PROVE  Kinship(N, D, p, i, c, x, E)
<1>0. /\ Len(N) \in Nat /\ x = Len(N) + 1
      /\ p \in 1 .. Len(N) /\ c \in 1 .. Len(N) /\ c # p
      /\ \A n \in 1 .. Len(N) : Len(N[n].keys) \in Nat /\ Len(N[n].kids) \in Nat
      /\ Len(N[c].kids) = IF N[c].is_leaf THEN 0 ELSE 2 * t
  BY SplitFacts
<1>1. i \in 1 .. Len(N[p].kids) /\ c = N[p].kids[i] BY DEF Splits
<1>2. Tree(N, r, D, H) BY DEF Splits
<1>3. Paths(N, D) BY <1>2, PathFacts
<1>4. /\ \A n \in 1 .. Len(N) : \A a \in 1 .. Len(N[n].kids) : N[n].kids[a] \in 1 .. Len(N)
      /\ \A n \in 1 .. Len(N), m \in 1 .. Len(N) :
           m \in D[n] <=> m = n \/ \E a \in 1 .. Len(N[n].kids) : m \in D[N[n].kids[a]]
  BY <1>2 DEF Tree, Shaped, Below
<1>5. \A n \in 1 .. Len(N) : n \in D[n] /\ D[n] \in SUBSET (1 .. Len(N)) BY <1>3 DEF Paths
<1>6. \A m \in 1 .. Len(N) : m # c => (c \in D[m] <=> p \in D[m])
  BY <1>0, <1>1, <1>3 DEF Paths
<1>7. ASSUME NEW y \in 1 .. Len(N), y # c, c \notin D[y]
      PROVE  Untouched(D, p, c, x, E, y)
  <2>1. p \notin D[y] BY <1>6, <1>7
  <2>2. x \notin D[y] /\ y # x BY <1>0, <1>5
  <2>3. \A z \in 1 .. x : z \in E[y] <=> z \in D[y] BY <1>7, <2>1 DEF Regrouped
  <2>4. E[y] = D[y]
    <3>1. E[y] \in SUBSET (1 .. x) /\ D[y] \in SUBSET (1 .. x) BY <1>0, <1>5 DEF Regrouped
    <3> QED BY <2>3, <3>1
  <2> QED BY <1>7, <2>1, <2>2, <2>4 DEF Untouched
<1>8. ASSUME NEW a \in 1 .. Len(N[c].kids) PROVE Untouched(D, p, c, x, E, N[c].kids[a])
  <2> DEFINE y == N[c].kids[a]
  <2>1. y \in 1 .. Len(N) /\ c \notin D[y] BY <1>0, <1>3, <1>4 DEF Paths
  <2>2. y \in D[y] BY <1>5, <2>1
  <2> HIDE DEF y
  <2>3. Untouched(D, p, c, x, E, y) BY <1>7, <2>1, <2>2
  <2> QED BY <2>3 DEF y
<1>9. ASSUME NEW a \in 1 .. Len(N[p].kids), a # i PROVE Untouched(D, p, c, x, E, N[p].kids[a])
  <2> DEFINE y == N[p].kids[a]
  <2>1. y \in 1 .. Len(N) /\ c \notin D[y] BY <1>0, <1>1, <1>3, <1>4, <1>9 DEF Paths
  <2>2. y \in D[y] BY <1>5, <2>1
  <2> HIDE DEF y
  <2>3. Untouched(D, p, c, x, E, y) BY <1>7, <2>1, <2>2
  <2> QED BY <2>3 DEF y
<1>10. \A z \in 1 .. x :
         /\ z \in E[c] <=> z = c \/ (~ N[c].is_leaf /\ \E a \in 1 .. t : z \in D[N[c].kids[a]])
         /\ z \in E[x] <=> z = x \/ (~ N[c].is_leaf /\ \E a \in 1 .. t : z \in D[N[c].kids[t + a]])
  BY DEF Regrouped
<1>11. t \in Nat /\ t >= 2 BY Degree
<1>12. ASSUME NEW z \in 1 .. x PROVE z \in E[c] \/ z \in E[x] <=> z \in D[c] \/ z = x
  <2>1. CASE z = x BY <1>0, <1>10, <2>1
  <2>2. CASE z # x
    <3>1. z \in 1 .. Len(N) BY <1>0, <2>2
    <3>2. z \in D[c] <=> z = c \/ \E a \in 1 .. Len(N[c].kids) : z \in D[N[c].kids[a]]
      BY <1>0, <1>4, <3>1
    <3> DEFINE In(a) == z \in D[N[c].kids[a]]
    <3>3. /\ z \in D[c] <=> z = c \/ \E a \in 1 .. Len(N[c].kids) : In(a)
          /\ z \in E[c] <=> z = c \/ (~ N[c].is_leaf /\ \E a \in 1 .. t : In(a))
          /\ z \in E[x] <=> (~ N[c].is_leaf /\ \E a \in 1 .. t : In(t + a))
      BY <1>10, <2>2, <3>2
    <3> HIDE DEF In
    <3>4. CASE N[c].is_leaf
      <4>1. Len(N[c].kids) = 0 BY <1>0, <3>4
      <4> QED BY <2>2, <3>3, <3>4, <4>1
    <3>5. CASE ~ N[c].is_leaf
      <4>1. Len(N[c].kids) = 2 * t BY <1>0, <3>5
      <4>2. (\E a \in 1 .. 2 * t : In(a)) <=> (\E a \in 1 .. t : In(a)) \/ (\E a \in 1 .. t : In(t + a))
        <5>1. ASSUME NEW a \in 1 .. 2 * t, In(a), a > t PROVE \E b \in 1 .. t : In(t + b)
          <6>1. a - t \in 1 .. t /\ t + (a - t) = a BY <1>11, <5>1
          <6> QED BY <5>1, <6>1
        <5>2. \A a \in 1 .. t : t + a \in 1 .. 2 * t /\ a \in 1 .. 2 * t BY <1>11
        <5>3. \A a \in 1 .. 2 * t : a > t \/ a \in 1 .. t BY <1>11
        <5> QED BY <5>1, <5>2, <5>3
      <4> QED BY <2>2, <3>3, <3>5, <4>1, <4>2
    <3> QED BY <3>4, <3>5
  <2> QED BY <2>1, <2>2
<1>13. \A a \in 1 .. Len(N[c].kids) : c \notin D[N[c].kids[a]] /\ x \notin D[N[c].kids[a]]
  BY <1>8 DEF Untouched
<1>14. c \notin E[x] /\ x \notin E[c]
  <2>1. ~ N[c].is_leaf => \A a \in 1 .. t : /\ a \in 1 .. Len(N[c].kids)
                                            /\ t + a \in 1 .. Len(N[c].kids)
    BY <1>0, <1>11
  <2>2. c \in 1 .. x /\ x \in 1 .. x /\ c # x BY <1>0
  <2> QED BY <1>10, <1>13, <2>1, <2>2
<1> QED BY <1>6, <1>8, <1>9, <1>12, <1>14 DEF Kinship

LEMMA SplitBelow ==
  ASSUME NEW N, NEW r, NEW D, NEW H, NEW M, NEW p \in Nat, NEW i \in Nat, NEW c \in Nat,
         NEW x \in Nat, Splits(N, r, D, H, M, p, i, c, x),
         NEW E, Regrouped(N, D, p, c, x, E)
  PROVE  Below(M, E)
<1>0. /\ Len(N) \in Nat /\ x = Len(N) + 1 /\ Len(M) = x
      /\ p \in 1 .. Len(N) /\ c \in 1 .. Len(N) /\ c # p
      /\ \A n \in 1 .. Len(N) : Len(N[n].keys) \in Nat /\ Len(N[n].kids) \in Nat
      /\ Len(N[p].kids) = Len(N[p].keys) + 1 /\ i \in 1 .. Len(N[p].keys) + 1
      /\ Len(N[c].kids) = IF N[c].is_leaf THEN 0 ELSE 2 * t
  BY SplitFacts
<1>1. Divided(N, M, p, i, c, x) /\ c = N[p].kids[i] BY DEF Splits
<1>2. Tree(N, r, D, H) BY DEF Splits
<1>3. Paths(N, D) BY <1>2, PathFacts
<1>4. /\ \A n \in 1 .. Len(N) : \A a \in 1 .. Len(N[n].kids) : N[n].kids[a] \in 1 .. Len(N)
      /\ \A n \in 1 .. Len(N), m \in 1 .. Len(N) :
           m \in D[n] <=> m = n \/ \E a \in 1 .. Len(N[n].kids) : m \in D[N[n].kids[a]]
      /\ \A n \in 1 .. Len(N), m \in 1 .. Len(N) :
           \A a \in 1 .. Len(N[n].kids), b \in 1 .. Len(N[m].kids) :
             N[n].kids[a] = N[m].kids[b] => n = m /\ a = b
  BY <1>2 DEF Tree, Shaped, Below, Placed
<1>5. Kinship(N, D, p, i, c, x, E) BY KinFacts
<1>6. /\ \A z \in 1 .. x :
           /\ z \in E[c] <=> z = c \/ (~ N[c].is_leaf /\ \E a \in 1 .. t : z \in D[N[c].kids[a]])
           /\ z \in E[x] <=> z = x \/ (~ N[c].is_leaf /\ \E a \in 1 .. t : z \in D[N[c].kids[t + a]])
      /\ \A m \in 1 .. Len(N), z \in 1 .. x :
           m # c => (z \in E[m] <=> z \in D[m] \/ (z = x /\ p \in D[m]))
  BY DEF Regrouped
<1>7. t \in Nat /\ t >= 2 BY Degree
<1> SUFFICES ASSUME NEW n \in 1 .. x, NEW z \in 1 .. x
             PROVE  z \in E[n] <=> z = n \/ \E a \in 1 .. Len(M[n].kids) : z \in E[M[n].kids[a]]
  <2>1. E \in [1 .. Len(M) -> SUBSET (1 .. Len(M))] BY <1>0 DEF Regrouped
  <2> QED BY <1>0, <2>1 DEF Below
<1>8. CASE n = c
  <2>1. CASE N[c].is_leaf
    <3>1. Len(M[c].kids) = 0 BY <1>1, <2>1 DEF Divided
    <3> QED BY <1>6, <1>8, <2>1, <3>1
  <2>2. CASE ~ N[c].is_leaf
    <3>1. Len(M[c].kids) = t /\ \A a \in 1 .. t : M[c].kids[a] = N[c].kids[a]
      BY <1>1, <2>2 DEF Divided
    <3>2. \A a \in 1 .. t : E[N[c].kids[a]] = D[N[c].kids[a]]
      <4>1. \A a \in 1 .. t : a \in 1 .. Len(N[c].kids) BY <1>0, <1>7, <2>2
      <4> QED BY <1>5, <4>1 DEF Kinship, Untouched
    <3> DEFINE In(a) == z \in D[N[c].kids[a]]
               On(a) == z \in E[M[c].kids[a]]
    <3>3. \A a \in 1 .. t : On(a) <=> In(a) BY <3>1, <3>2
    <3>4. z \in E[c] <=> z = c \/ \E a \in 1 .. t : In(a) BY <1>6, <2>2
    <3> HIDE DEF In, On
    <3>5. z \in E[c] <=> z = c \/ \E a \in 1 .. t : On(a) BY <3>3, <3>4
    <3> QED BY <1>8, <3>1, <3>5 DEF On
  <2> QED BY <2>1, <2>2
<1>9. CASE n = x
  <2>1. CASE N[c].is_leaf
    <3>1. Len(M[x].kids) = 0 BY <1>1, <2>1 DEF Divided
    <3> QED BY <1>6, <1>9, <2>1, <3>1
  <2>2. CASE ~ N[c].is_leaf
    <3>1. Len(M[x].kids) = t /\ \A a \in 1 .. t : M[x].kids[a] = N[c].kids[t + a]
      BY <1>1, <2>2 DEF Divided
    <3>2. \A a \in 1 .. t : E[N[c].kids[t + a]] = D[N[c].kids[t + a]]
      <4>1. \A a \in 1 .. t : t + a \in 1 .. Len(N[c].kids) BY <1>0, <1>7, <2>2
      <4> QED BY <1>5, <4>1 DEF Kinship, Untouched
    <3> DEFINE In(a) == z \in D[N[c].kids[t + a]]
               On(a) == z \in E[M[x].kids[a]]
    <3>3. \A a \in 1 .. t : On(a) <=> In(a) BY <3>1, <3>2
    <3>4. z \in E[x] <=> z = x \/ \E a \in 1 .. t : In(a) BY <1>6, <2>2
    <3> HIDE DEF In, On
    <3>5. z \in E[x] <=> z = x \/ \E a \in 1 .. t : On(a) BY <3>3, <3>4
    <3> QED BY <1>9, <3>1, <3>5 DEF On
  <2> QED BY <2>1, <2>2
<1>10. CASE n = p
  <2>1. /\ Len(M[p].kids) = Len(N[p].kids) + 1
        /\ \A a \in 1 .. i : M[p].kids[a] = N[p].kids[a]
        /\ M[p].kids[i + 1] = x
        /\ \A a \in i + 2 .. Len(N[p].kids) + 1 : M[p].kids[a] = N[p].kids[a - 1]
    BY <1>1 DEF Divided
  <2> DEFINE l == Len(N[p].kids)
             In(a) == z \in D[N[p].kids[a]]
             On(a) == z \in E[M[p].kids[a]]
  <2>2. l \in Nat /\ i \in 1 .. l /\ Len(M[p].kids) = l + 1 BY <1>0, <2>1
  <2>3. p \in D[p] BY <1>0, <1>3 DEF Paths
  <2>4. z \in E[p] <=> z \in D[p] \/ z = x BY <1>0, <1>6, <2>3
  <2>5. z \in D[p] <=> z = p \/ (z \in D[p] /\ z # x) BY <1>0, <2>3, <1>3 DEF Paths
  <2>6. z # x => (z \in D[p] <=> z = p \/ \E a \in 1 .. l : In(a))
    <3>1. z # x => z \in 1 .. Len(N) BY <1>0
    <3> QED BY <1>0, <1>4, <3>1
  <2>7. \A a \in 1 .. i - 1 : On(a) <=> In(a)
    <3>1. \A a \in 1 .. i - 1 : /\ a \in 1 .. l /\ a # i
                                /\ M[p].kids[a] = N[p].kids[a]
      BY <2>1, <2>2, SMTT(30)
    <3> QED BY <1>5, <3>1, SMTT(30) DEF Kinship, Untouched
  <2>8. \A a \in i + 2 .. l + 1 : On(a) <=> In(a - 1)
    <3> SUFFICES ASSUME NEW a \in i + 2 .. l + 1 PROVE On(a) <=> In(a - 1) OBVIOUS
    <3>1. M[p].kids[a] = N[p].kids[a - 1] BY <2>1
    <3>2. a - 1 \in 1 .. l /\ a - 1 # i BY <2>2
    <3> DEFINE b == a - 1
    <3>3. b \in 1 .. l /\ b # i /\ M[p].kids[a] = N[p].kids[b] BY <3>1, <3>2
    <3> HIDE DEF b
    <3>4. On(a) <=> In(b) BY <1>5, <3>3 DEF Kinship, Untouched
    <3> QED BY <3>4 DEF b
  <2>9. (On(i) <=> z \in E[c]) /\ (In(i) <=> z \in D[c]) /\ (On(i + 1) <=> z \in E[x])
    <3>1. M[p].kids[i] = c /\ N[p].kids[i] = c BY <1>0, <1>1, <2>1
    <3> QED BY <2>1, <3>1
  <2>10. z \in E[c] \/ z \in E[x] <=> z \in D[c] \/ z = x BY <1>5 DEF Kinship
  <2>11. \A a \in 1 .. l : In(a) => z # x
    <3>1. \A a \in 1 .. l : N[p].kids[a] \in 1 .. Len(N) BY <1>0, <1>4
    <3>2. \A y \in 1 .. Len(N) : x \notin D[y] BY <1>0, <1>3 DEF Paths
    <3> QED BY <3>1, <3>2
  <2> HIDE DEF l, In, On
  <2>12. (\E a \in 1 .. l + 1 : On(a)) <=> z = x \/ \E a \in 1 .. l : In(a)
    <3>1. ASSUME NEW a \in 1 .. l + 1, On(a) PROVE z = x \/ \E b \in 1 .. l : In(b)
      <4>1. CASE a <= i - 1
        <5>1. a \in 1 .. i - 1 /\ a \in 1 .. l BY <2>2, <4>1
        <5> QED BY <2>7, <3>1, <5>1
      <4>2. CASE a = i \/ a = i + 1 BY <2>2, <2>9, <2>10, <3>1, <4>2
      <4>3. CASE a >= i + 2
        <5>1. a \in i + 2 .. l + 1 /\ a - 1 \in 1 .. l BY <2>2, <4>3
        <5> QED BY <2>8, <3>1, <5>1
      <4> QED BY <2>2, <4>1, <4>2, <4>3
    <3>2. i \in 1 .. l + 1 /\ i + 1 \in 1 .. l + 1 BY <2>2
    <3>3. ASSUME z = x PROVE \E a \in 1 .. l + 1 : On(a) BY <2>9, <2>10, <3>2, <3>3
    <3>4. ASSUME NEW a \in 1 .. l, In(a) PROVE \E b \in 1 .. l + 1 : On(b)
      <4>1. CASE a < i
        <5>1. a \in 1 .. i - 1 /\ a \in 1 .. l + 1 BY <2>2, <4>1
        <5> QED BY <2>7, <3>4, <5>1
      <4>2. CASE a = i BY <2>9, <2>10, <3>2, <3>4, <4>2
      <4>3. CASE a > i
        <5>1. a + 1 \in i + 2 .. l + 1 /\ (a + 1) - 1 = a /\ a + 1 \in 1 .. l + 1 BY <2>2, <4>3
        <5>2. On(a + 1) BY <2>8, <3>4, <5>1
        <5> QED BY <5>1, <5>2
      <4> QED BY <2>2, <4>1, <4>2, <4>3
    <3> QED BY <3>1, <3>3, <3>4
  <2>13. z \in E[p] <=> z = p \/ \E a \in 1 .. l + 1 : On(a)
    BY <2>4, <2>5, <2>6, <2>11, <2>12
  <2> QED BY <1>10, <2>2, <2>13 DEF On
<1>11. CASE n # c /\ n # x /\ n # p
  <2>1. n \in 1 .. Len(N) BY <1>0, <1>11
  <2>2. M[n] = N[n] BY <1>1, <1>11, <2>1 DEF Divided
  <2>3. z \in E[n] <=> z \in D[n] \/ (z = x /\ p \in D[n]) BY <1>6, <1>11, <2>1
  <2>4. ASSUME NEW a \in 1 .. Len(N[n].kids)
        PROVE  z \in E[N[n].kids[a]] <=> z \in D[N[n].kids[a]] \/ (z = x /\ p \in D[N[n].kids[a]])
    <3> DEFINE y == N[n].kids[a]
    <3>1. y \in 1 .. Len(N) BY <1>4, <2>1
    <3>2. y # c
      <4>1. i \in 1 .. Len(N[p].kids) BY <1>0
      <4> QED BY <1>0, <1>1, <1>4, <1>11, <2>1, <4>1
    <3> HIDE DEF y
    <3>3. z \in E[y] <=> z \in D[y] \/ (z = x /\ p \in D[y]) BY <1>6, <3>1, <3>2
    <3> QED BY <3>3 DEF y
  <2>5. p \in D[n] <=> \E a \in 1 .. Len(N[n].kids) : p \in D[N[n].kids[a]]
    BY <1>0, <1>4, <1>11, <2>1
  <2>6. z # x => (z \in D[n] <=> z = n \/ \E a \in 1 .. Len(N[n].kids) : z \in D[N[n].kids[a]])
    <3>1. z # x => z \in 1 .. Len(N) BY <1>0
    <3> QED BY <1>4, <2>1, <3>1
  <2>7. z = x => z \notin D[n] /\ z # n BY <1>0, <1>3, <2>1 DEF Paths
  <2>8. z = x => \A a \in 1 .. Len(N[n].kids) : z \notin D[N[n].kids[a]]
    <3>1. \A y \in 1 .. Len(N) : x \notin D[y] BY <1>0, <1>3 DEF Paths
    <3> QED BY <1>4, <2>1, <3>1
  <2>9. z \in E[n] <=> z = n \/ \E a \in 1 .. Len(N[n].kids) : z \in E[N[n].kids[a]]
    <3>1. CASE z = x BY <2>3, <2>4, <2>5, <2>7, <2>8, <3>1
    <3>2. CASE z # x BY <2>3, <2>4, <2>6, <3>2
    <3> QED BY <3>1, <3>2
  <2> QED BY <2>2, <2>9
<1> QED BY <1>8, <1>9, <1>10, <1>11

LEMMA KeysAreIntegers ==
  ASSUME NEW N, N \in Seq(NodeType)
  PROVE  \A n \in 1 .. Len(N) : /\ Len(N[n].keys) \in Nat
                                /\ \A a \in 1 .. Len(N[n].keys) : N[n].keys[a] \in Int
<1>1. \A n \in 1 .. Len(N) : N[n] \in NodeType OBVIOUS
<1>2. \A q \in NodeType : q.keys \in Seq(Key) BY DEF NodeType
<1>3. \A s \in Seq(Key) : Len(s) \in Nat /\ \A a \in 1 .. Len(s) : s[a] \in Key OBVIOUS
<1>4. \A y \in Key : y \in Int BY Degree
<1> QED BY <1>1, <1>2, <1>3, <1>4

LEMMA SplitSorted ==
  ASSUME NEW N, NEW r, NEW D, NEW H, NEW M, NEW p \in Nat, NEW i \in Nat, NEW c \in Nat,
         NEW x \in Nat, Splits(N, r, D, H, M, p, i, c, x)
  PROVE  /\ \A n \in 1 .. x : \A a \in 1 .. Len(M[n].keys), b \in 1 .. Len(M[n].keys) :
              a < b => M[n].keys[a] <= M[n].keys[b]
         /\ i > 1 => N[p].keys[i - 1] <= N[c].keys[t]
         /\ i <= Len(N[p].keys) => N[c].keys[t] <= N[p].keys[i]
<1>0. /\ Len(N) \in Nat /\ x = Len(N) + 1 /\ Len(M) = x
      /\ p \in 1 .. Len(N) /\ c \in 1 .. Len(N) /\ c # p
      /\ \A n \in 1 .. Len(N) : Len(N[n].keys) \in Nat /\ Len(N[n].kids) \in Nat
      /\ Len(N[p].kids) = Len(N[p].keys) + 1 /\ i \in 1 .. Len(N[p].keys) + 1
      /\ Len(N[c].keys) = 2 * t - 1
  BY SplitFacts
<1>1. Divided(N, M, p, i, c, x) /\ c = N[p].kids[i] BY DEF Splits
<1>2. Tree(N, r, D, H) BY DEF Splits
<1>3. Paths(N, D) BY <1>2, PathFacts
<1>4. Ordered(N, D) /\ N \in Seq(NodeType) BY <1>2 DEF Tree, Shaped
<1>5. \A n \in 1 .. Len(N) : \A a \in 1 .. Len(N[n].keys) : N[n].keys[a] \in Int
  BY <1>4, KeysAreIntegers
<1>6. \A n \in 1 .. Len(N) : \A a \in 1 .. Len(N[n].keys), b \in 1 .. Len(N[n].keys) :
        a < b => N[n].keys[a] <= N[n].keys[b]
  BY <1>4 DEF Ordered
<1>7. t \in Nat /\ t >= 2 BY Degree
<1>8. Fits(N, p, i, N[c].keys[t])
  <2>1. t \in 1 .. Len(N[c].keys) /\ i \in 1 .. Len(N[p].kids) BY <1>0, <1>7
  <2>2. c \in D[N[p].kids[i]] BY <1>0, <1>1, <1>3 DEF Paths
  <2> QED BY <1>0, <1>4, <2>1, <2>2 DEF Ordered
<1> DEFINE med == N[c].keys[t]
           s == N[p].keys
           l == Len(N[p].keys)
<1>9. /\ i > 1 => s[i - 1] <= med
      /\ i <= l => med <= s[i]
      /\ med \in Int /\ l \in Nat /\ i \in 1 .. l + 1
      /\ \A a \in 1 .. l : s[a] \in Int
      /\ \A a \in 1 .. l, b \in 1 .. l : a < b => s[a] <= s[b]
  <2>1. t \in 1 .. Len(N[c].keys) BY <1>0, <1>7
  <2> QED BY <1>0, <1>5, <1>6, <1>8, <2>1 DEF Fits
<1>10. ASSUME NEW a \in 1 .. Len(M[p].keys), NEW b \in 1 .. Len(M[p].keys), a < b
       PROVE  M[p].keys[a] <= M[p].keys[b]
  <2> DEFINE u == M[p].keys
  <2>1. /\ Len(u) = l + 1
        /\ \A y \in 1 .. i - 1 : u[y] = s[y]
        /\ u[i] = med
        /\ \A y \in i + 1 .. l + 1 : u[y] = s[y - 1]
    BY <1>1 DEF Divided
  <2>2. a \in 1 .. l + 1 /\ b \in 1 .. l + 1 BY <2>1
  <2> HIDE DEF u, s, l, med
  <2>3. CASE b < i
    <3>1. a \in 1 .. i - 1 /\ b \in 1 .. i - 1 /\ a \in 1 .. l /\ b \in 1 .. l BY <1>9, <1>10, <2>2, <2>3
    <3>2. u[a] = s[a] /\ u[b] = s[b] BY <2>1, <3>1
    <3>3. s[a] <= s[b] BY <1>9, <1>10, <3>1
    <3> QED BY <3>2, <3>3 DEF u
  <2>4. CASE a < i /\ b >= i
    <3>1. a \in 1 .. i - 1 /\ a \in 1 .. l /\ i - 1 \in 1 .. l /\ i > 1 BY <1>9, <2>2, <2>4
    <3>2. u[a] = s[a] BY <2>1, <3>1
    <3>3. s[a] <= s[i - 1]
      <4> DEFINE o == i - 1
      <4>1. o \in 1 .. l /\ (a = o \/ a < o) BY <3>1
      <4> HIDE DEF o
      <4>2. s[a] <= s[o] BY <1>9, <3>1, <4>1
      <4> QED BY <4>2 DEF o
    <3>4. s[a] <= med BY <1>9, <3>1, <3>3
    <3>5. CASE b = i BY <2>1, <3>2, <3>4, <3>5 DEF u
    <3>6. CASE b > i
      <4> DEFINE o == b - 1
      <4>1. b \in i + 1 .. l + 1 /\ o \in 1 .. l /\ a < o BY <1>9, <2>2, <2>4, <3>6
      <4>2. u[b] = s[o] BY <2>1, <4>1
      <4> HIDE DEF o
      <4>3. s[a] <= s[o] BY <1>9, <3>1, <4>1
      <4> QED BY <3>2, <4>2, <4>3 DEF u
    <3> QED BY <2>2, <2>4, <3>5, <3>6
  <2>5. CASE a = i
    <3> DEFINE o == b - 1
    <3>1. b \in i + 1 .. l + 1 /\ o \in 1 .. l /\ (i = o \/ i < o) /\ i \in 1 .. l
      BY <1>9, <1>10, <2>2, <2>5
    <3>2. u[b] = s[o] BY <2>1, <3>1
    <3> HIDE DEF o
    <3>3. s[i] <= s[o] BY <1>9, <3>1
    <3>4. med <= s[o] BY <1>9, <3>1, <3>3
    <3> QED BY <2>1, <2>5, <3>2, <3>4 DEF u
  <2>6. CASE a > i
    <3> DEFINE o == b - 1
               y == a - 1
    <3>1. /\ a \in i + 1 .. l + 1 /\ b \in i + 1 .. l + 1 /\ o \in 1 .. l /\ y \in 1 .. l /\ y < o
      BY <1>9, <1>10, <2>2, <2>6
    <3>2. u[b] = s[o] /\ u[a] = s[y] BY <2>1, <3>1
    <3> HIDE DEF o, y
    <3>3. s[y] <= s[o] BY <1>9, <3>1
    <3> QED BY <3>2, <3>3 DEF u
  <2> QED BY <1>9, <1>10, <2>2, <2>3, <2>4, <2>5, <2>6
<1>11. ASSUME NEW n \in 1 .. x, n = c \/ n = x,
              NEW a \in 1 .. Len(M[n].keys), NEW b \in 1 .. Len(M[n].keys), a < b
       PROVE  M[n].keys[a] <= M[n].keys[b]
  <2>1. /\ Len(M[n].keys) = t - 1
        /\ \A y \in 1 .. t - 1 : M[c].keys[y] = N[c].keys[y] /\ M[x].keys[y] = N[c].keys[t + y]
    BY <1>1, <1>11 DEF Divided
  <2>2. /\ a \in 1 .. t - 1 /\ b \in 1 .. t - 1
        /\ a \in 1 .. Len(N[c].keys) /\ b \in 1 .. Len(N[c].keys)
        /\ t + a \in 1 .. Len(N[c].keys) /\ t + b \in 1 .. Len(N[c].keys) /\ t + a < t + b
    <3>1. a \in 1 .. t - 1 /\ b \in 1 .. t - 1 BY <2>1
    <3> DEFINE w == Len(N[c].keys)
    <3>2. w = 2 * t - 1 BY <1>0
    <3> HIDE DEF w
    <3>3. a \in 1 .. w /\ b \in 1 .. w /\ t + a \in 1 .. w /\ t + b \in 1 .. w /\ t + a < t + b
      BY <1>7, <1>11, <3>1, <3>2
    <3> QED BY <3>1, <3>3 DEF w
  <2>3. N[c].keys[a] <= N[c].keys[b] BY <1>0, <1>6, <1>11, <2>2
  <2>4. N[c].keys[t + a] <= N[c].keys[t + b] BY <1>0, <1>6, <2>2
  <2> QED BY <1>11, <2>1, <2>2, <2>3, <2>4
<1>12. ASSUME NEW n \in 1 .. x, n # c, n # x, n # p,
              NEW a \in 1 .. Len(M[n].keys), NEW b \in 1 .. Len(M[n].keys), a < b
       PROVE  M[n].keys[a] <= M[n].keys[b]
  <2>1. n \in 1 .. Len(N) BY <1>0, <1>12
  <2>2. M[n] = N[n] BY <1>1, <1>12, <2>1 DEF Divided
  <2> QED BY <1>6, <1>12, <2>1, <2>2
<1>13. \A n \in 1 .. x : \A a \in 1 .. Len(M[n].keys), b \in 1 .. Len(M[n].keys) :
         a < b => M[n].keys[a] <= M[n].keys[b]
  BY <1>10, <1>11, <1>12
<1> QED BY <1>9, <1>13

(* Every key of node m of M was a key of one of the nodes in S. *)
From(N, M, S, m) ==
  \A b \in 1 .. Len(M[m].keys) :
    \E q \in S : \E e \in 1 .. Len(N[q].keys) : M[m].keys[b] = N[q].keys[e]

LEMMA KeyOrigin ==
  ASSUME NEW N, NEW r, NEW D, NEW H, NEW M, NEW p \in Nat, NEW i \in Nat, NEW c \in Nat,
         NEW x \in Nat, Splits(N, r, D, H, M, p, i, c, x),
         NEW S, NEW m \in 1 .. x, OldNode(m, c, x) \in S, m = p => c \in S
  PROVE  From(N, M, S, m)
<1>0. /\ Len(N) \in Nat /\ x = Len(N) + 1 /\ Len(M) = x
      /\ p \in 1 .. Len(N) /\ c \in 1 .. Len(N) /\ c # p
      /\ \A n \in 1 .. Len(N) : Len(N[n].keys) \in Nat /\ Len(N[n].kids) \in Nat
      /\ Len(N[p].kids) = Len(N[p].keys) + 1 /\ i \in 1 .. Len(N[p].keys) + 1
      /\ Len(N[c].keys) = 2 * t - 1
  BY SplitFacts
<1>1. Divided(N, M, p, i, c, x) BY DEF Splits
<1>2. t \in Nat /\ t >= 2 BY Degree
<1> SUFFICES ASSUME NEW b \in 1 .. Len(M[m].keys)
             PROVE  \E q \in S : \E e \in 1 .. Len(N[q].keys) : M[m].keys[b] = N[q].keys[e]
  BY DEF From
<1>3. CASE m = c
  <2>1. Len(M[c].keys) = t - 1 /\ \A y \in 1 .. t - 1 : M[c].keys[y] = N[c].keys[y]
    BY <1>1 DEF Divided
  <2>2. b \in 1 .. t - 1 /\ b \in 1 .. Len(N[c].keys) /\ c \in S
    BY <1>0, <1>2, <1>3, <2>1 DEF OldNode
  <2> QED BY <1>3, <2>1, <2>2
<1>4. CASE m = x
  <2>1. Len(M[x].keys) = t - 1 /\ \A y \in 1 .. t - 1 : M[x].keys[y] = N[c].keys[t + y]
    BY <1>1 DEF Divided
  <2>2. b \in 1 .. t - 1 /\ t + b \in 1 .. Len(N[c].keys) /\ c \in S
    BY <1>0, <1>2, <1>4, <2>1 DEF OldNode
  <2>3. M[m].keys[b] = N[c].keys[t + b] BY <1>4, <2>1, <2>2
  <2> QED BY <2>2, <2>3
<1>5. CASE m = p
  <2>1. /\ Len(M[p].keys) = Len(N[p].keys) + 1
        /\ \A y \in 1 .. i - 1 : M[p].keys[y] = N[p].keys[y]
        /\ M[p].keys[i] = N[c].keys[t]
        /\ \A y \in i + 1 .. Len(N[p].keys) + 1 : M[p].keys[y] = N[p].keys[y - 1]
    BY <1>1 DEF Divided
  <2>2. b \in 1 .. Len(N[p].keys) + 1 /\ p \in S /\ c \in S
    BY <1>0, <1>5, <2>1 DEF OldNode
  <2>3. CASE b < i
    <3>1. b \in 1 .. i - 1 /\ b \in 1 .. Len(N[p].keys) BY <1>0, <2>2, <2>3
    <3> QED BY <1>5, <2>1, <2>2, <3>1
  <2>4. CASE b = i
    <3>1. t \in 1 .. Len(N[c].keys) BY <1>0, <1>2
    <3> QED BY <1>5, <2>1, <2>2, <2>4, <3>1
  <2>5. CASE b > i
    <3>1. b \in i + 1 .. Len(N[p].keys) + 1 /\ b - 1 \in 1 .. Len(N[p].keys) BY <1>0, <2>2, <2>5
    <3>2. M[m].keys[b] = N[p].keys[b - 1] BY <1>5, <2>1, <3>1
    <3> QED BY <2>2, <3>1, <3>2
  <2> QED BY <2>2, <2>3, <2>4, <2>5
<1>6. CASE m # c /\ m # x /\ m # p
  <2>1. m \in 1 .. Len(N) /\ m \in S BY <1>0, <1>6 DEF OldNode
  <2>2. M[m] = N[m] BY <1>1, <1>6, <2>1 DEF Divided
  <2> QED BY <2>1, <2>2
<1> QED BY <1>3, <1>4, <1>5, <1>6

(* The keys below c are at most the median that moves up, those below the  *)
(* new node at least.                                                      *)
LEMMA HalvesBounded ==
  ASSUME NEW N, NEW r, NEW D, NEW H, NEW M, NEW p \in Nat, NEW i \in Nat, NEW c \in Nat,
         NEW x \in Nat, Splits(N, r, D, H, M, p, i, c, x),
         NEW E, Regrouped(N, D, p, c, x, E)
  PROVE  /\ \A m \in E[c] : /\ From(N, M, D[c], m)
                            /\ \A b \in 1 .. Len(M[m].keys) : M[m].keys[b] <= N[c].keys[t]
         /\ \A m \in E[x] : /\ From(N, M, D[c], m)
                            /\ \A b \in 1 .. Len(M[m].keys) : M[m].keys[b] >= N[c].keys[t]
<1>0. /\ Len(N) \in Nat /\ x = Len(N) + 1 /\ Len(M) = x
      /\ p \in 1 .. Len(N) /\ c \in 1 .. Len(N) /\ c # p
      /\ \A n \in 1 .. Len(N) : Len(N[n].keys) \in Nat /\ Len(N[n].kids) \in Nat
      /\ Len(N[c].keys) = 2 * t - 1
      /\ Len(N[c].kids) = IF N[c].is_leaf THEN 0 ELSE 2 * t
  BY SplitFacts
<1>1. Divided(N, M, p, i, c, x) /\ c = N[p].kids[i] /\ i \in 1 .. Len(N[p].kids) BY DEF Splits
<1>2. Tree(N, r, D, H) BY DEF Splits
<1>3. Paths(N, D) BY <1>2, PathFacts
<1>4. Ordered(N, D) /\ N \in Seq(NodeType) BY <1>2 DEF Tree, Shaped
<1>5. Kinship(N, D, p, i, c, x, E) BY KinFacts
<1>6. t \in Nat /\ t >= 2 BY Degree
<1>7. \A z \in 1 .. x :
        /\ z \in E[c] <=> z = c \/ (~ N[c].is_leaf /\ \E a \in 1 .. t : z \in D[N[c].kids[a]])
        /\ z \in E[x] <=> z = x \/ (~ N[c].is_leaf /\ \E a \in 1 .. t : z \in D[N[c].kids[t + a]])
  BY DEF Regrouped
<1>8. E[c] \in SUBSET (1 .. x) /\ E[x] \in SUBSET (1 .. x)
  <2>1. E \in [1 .. x -> SUBSET (1 .. x)] BY DEF Regrouped
  <2>2. c \in 1 .. x /\ x \in 1 .. x BY <1>0
  <2> QED BY ONLY <2>1, <2>2
<1>9. ASSUME NEW m \in 1 .. x, m \in E[c] \/ m \in E[x] PROVE From(N, M, D[c], m)
  <2>1. m \in D[c] \/ m = x BY <1>5, <1>9 DEF Kinship
  <2>2. c \in D[c] /\ p \notin D[c] BY <1>0, <1>1, <1>3 DEF Paths
  <2>3. OldNode(m, c, x) \in D[c] /\ m # p BY <1>0, <2>1, <2>2 DEF OldNode
  <2> QED BY <2>3, KeyOrigin
<1>10. /\ t \in 1 .. Len(N[c].keys)
       /\ \A a \in 1 .. Len(N[c].keys) : N[c].keys[a] \in Int
       /\ \A a \in 1 .. Len(N[c].keys), b \in 1 .. Len(N[c].keys) :
            a < b => N[c].keys[a] <= N[c].keys[b]
  <2>1. t \in 1 .. Len(N[c].keys) BY <1>0, <1>6
  <2>2. \A a \in 1 .. Len(N[c].keys) : N[c].keys[a] \in Int BY <1>0, <1>4, KeysAreIntegers
  <2> QED BY <1>0, <1>4, <2>1, <2>2 DEF Ordered
(* A key below the a-th old child of c fits there. *)
<1>11. ASSUME NEW a \in 1 .. Len(N[c].kids), NEW m \in 1 .. x, m \in D[N[c].kids[a]],
              NEW b \in 1 .. Len(M[m].keys)
       PROVE  Fits(N, c, a, M[m].keys[b]) /\ M[m].keys[b] \in Int
  <2>1. Untouched(D, p, c, x, E, N[c].kids[a]) BY <1>5 DEF Kinship
  <2>2. m # c /\ m # p /\ m # x BY <1>11, <2>1 DEF Untouched
  <2>3. m \in 1 .. Len(N) BY <1>0, <2>2
  <2>4. M[m] = N[m] BY <1>1, <2>2, <2>3 DEF Divided
  <2>5. Fits(N, c, a, N[m].keys[b]) BY <1>0, <1>4, <1>11, <2>4 DEF Ordered
  <2>6. N[m].keys[b] \in Int BY <1>4, <2>3, <2>4, KeysAreIntegers
  <2> QED BY <2>4, <2>5, <2>6
<1>12. ASSUME NEW m \in E[c], NEW b \in 1 .. Len(M[m].keys)
       PROVE  M[m].keys[b] <= N[c].keys[t]
  <2>1. m \in 1 .. x BY <1>8
  <2>2. CASE m = c
    <3>1. Len(M[c].keys) = t - 1 /\ \A y \in 1 .. t - 1 : M[c].keys[y] = N[c].keys[y]
      BY <1>1 DEF Divided
    <3>2. b \in 1 .. t - 1 BY <2>2, <3>1
    <3>3. b \in 1 .. Len(N[c].keys) /\ b < t BY <1>0, <1>6, <3>2
    <3> QED BY <1>10, <2>2, <3>1, <3>2, <3>3
  <2>3. CASE m # c
    <3>1. PICK a \in 1 .. t : ~ N[c].is_leaf /\ m \in D[N[c].kids[a]] BY <1>7, <2>1, <2>3
    <3>2. a \in 1 .. Len(N[c].kids) /\ a \in 1 .. Len(N[c].keys) BY <1>0, <1>6, <3>1
    <3> DEFINE k == M[m].keys[b]
    <3>3. Fits(N, c, a, k) /\ k \in Int BY <1>11, <2>1, <3>1, <3>2
    <3> HIDE DEF k
    <3>4. k <= N[c].keys[a] BY <1>0, <3>2, <3>3 DEF Fits
    <3>5. N[c].keys[a] <= N[c].keys[t]
      <4>1. a = t \/ a < t BY <1>6
      <4>2. N[c].keys[t] <= N[c].keys[t] BY <1>10
      <4> QED BY <1>10, <3>2, <4>1, <4>2
    <3>6. N[c].keys[a] \in Int /\ N[c].keys[t] \in Int BY <1>10, <3>2
    <3>7. k <= N[c].keys[t] BY <3>3, <3>4, <3>5, <3>6
    <3> QED BY <3>7 DEF k
  <2> QED BY <2>2, <2>3
<1>13. ASSUME NEW m \in E[x], NEW b \in 1 .. Len(M[m].keys)
       PROVE  M[m].keys[b] >= N[c].keys[t]
  <2>1. m \in 1 .. x BY <1>8
  <2>2. CASE m = x
    <3>1. Len(M[x].keys) = t - 1 /\ \A y \in 1 .. t - 1 : M[x].keys[y] = N[c].keys[t + y]
      BY <1>1 DEF Divided
    <3>2. b \in 1 .. t - 1 BY <2>2, <3>1
    <3>3. t + b \in 1 .. Len(N[c].keys) /\ t < t + b BY <1>0, <1>6, <3>2
    <3>4. N[c].keys[t] <= N[c].keys[t + b] BY <1>10, <3>3
    <3>5. N[c].keys[t] \in Int /\ N[c].keys[t + b] \in Int BY <1>10, <3>3
    <3>6. M[m].keys[b] = N[c].keys[t + b] BY <2>2, <3>1, <3>2
    <3> QED BY <3>4, <3>5, <3>6
  <2>3. CASE m # x
    <3>1. PICK a \in 1 .. t : ~ N[c].is_leaf /\ m \in D[N[c].kids[t + a]] BY <1>7, <2>1, <2>3
    <3> DEFINE o == t + a
               k == M[m].keys[b]
    <3>2. o \in 1 .. Len(N[c].kids) /\ o - 1 \in 1 .. Len(N[c].keys) /\ o > 1 /\ (t = o - 1 \/ t < o - 1)
      BY <1>0, <1>6, <3>1
    <3> HIDE DEF o
    <3>3. Fits(N, c, o, k) /\ k \in Int BY <1>11, <2>1, <3>1, <3>2 DEF o
    <3> HIDE DEF k
    <3>4. N[c].keys[o - 1] <= k BY <3>2, <3>3 DEF Fits
    <3> DEFINE w == o - 1
    <3>5. w \in 1 .. Len(N[c].keys) /\ (t = w \/ t < w) /\ N[c].keys[w] <= k BY <3>2, <3>4
    <3> HIDE DEF w
    <3>6. N[c].keys[w] \in Int /\ N[c].keys[t] \in Int BY <1>10, <3>5
    <3>7. N[c].keys[t] <= N[c].keys[w]
      <4>1. N[c].keys[t] <= N[c].keys[t] BY <3>6
      <4> QED BY <1>10, <3>5, <4>1
    <3>8. k >= N[c].keys[t] BY <3>3, <3>5, <3>6, <3>7
    <3> QED BY <3>8 DEF k
  <2> QED BY <2>2, <2>3
<1> QED BY <1>8, <1>9, <1>12, <1>13

LEMMA SplitOrdered ==
  ASSUME NEW N, NEW r, NEW D, NEW H, NEW M, NEW p \in Nat, NEW i \in Nat, NEW c \in Nat,
         NEW x \in Nat, Splits(N, r, D, H, M, p, i, c, x),
         NEW E, Regrouped(N, D, p, c, x, E)
  PROVE  Ordered(M, E)
<1>0. /\ Len(N) \in Nat /\ x = Len(N) + 1 /\ Len(M) = x
      /\ p \in 1 .. Len(N) /\ c \in 1 .. Len(N) /\ c # p
      /\ \A n \in 1 .. Len(N) : Len(N[n].keys) \in Nat /\ Len(N[n].kids) \in Nat
      /\ Len(N[p].kids) = Len(N[p].keys) + 1 /\ i \in 1 .. Len(N[p].keys) + 1
      /\ Len(N[c].keys) = 2 * t - 1
      /\ Len(N[c].kids) = IF N[c].is_leaf THEN 0 ELSE 2 * t
  BY SplitFacts
<1>1. Divided(N, M, p, i, c, x) /\ c = N[p].kids[i] /\ i \in 1 .. Len(N[p].kids) BY DEF Splits
<1>2. Tree(N, r, D, H) BY DEF Splits
<1>3. Paths(N, D) BY <1>2, PathFacts
<1>4. /\ Ordered(N, D) /\ N \in Seq(NodeType)
      /\ \A n \in 1 .. Len(N) : \A a \in 1 .. Len(N[n].kids) : N[n].kids[a] \in 1 .. Len(N)
      /\ \A n \in 1 .. Len(N), m \in 1 .. Len(N) :
           \A a \in 1 .. Len(N[n].kids), b \in 1 .. Len(N[m].kids) :
             N[n].kids[a] = N[m].kids[b] => n = m /\ a = b
  BY <1>2 DEF Tree, Shaped, Placed
<1>5. Kinship(N, D, p, i, c, x, E) BY KinFacts
<1>6. t \in Nat /\ t >= 2 BY Degree
<1>7. /\ \A m \in E[c] : /\ From(N, M, D[c], m)
                         /\ \A b \in 1 .. Len(M[m].keys) : M[m].keys[b] <= N[c].keys[t]
      /\ \A m \in E[x] : /\ From(N, M, D[c], m)
                         /\ \A b \in 1 .. Len(M[m].keys) : M[m].keys[b] >= N[c].keys[t]
  BY HalvesBounded
<1>8. /\ \A n \in 1 .. x : \A a \in 1 .. Len(M[n].keys), b \in 1 .. Len(M[n].keys) :
           a < b => M[n].keys[a] <= M[n].keys[b]
      /\ i > 1 => N[p].keys[i - 1] <= N[c].keys[t]
      /\ i <= Len(N[p].keys) => N[c].keys[t] <= N[p].keys[i]
  BY SplitSorted
(* Below any node but c there are only keys that were below it. *)
<1>9. ASSUME NEW y \in 1 .. Len(N), y # c, NEW m \in E[y] PROVE From(N, M, D[y], m)
  <2>0. y \in 1 .. x BY <1>0
  <2>1. m \in 1 .. x /\ (m \in D[y] \/ (m = x /\ p \in D[y]))
    <3>1. E[y] \in SUBSET (1 .. x) BY <2>0 DEF Regrouped
    <3>2. m \in 1 .. x BY <3>1
    <3> QED BY <1>9, <3>2 DEF Regrouped
  <2>2. c \in D[y] <=> p \in D[y] BY <1>5, <1>9 DEF Kinship
  <2>3. OldNode(m, c, x) \in D[y]
    <3>1. CASE m = x
      <4>1. x \notin D[y] BY <1>0, <1>3 DEF Paths
      <4> QED BY <2>1, <2>2, <3>1, <4>1 DEF OldNode
    <3>2. CASE m # x BY <2>1, <3>2 DEF OldNode
    <3> QED BY <3>1, <3>2
  <2>4. m = p => c \in D[y] BY <1>0, <2>1, <2>2
  <2> QED BY <2>1, <2>3, <2>4, KeyOrigin
(* And what was below a place fits there. *)
<1>10. ASSUME NEW n \in 1 .. Len(N), NEW a \in 1 .. Len(N[n].kids), NEW m,
              From(N, M, D[N[n].kids[a]], m), NEW b \in 1 .. Len(M[m].keys)
       PROVE  Fits(N, n, a, M[m].keys[b])
  <2> DEFINE S == D[N[n].kids[a]]
             Was(q) == \E e \in 1 .. Len(N[q].keys) : M[m].keys[b] = N[q].keys[e]
  <2>1. \E q \in S : Was(q) BY <1>10 DEF From
  <2>2. PICK q \in S : Was(q) BY <2>1
  <2>3. PICK e \in 1 .. Len(N[q].keys) : M[m].keys[b] = N[q].keys[e] BY <2>2
  <2>4. Fits(N, n, a, N[q].keys[e]) BY <1>4 DEF Ordered
  <2> QED BY <2>3, <2>4
<1>11. SUFFICES ASSUME NEW n \in 1 .. x, NEW a \in 1 .. Len(M[n].kids),
                       NEW m \in E[M[n].kids[a]], NEW b \in 1 .. Len(M[m].keys)
                PROVE  Fits(M, n, a, M[m].keys[b])
  <2>1. \A n \in 1 .. Len(M) : n \in 1 .. x BY <1>0
  <2> QED BY <1>8, <2>1 DEF Ordered
<1> DEFINE k == M[m].keys[b]
<1>12. CASE n = c
  <2>1. /\ Len(M[c].keys) = t - 1 /\ \A y \in 1 .. t - 1 : M[c].keys[y] = N[c].keys[y]
        /\ Len(M[c].kids) = IF N[c].is_leaf THEN 0 ELSE t
        /\ ~ N[c].is_leaf => \A y \in 1 .. t : M[c].kids[y] = N[c].kids[y]
    BY <1>1 DEF Divided
  <2>2. ~ N[c].is_leaf /\ a \in 1 .. t BY <1>6, <1>12, <2>1
  <2>3. a \in 1 .. Len(N[c].kids) /\ M[n].kids[a] = N[c].kids[a] BY <1>0, <1>6, <1>12, <2>1, <2>2
  <2>4. N[c].kids[a] \in 1 .. Len(N) /\ N[c].kids[a] # c
    BY <1>0, <1>4, <1>5, <2>3 DEF Kinship, Untouched
  <2>5. From(N, M, D[N[c].kids[a]], m) BY <1>9, <2>3, <2>4
  <2>6. Fits(N, c, a, k) BY <1>0, <1>10, <2>3, <2>5
  <2> HIDE DEF k
  <2>7. Fits(M, c, a, k)
    <3>1. a > 1 => M[c].keys[a - 1] = N[c].keys[a - 1]
      <4>1. a > 1 => a - 1 \in 1 .. t - 1 BY <1>6, <2>2
      <4> QED BY <2>1, <4>1
    <3>2. a <= Len(M[c].keys) => M[c].keys[a] = N[c].keys[a] /\ a <= Len(N[c].keys)
      BY <1>0, <1>6, <2>1, <2>2, SMTT(30)
    <3> QED BY <2>6, <3>1, <3>2 DEF Fits
  <2> QED BY <1>12, <2>7 DEF k
<1>13. CASE n = x
  <2>1. /\ Len(M[x].keys) = t - 1 /\ \A y \in 1 .. t - 1 : M[x].keys[y] = N[c].keys[t + y]
        /\ Len(M[x].kids) = IF N[c].is_leaf THEN 0 ELSE t
        /\ ~ N[c].is_leaf => \A y \in 1 .. t : M[x].kids[y] = N[c].kids[t + y]
    BY <1>1 DEF Divided
  <2>2. ~ N[c].is_leaf /\ a \in 1 .. t BY <1>6, <1>13, <2>1
  <2> DEFINE o == t + a
  <2>3. o \in 1 .. Len(N[c].kids) /\ M[n].kids[a] = N[c].kids[o]
    <3>1. o \in 1 .. 2 * t /\ Len(N[c].kids) = 2 * t BY <1>0, <1>6, <2>2
    <3> QED BY <1>13, <2>1, <2>2, <3>1
  <2> HIDE DEF o
  <2>4. N[c].kids[o] \in 1 .. Len(N) /\ N[c].kids[o] # c
    BY <1>0, <1>4, <1>5, <2>3 DEF Kinship, Untouched
  <2>5. From(N, M, D[N[c].kids[o]], m) BY <1>9, <2>3, <2>4
  <2>6. Fits(N, c, o, k) BY <1>0, <1>10, <2>3, <2>5
  <2> HIDE DEF k
  <2>7. Fits(M, x, a, k)
    <3>1. a > 1 => M[x].keys[a - 1] = N[c].keys[o - 1] /\ o > 1
      <4>1. a > 1 => a - 1 \in 1 .. t - 1 /\ t + (a - 1) = o - 1 /\ o > 1 BY <1>6, <2>2 DEF o
      <4> QED BY <2>1, <4>1
    <3>2. a <= Len(M[x].keys) => M[x].keys[a] = N[c].keys[o] /\ o <= Len(N[c].keys)
      <4>1. a <= t - 1 => a \in 1 .. t - 1 /\ o <= 2 * t - 1 BY <1>6, <2>2 DEF o
      <4>2. a \in 1 .. t - 1 => M[x].keys[a] = N[c].keys[o] BY <2>1 DEF o
      <4> QED BY <1>0, <2>1, <4>1, <4>2
    <3> QED BY <2>6, <3>1, <3>2 DEF Fits
  <2> QED BY <1>13, <2>7 DEF k
<1>14. CASE n = p
  <2> DEFINE l == Len(N[p].keys)
             s == N[p].keys
             u == M[p].keys
             med == N[c].keys[t]
  <2>1. /\ Len(u) = l + 1
        /\ \A y \in 1 .. i - 1 : u[y] = s[y]
        /\ u[i] = med
        /\ \A y \in i + 1 .. l + 1 : u[y] = s[y - 1]
        /\ Len(M[p].kids) = Len(N[p].kids) + 1
        /\ \A y \in 1 .. i : M[p].kids[y] = N[p].kids[y]
        /\ M[p].kids[i + 1] = x
        /\ \A y \in i + 2 .. Len(N[p].kids) + 1 : M[p].kids[y] = N[p].kids[y - 1]
    BY <1>1 DEF Divided
  <2>2. l \in Nat /\ Len(N[p].kids) = l + 1 /\ i \in 1 .. l + 1 /\ a \in 1 .. l + 2
    BY <1>0, <1>14, <2>1
  <2>3. CASE a < i
    <3>1. a \in 1 .. i /\ a \in 1 .. Len(N[p].kids) /\ a # i BY <2>2, <2>3
    <3>2. N[p].kids[a] \in 1 .. Len(N) /\ N[p].kids[a] # c
      BY <1>0, <1>4, <1>5, <3>1 DEF Kinship, Untouched
    <3>3. M[n].kids[a] = N[p].kids[a] BY <1>14, <2>1, <3>1
    <3>4. From(N, M, D[N[p].kids[a]], m) BY <1>9, <3>2, <3>3
    <3>5. Fits(N, p, a, k) BY <1>0, <1>10, <3>1, <3>4
    <3>6. /\ a > 1 => u[a - 1] = s[a - 1]
          /\ a <= l + 1 => u[a] = s[a] /\ a <= l
      <4>1. a > 1 => a - 1 \in 1 .. i - 1 BY <2>2, <2>3
      <4>2. a \in 1 .. i - 1 /\ a <= l BY <2>2, <2>3
      <4> QED BY <2>1, <4>1, <4>2
    <3> HIDE DEF k
    <3>7. Fits(M, p, a, k) BY <2>1, <3>5, <3>6 DEF Fits
    <3> QED BY <1>14, <3>7 DEF k
  <2>4. CASE a = i
    <3>1. M[n].kids[a] = c
      <4>1. M[p].kids[i] = N[p].kids[i] BY <2>1, <2>2
      <4> QED BY <1>1, <1>14, <2>4, <4>1
    <3>2. From(N, M, D[N[p].kids[i]], m) /\ k <= med BY <1>1, <1>7, <3>1
    <3>3. Fits(N, p, i, k) BY <1>0, <1>1, <1>10, <3>2
    <3>4. a > 1 => u[a - 1] = s[a - 1]
      <4>1. a > 1 => a - 1 \in 1 .. i - 1 BY <2>2, <2>4
      <4> QED BY <2>1, <4>1
    <3> HIDE DEF k
    <3>5. Fits(M, p, a, k) BY <2>1, <2>4, <3>2, <3>3, <3>4 DEF Fits
    <3> QED BY <1>14, <3>5 DEF k
  <2>5. CASE a = i + 1
    <3>1. M[n].kids[a] = x BY <1>14, <2>1, <2>5
    <3>2. From(N, M, D[N[p].kids[i]], m) /\ k >= med BY <1>1, <1>7, <3>1
    <3>3. Fits(N, p, i, k) BY <1>0, <1>1, <1>10, <3>2
    <3>4. k \in Int /\ med \in Int
      <4>1. M \in Seq(NodeType) BY <1>1 DEF Divided
      <4>2. m \in 1 .. Len(M)
        <5>1. E \in [1 .. x -> SUBSET (1 .. x)] BY DEF Regrouped
        <5>2. x \in 1 .. x /\ Len(M) = x BY <1>0
        <5>3. m \in E[x] BY <3>1
        <5> QED BY ONLY <5>1, <5>2, <5>3
      <4>3. k \in Int BY <4>1, <4>2, KeysAreIntegers
      <4>4. t \in 1 .. Len(N[c].keys) BY <1>0, <1>6
      <4> QED BY <1>0, <1>4, <4>3, <4>4, KeysAreIntegers
    <3>5. a - 1 = i /\ u[a - 1] = med BY <2>1, <2>2, <2>5
    <3>6. a <= l + 1 => u[a] = s[i] /\ i <= l
      <4>1. a <= l + 1 => a \in i + 1 .. l + 1 /\ a - 1 = i BY <2>2, <2>5
      <4> QED BY <2>1, <4>1, SMTT(30)
    <3> HIDE DEF k, med
    <3>7. med <= k BY <3>2, <3>4
    <3>8. Fits(M, p, a, k) BY <2>1, <3>3, <3>5, <3>6, <3>7 DEF Fits
    <3> QED BY <1>14, <3>8 DEF k
  <2>6. CASE a > i + 1
    <3> DEFINE o == a - 1
    <3>1. o \in 1 .. Len(N[p].kids) /\ o # i /\ o > i /\ a \in i + 2 .. Len(N[p].kids) + 1
      <4> HIDE DEF l
      <4> QED BY <2>2, <2>6, SMTT(30)
    <3>2. M[n].kids[a] = N[p].kids[o] BY <1>14, <2>1, <3>1
    <3>3. /\ u[o] = s[o - 1] /\ o > 1
          /\ a <= l + 1 => u[a] = s[o] /\ o <= l
      <4>1. o \in i + 1 .. l + 1 /\ o > 1 BY <2>2, <2>6, SMTT(30)
      <4>2. a <= l + 1 => a \in i + 1 .. l + 1 /\ o <= l BY <2>2, <2>6
      <4> QED BY <2>1, <4>1, <4>2
    <3>4. a - 1 = o OBVIOUS
    <3> HIDE DEF o
    <3>5. N[p].kids[o] \in 1 .. Len(N) /\ N[p].kids[o] # c
      BY <1>0, <1>4, <1>5, <3>1 DEF Kinship, Untouched
    <3>6. From(N, M, D[N[p].kids[o]], m) BY <1>9, <3>2, <3>5
    <3>7. Fits(N, p, o, k) BY <1>0, <1>10, <3>1, <3>6
    <3> HIDE DEF k
    <3>8. Fits(M, p, a, k) BY <2>1, <3>3, <3>4, <3>7 DEF Fits
    <3> QED BY <1>14, <3>8 DEF k
  <2> HIDE DEF l, s, u, med, k
  <2> QED BY <2>2, <2>3, <2>4, <2>5, <2>6
<1>15. CASE n # c /\ n # x /\ n # p
  <2>1. n \in 1 .. Len(N) BY <1>0, <1>15
  <2>2. M[n] = N[n] BY <1>1, <1>15, <2>1 DEF Divided
  <2>3. N[n].kids[a] \in 1 .. Len(N) /\ N[n].kids[a] # c
    BY <1>0, <1>1, <1>4, <1>15, <2>1, <2>2
  <2>4. From(N, M, D[N[n].kids[a]], m) BY <1>9, <2>2, <2>3
  <2>5. Fits(N, n, a, k) BY <1>10, <2>1, <2>2, <2>4
  <2> HIDE DEF k
  <2>6. Fits(M, n, a, k) BY <2>2, <2>5 DEF Fits
  <2> QED BY <2>6 DEF k
<1> QED BY <1>12, <1>13, <1>14, <1>15

(* bt_split_child keeps the tree. *)
LEMMA SplitTree ==
  ASSUME NEW N, NEW r, NEW D, NEW H, NEW M, NEW p \in Nat, NEW i \in Nat, NEW c \in Nat,
         NEW x \in Nat, Splits(N, r, D, H, M, p, i, c, x),
         NEW E, Regrouped(N, D, p, c, x, E)
  PROVE  Tree(M, r, E, NewHeights(H, c, x))
<1>1. Shaped(M) /\ Placed(M, r) BY SplitPlaced
<1>2. Filled(M, r) BY SplitFilled
<1>3. Leveled(M, NewHeights(H, c, x)) BY SplitHeights
<1>4. Below(M, E) BY SplitBelow
<1>5. Ordered(M, E) BY SplitOrdered
<1> QED BY <1>1, <1>2, <1>3, <1>4, <1>5 DEF Tree

(* An insertion of k that has come to node c finds room there, and k fits  *)
(* at every place it has passed.                                           *)
Entered(N, D, c, k) ==
  /\ c \in 1 .. Len(N) /\ Len(N[c].keys) < ORDER - 1
  /\ \A n \in 1 .. Len(N) : \A a \in 1 .. Len(N[n].kids) :
       c \in D[N[n].kids[a]] => Fits(N, n, a, k)

(* The root is below no place. *)
LEMMA RootEntered ==
  ASSUME NEW N, NEW r, NEW D, NEW H, Tree(N, r, D, H), NEW k, Len(N[r].keys) < ORDER - 1
  PROVE  Entered(N, D, r, k)
<1>1. /\ Shaped(N) /\ Placed(N, r) /\ Leveled(N, H) /\ Below(N, D)
      /\ r \in 1 .. Len(N)
      /\ \A n \in 1 .. Len(N) : \A a \in 1 .. Len(N[n].kids) :
           N[n].kids[a] \in 1 .. Len(N) /\ N[n].kids[a] # r
      /\ D \in [1 .. Len(N) -> SUBSET (1 .. Len(N))]
  BY DEF Tree, Shaped, Placed, Below
<1>2. ASSUME NEW n \in 1 .. Len(N), NEW a \in 1 .. Len(N[n].kids) PROVE r \notin D[N[n].kids[a]]
  <2> DEFINE y == N[n].kids[a]
             Child(q) == \E b \in 1 .. Len(N[q].kids) : r = N[q].kids[b]
  <2>1. y \in 1 .. Len(N) /\ y # r BY <1>1
  <2> HIDE DEF y
  <2>2. r \in D[y] => r = y \/ \E q \in D[y] : Child(q)
    <3>1. \A m \in 1 .. Len(N) : Lower(N, D, H, m) BY <1>1, Descent
    <3> QED BY <2>1, <3>1, Zenon DEF Lower
  <2>3. \A q \in D[y] : ~ Child(q)
    <3>1. \A q \in D[y] : q \in 1 .. Len(N) BY <1>1, <2>1
    <3> QED BY <1>1, <3>1
  <2>4. r \notin D[y] BY <2>1, <2>2, <2>3
  <2> QED BY <2>4 DEF y
<1> QED BY <1>1, <1>2 DEF Entered

(* A descent to the child at the position of k, without a split ... *)
LEMMA ChildEntered ==
  ASSUME NEW N, NEW r, NEW D, NEW H, Tree(N, r, D, H), NEW k \in Key, NEW p \in Nat,
         Entered(N, D, p, k), NEW i \in 1 .. Len(N[p].kids), Fits(N, p, i, k),
         Len(N[N[p].kids[i]].keys) < ORDER - 1
  PROVE  Entered(N, D, N[p].kids[i], k)
<1> DEFINE c == N[p].kids[i]
<1>1. /\ Paths(N, D) /\ p \in 1 .. Len(N)
      /\ \A n \in 1 .. Len(N) : \A a \in 1 .. Len(N[n].kids) : N[n].kids[a] \in 1 .. Len(N)
      /\ \A n \in 1 .. Len(N), m \in 1 .. Len(N) :
           \A a \in 1 .. Len(N[n].kids), b \in 1 .. Len(N[m].kids) :
             N[n].kids[a] = N[m].kids[b] => n = m /\ a = b
  BY PathFacts DEF Tree, Shaped, Placed, Entered
<1>2. ASSUME NEW n \in 1 .. Len(N), NEW a \in 1 .. Len(N[n].kids), c \in D[N[n].kids[a]]
      PROVE  Fits(N, n, a, k)
  <2>1. CASE c = N[n].kids[a]
    <3>1. n = p /\ a = i BY <1>1, <2>1
    <3> QED BY <3>1
  <2>2. CASE c # N[n].kids[a]
    <3>1. N[n].kids[a] \in 1 .. Len(N) BY <1>1
    <3> DEFINE m == N[n].kids[a]
    <3>2. m \in 1 .. Len(N) /\ c \in D[m] /\ c # m BY <1>2, <2>2, <3>1
    <3> HIDE DEF m
    <3>3. p \in D[m] BY <1>1, <3>2 DEF Paths
    <3> QED BY <3>3 DEF Entered, m
  <2> QED BY <2>1, <2>2
<1>3. c \in 1 .. Len(N) BY <1>1
<1> QED BY <1>2, <1>3 DEF Entered

(* ... and with one. *)
LEMMA HalfEntered ==
  ASSUME NEW N, NEW r, NEW D, NEW H, NEW M, NEW p \in Nat, NEW i \in Nat, NEW c \in Nat,
         NEW x \in Nat, Splits(N, r, D, H, M, p, i, c, x),
         NEW E, Regrouped(N, D, p, c, x, E),
         NEW k \in Key, Entered(N, D, p, k), Fits(N, p, i, k)
  PROVE  Entered(M, E, M[p].kids[Side(M[p], i, k)], k)
<1>0. /\ Len(N) \in Nat /\ x = Len(N) + 1 /\ Len(M) = x
      /\ p \in 1 .. Len(N) /\ c \in 1 .. Len(N) /\ c # p
      /\ \A n \in 1 .. Len(N) : Len(N[n].keys) \in Nat /\ Len(N[n].kids) \in Nat
      /\ Len(N[p].kids) = Len(N[p].keys) + 1 /\ i \in 1 .. Len(N[p].keys) + 1
      /\ Len(N[c].keys) = 2 * t - 1
      /\ Len(N[c].kids) = IF N[c].is_leaf THEN 0 ELSE 2 * t
  BY SplitFacts
<1>1. Divided(N, M, p, i, c, x) /\ c = N[p].kids[i] /\ i \in 1 .. Len(N[p].kids) BY DEF Splits
<1>2. Tree(N, r, D, H) BY DEF Splits
<1>3. Paths(N, D) BY <1>2, PathFacts
<1>4. /\ N \in Seq(NodeType)
      /\ \A n \in 1 .. Len(N) : \A a \in 1 .. Len(N[n].kids) : N[n].kids[a] \in 1 .. Len(N)
      /\ \A n \in 1 .. Len(N), m \in 1 .. Len(N) :
           \A a \in 1 .. Len(N[n].kids), b \in 1 .. Len(N[m].kids) :
             N[n].kids[a] = N[m].kids[b] => n = m /\ a = b
  BY <1>2 DEF Tree, Shaped, Placed
<1>5. Kinship(N, D, p, i, c, x, E) BY KinFacts
<1>6. t \in Nat /\ t >= 2 /\ ORDER = 2 * t /\ k \in Int BY Degree
<1>7. Before(N, M, p, i, c, x) BY KidOrigin
<1> DEFINE j == Side(M[p], i, k)
           y == M[p].kids[j]
           med == N[c].keys[t]
<1>8. /\ M[p].keys[i] = med /\ Len(M[p].keys) = Len(N[p].keys) + 1
      /\ \A b \in 1 .. i - 1 : M[p].keys[b] = N[p].keys[b]
      /\ \A b \in i + 1 .. Len(N[p].keys) + 1 : M[p].keys[b] = N[p].keys[b - 1]
      /\ M[p].kids[i] = c /\ M[p].kids[i + 1] = x
      /\ Len(M[c].keys) = t - 1 /\ Len(M[x].keys) = t - 1
  <2>1. /\ M[p].keys[i] = med /\ Len(M[p].keys) = Len(N[p].keys) + 1
        /\ \A b \in 1 .. i - 1 : M[p].keys[b] = N[p].keys[b]
        /\ \A b \in i + 1 .. Len(N[p].keys) + 1 : M[p].keys[b] = N[p].keys[b - 1]
        /\ M[p].kids[i + 1] = x
        /\ Len(M[c].keys) = t - 1 /\ Len(M[x].keys) = t - 1
        /\ \A a \in 1 .. i : M[p].kids[a] = N[p].kids[a]
    BY <1>1 DEF Divided
  <2>2. M[p].kids[i] = c BY <1>0, <1>1, <2>1
  <2> QED BY <2>1, <2>2
<1>9. med \in Int
  <2>1. t \in 1 .. Len(N[c].keys) BY <1>0, <1>6
  <2> QED BY <1>0, <1>4, <2>1, KeysAreIntegers
<1>10. \/ j = i /\ y = c /\ k <= med
       \/ j = i + 1 /\ y = x /\ med <= k
  BY <1>6, <1>8, <1>9 DEF Side
<1> HIDE DEF j, y, med
<1>11. Fits(M, p, j, k)
  <2> DEFINE l == Len(N[p].keys)
             u == M[p].keys
             s == N[p].keys
  <2>1. /\ u[i] = med /\ Len(u) = l + 1 /\ l \in Nat /\ i \in 1 .. l + 1
        /\ \A b \in 1 .. i - 1 : u[b] = s[b]
        /\ \A b \in i + 1 .. l + 1 : u[b] = s[b - 1]
        /\ i > 1 => s[i - 1] <= k
        /\ i <= l => k <= s[i]
    BY <1>0, <1>8 DEF Fits
  <2> HIDE DEF l, u, s
  <2>2. CASE j = i /\ k <= med
    <3>1. i > 1 => u[i - 1] <= k
      <4>1. i > 1 => i - 1 \in 1 .. i - 1 BY <2>1
      <4> QED BY <2>1, <4>1
    <3> QED BY <2>1, <2>2, <3>1 DEF Fits, u
  <2>3. CASE j = i + 1 /\ med <= k
    <3>1. j - 1 = i BY <2>3
    <3>2. j <= l + 1 => k <= u[j]
      <4>1. j <= l + 1 => j \in i + 1 .. l + 1 /\ i <= l BY <2>1, <2>3
      <4> QED BY <2>1, <3>1, <4>1
    <3>3. u[j - 1] <= k BY <2>1, <2>3, <3>1
    <3> QED BY <2>1, <3>2, <3>3 DEF Fits, u
  <2> QED BY <1>10, <2>2, <2>3
<1>12. y \in 1 .. x /\ Len(M[y].keys) < ORDER - 1
  <2>1. y = c \/ y = x BY <1>10
  <2>2. Len(M[y].keys) = t - 1 BY <1>8, <2>1
  <2>3. y \in 1 .. x BY <1>0, <2>1
  <2> QED BY <1>6, <2>2, <2>3
<1>13. ASSUME NEW n \in 1 .. x, NEW a \in 1 .. Len(M[n].kids), y \in E[M[n].kids[a]]
       PROVE  Fits(M, n, a, k)
  <2> DEFINE m == OldNode(n, c, x)
             b == OldPlace(n, a, p, i, x)
             z == M[n].kids[a]
  <2>1. CASE n = p /\ (a = i \/ a = i + 1)
    <3>1. z = IF a = i THEN c ELSE x BY <1>0, <1>8, <2>1
    <3>2. c \notin E[x] /\ x \notin E[c] BY <1>5 DEF Kinship
    <3>3. a = j BY <1>0, <1>10, <1>13, <2>1, <3>1, <3>2
    <3> QED BY <1>11, <2>1, <3>3
  <2>2. CASE n = p /\ a # i /\ a # i + 1
    <3>1. m = p /\ b \in 1 .. Len(N[p].kids) /\ z = N[p].kids[b]
      BY <1>0, <1>7, <2>2 DEF Before, OldNode
    <3>2. b # i BY <1>0, <2>2 DEF OldPlace
    <3> HIDE DEF b
    <3>3. Untouched(D, p, c, x, E, z) BY <1>5, <3>1, <3>2 DEF Kinship
    <3> QED BY <1>10, <1>13, <3>3 DEF Untouched
  <2>3. CASE n = c \/ n = x
    <3>1. m = c /\ b \in 1 .. Len(N[c].kids) /\ z = N[c].kids[b]
      BY <1>0, <1>7, <2>3, SMTT(30) DEF Before, OldNode
    <3> HIDE DEF b
    <3>2. Untouched(D, p, c, x, E, z) BY <1>5, <3>1 DEF Kinship
    <3> QED BY <1>10, <1>13, <3>2 DEF Untouched
  <2>4. CASE n # c /\ n # x /\ n # p
    <3>1. n \in 1 .. Len(N) BY <1>0, <2>4
    <3>2. M[n] = N[n] BY <1>1, <2>4, <3>1 DEF Divided
    <3>3. z \in 1 .. Len(N) /\ z # c
      <4>1. a \in 1 .. Len(N[n].kids) /\ z = N[n].kids[a] BY <3>2
      <4> HIDE DEF z
      <4>2. z \in 1 .. Len(N) BY <1>4, <3>1, <4>1
      <4>3. z # c BY <1>0, <1>1, <1>4, <2>4, <3>1, <4>1
      <4> QED BY <4>2, <4>3
    <3> HIDE DEF z
    <3>4. y \in D[z] \/ (y = x /\ p \in D[z]) BY <1>12, <1>13, <3>3 DEF Regrouped, z
    <3>5. c \in D[z] <=> p \in D[z] BY <1>5, <3>3 DEF Kinship
    <3>6. x \notin D[z] BY <1>0, <1>3, <3>3 DEF Paths
    <3>7. p \in D[z] BY <1>10, <3>4, <3>5, <3>6
    <3>8. Fits(N, n, a, k) BY <3>1, <3>2, <3>7 DEF Entered, z
    <3> QED BY <3>2, <3>8 DEF Fits
  <2> QED BY <2>1, <2>2, <2>3, <2>4
<1>14. Entered(M, E, y, k)
  <2>1. Len(M) = x BY <1>0
  <2> QED BY <1>12, <1>13, <2>1 DEF Entered
<1> QED BY <1>14 DEF y, j

(* A new root above a full one keeps the tree. *)
LEMMA GrownTree ==
  ASSUME NEW N, NEW r \in Nat, NEW D, NEW H, Tree(N, r, D, H), IsFull(N[r]),
         NEW M, M = Append(N, [keys |-> <<>>, kids |-> <<r>>, is_leaf |-> FALSE])
  PROVE  /\ \E E, G : Tree(M, Len(N) + 1, E, G)
         /\ Len(M) = Len(N) + 1 /\ M[Len(N) + 1].keys = <<>> /\ M[Len(N) + 1].kids = <<r>>
         /\ M[r] = N[r] /\ r \in 1 .. Len(N)
<1> DEFINE new == [keys |-> <<>>, kids |-> <<r>>, is_leaf |-> FALSE]
           q == Len(N) + 1
           kids == <<r>>
           keys == <<>>
<1>1. /\ Shaped(N) /\ Placed(N, r) /\ Leveled(N, H) /\ Below(N, D) /\ Filled(N, r) /\ Ordered(N, D)
      /\ N \in Seq(NodeType) /\ Len(N) \in Nat /\ r \in 1 .. Len(N)
  BY DEF Tree, Shaped, Placed
<1>2. keys \in Seq(Key) /\ Len(keys) = 0 /\ kids \in Seq(Nat) /\ Len(kids) = 1 /\ kids[1] = r
  BY <1>1
<1>3. new = [keys |-> keys, kids |-> kids, is_leaf |-> FALSE] OBVIOUS
<1> HIDE DEF keys, kids
<1>4. new \in NodeType /\ new.keys = keys /\ new.kids = kids /\ new.is_leaf = FALSE
  BY <1>2, <1>3 DEF NodeType
<1>5. /\ M \in Seq(NodeType) /\ Len(M) = q /\ M[q] = new
      /\ \A n \in 1 .. Len(N) : M[n] = N[n]
  <2>1. M = Append(N, new) BY <1>3 DEF keys, kids
  <2> HIDE DEF new
  <2> QED BY <1>1, <1>4, <2>1, AppendFacts
<1>6. /\ Len(M[q].keys) = 0 /\ Len(M[q].kids) = 1 /\ M[q].kids[1] = r /\ M[q].is_leaf = FALSE
      /\ q \in Nat /\ q \in 1 .. q /\ q \notin 1 .. Len(N) /\ \A n \in 1 .. q : n = q \/ n \in 1 .. Len(N)
  <2>1. /\ q \in Nat /\ q \in 1 .. q /\ q \notin 1 .. Len(N)
        /\ \A n \in 1 .. q : n = q \/ n \in 1 .. Len(N)
    <3> DEFINE l == Len(N)
    <3>1. l \in Nat BY <1>1
    <3> HIDE DEF l
    <3>2. \A n \in 1 .. l + 1 : n = l + 1 \/ n \in 1 .. l BY <3>1
    <3>3. l + 1 \in Nat /\ l + 1 \in 1 .. l + 1 /\ l + 1 \notin 1 .. l BY <3>1
    <3> QED BY <3>2, <3>3 DEF l
  <2> HIDE DEF new, q
  <2> QED BY <1>2, <1>4, <1>5, <2>1
<1>0. \A n \in 1 .. Len(N) : n \in 1 .. q /\ n # q BY <1>1
<1> HIDE DEF q
<1> DEFINE E == [m \in 1 .. q |-> IF m = q THEN D[r] \cup {q} ELSE D[m]]
           G == [m \in 1 .. q |-> IF m = q THEN H[r] + 1 ELSE H[m]]
<1>7. D \in [1 .. Len(N) -> SUBSET (1 .. Len(N))] /\ H \in [1 .. Len(N) -> Nat]
  BY <1>1 DEF Below, Leveled
<1>8. /\ E \in [1 .. q -> SUBSET (1 .. q)] /\ E[q] = D[r] \cup {q}
      /\ \A m \in 1 .. Len(N) : E[m] = D[m] /\ E[m] \in SUBSET (1 .. Len(N))
  <2>1. q \in 1 .. q BY <1>6
  <2>2. \A m \in 1 .. Len(N) : D[m] \in SUBSET (1 .. Len(N)) /\ D[m] \in SUBSET (1 .. q)
    BY <1>0, <1>7
  <2>3. D[r] \cup {q} \in SUBSET (1 .. q) BY <1>1, <2>1, <2>2
  <2>4. \A m \in 1 .. q : (IF m = q THEN D[r] \cup {q} ELSE D[m]) \in SUBSET (1 .. q)
    BY <1>6, <2>2, <2>3
  <2> QED BY <1>0, <2>1, <2>2, <2>4
<1>9. /\ G \in [1 .. q -> Nat] /\ G[q] = H[r] + 1
      /\ \A m \in 1 .. Len(N) : G[m] = H[m]
  <2>1. q \in 1 .. q BY <1>6
  <2>2. \A m \in 1 .. q : (IF m = q THEN H[r] + 1 ELSE H[m]) \in Nat
    <3>1. \A m \in 1 .. Len(N) : H[m] \in Nat BY <1>7
    <3>2. H[r] + 1 \in Nat BY <1>1, <3>1
    <3> QED BY <1>6, <3>1, <3>2
  <2> QED BY <1>0, <2>1, <2>2
<1> HIDE DEF E, G, new
<1>10. /\ \A n \in 1 .. Len(N) : \A a \in 1 .. Len(N[n].kids) :
            N[n].kids[a] \in 1 .. Len(N) /\ N[n].kids[a] # r
       /\ \A n \in 1 .. Len(N), m \in 1 .. Len(N) :
            \A a \in 1 .. Len(N[n].kids), b \in 1 .. Len(N[m].kids) :
              N[n].kids[a] = N[m].kids[b] => n = m /\ a = b
       /\ \A m \in 1 .. Len(N) : m # r =>
            \E n \in 1 .. Len(N) : \E a \in 1 .. Len(N[n].kids) : m = N[n].kids[a]
  BY <1>1 DEF Shaped, Placed
<1>11. Shaped(M)
  <2>1. ASSUME NEW n \in 1 .. q, NEW a \in 1 .. Len(M[n].kids) PROVE M[n].kids[a] \in 1 .. q
    <3>1. CASE n = q
      <4>1. a = 1 BY <1>6, <3>1
      <4> QED BY <1>1, <1>6, <3>1, <4>1 DEF q
    <3>2. CASE n \in 1 .. Len(N)
      <4>1. M[n].kids[a] \in 1 .. Len(N) BY <1>5, <1>10, <3>2
      <4>2. Len(N) \in Nat /\ q = Len(N) + 1 BY <1>1 DEF q
      <4> QED BY ONLY <4>1, <4>2
    <3> QED BY <1>6, <3>1, <3>2
  <2> QED BY <1>5, <2>1 DEF Shaped
<1>12. Filled(M, q)
  <2>1. ASSUME NEW n \in 1 .. q
        PROVE  /\ Len(M[n].keys) <= ORDER - 1 /\ (n # q => Len(M[n].keys) >= t - 1)
               /\ Len(M[n].kids) = IF M[n].is_leaf THEN 0 ELSE Len(M[n].keys) + 1
    <3>1. CASE n = q BY <1>6, <3>1, Degree
    <3>2. CASE n \in 1 .. Len(N)
      <4>1. M[n] = N[n] BY <1>5, <3>2
      <4>2. Len(N[n].keys) >= t - 1
        <5>1. Len(N[r].keys) >= t - 1 BY Degree DEF IsFull
        <5> QED BY <1>1, <3>2, <5>1 DEF Filled
      <4> QED BY <1>1, <3>2, <4>1, <4>2 DEF Filled
    <3> QED BY <1>6, <3>1, <3>2
  <2> QED BY <1>5, <2>1 DEF Filled
<1>13. Placed(M, q)
  <2>1. ASSUME NEW n \in 1 .. q, NEW a \in 1 .. Len(M[n].kids)
        PROVE  M[n].kids[a] # q /\ (M[n].kids[a] = r <=> n = q)
    <3>1. CASE n = q
      <4>1. a = 1 BY <1>6, <3>1
      <4> QED BY <1>1, <1>6, <3>1, <4>1
    <3>2. CASE n \in 1 .. Len(N)
      <4>1. M[n].kids[a] \in 1 .. Len(N) /\ M[n].kids[a] # r BY <1>5, <1>10, <3>2
      <4> QED BY <1>6, <3>2, <4>1
    <3> QED BY <1>6, <3>1, <3>2
  <2>2. ASSUME NEW n \in 1 .. q, NEW m \in 1 .. q,
               NEW a \in 1 .. Len(M[n].kids), NEW b \in 1 .. Len(M[m].kids),
               M[n].kids[a] = M[m].kids[b]
        PROVE  n = m /\ a = b
    <3>1. CASE n = q
      <4>1. m = q BY <2>1, <2>2, <3>1
      <4> QED BY <1>6, <3>1, <4>1
    <3>2. CASE n \in 1 .. Len(N)
      <4>0. M[n].kids[a] # r BY <1>0, <2>1, <3>2
      <4>1. m \in 1 .. Len(N) BY <1>6, <2>1, <2>2, <4>0
      <4>2. M[n] = N[n] /\ M[m] = N[m] BY <1>5, <3>2, <4>1
      <4> QED BY <1>10, <2>2, <3>2, <4>1, <4>2
    <3> QED BY <1>6, <3>1, <3>2
  <2>3. ASSUME NEW m \in 1 .. q, m # q
        PROVE  \E n \in 1 .. q : \E a \in 1 .. Len(M[n].kids) : m = M[n].kids[a]
    <3>1. m \in 1 .. Len(N) /\ q \in 1 .. q BY <1>1, <1>6, <2>3 DEF q
    <3>2. CASE m = r
      <4>1. 1 \in 1 .. Len(M[q].kids) BY <1>6
      <4> QED BY <1>6, <3>1, <3>2, <4>1
    <3>3. CASE m # r
      <4> DEFINE Child(n) == \E a \in 1 .. Len(N[n].kids) : m = N[n].kids[a]
      <4>1. PICK n \in 1 .. Len(N) : Child(n) BY <1>10, <3>1, <3>3
      <4>2. n \in 1 .. q /\ M[n] = N[n] BY <1>1, <1>5 DEF q
      <4> QED BY <4>1, <4>2
    <3> QED BY <3>2, <3>3
  <2>4. q \in 1 .. q BY <1>1 DEF q
  <2>5. Len(M) = q BY <1>5
  <2>6. \A n \in 1 .. q : \A a \in 1 .. Len(M[n].kids) : M[n].kids[a] # q BY <2>1
  <2> QED BY ONLY <2>2, <2>3, <2>4, <2>5, <2>6 DEF Placed
<1>14. Leveled(M, G)
  <2>1. ASSUME NEW n \in 1 .. q
        PROVE  /\ M[n].is_leaf => G[n] = 0
               /\ \A a \in 1 .. Len(M[n].kids) : G[n] = G[M[n].kids[a]] + 1
    <3>1. CASE n = q
      <4>1. \A a \in 1 .. Len(M[n].kids) : M[n].kids[a] = r BY <1>6, <3>1
      <4> QED BY <1>1, <1>6, <1>9, <3>1, <4>1
    <3>2. CASE n \in 1 .. Len(N)
      <4>1. M[n] = N[n] /\ G[n] = H[n] BY <1>5, <1>9, <3>2
      <4>2. \A a \in 1 .. Len(N[n].kids) : G[N[n].kids[a]] = H[N[n].kids[a]]
        BY <1>9, <1>10, <3>2
      <4>3. /\ N[n].is_leaf => H[n] = 0
            /\ \A a \in 1 .. Len(N[n].kids) : H[n] = H[N[n].kids[a]] + 1
        BY ONLY <1>1, <3>2, Zenon DEF Leveled
      <4> QED BY ONLY <4>1, <4>2, <4>3
    <3> QED BY <1>6, <3>1, <3>2
  <2>2. G \in [1 .. Len(M) -> Nat] /\ Len(M) = q BY <1>5, <1>9
  <2> QED BY <2>1, <2>2 DEF Leveled
<1>15. Below(M, E)
  <2>1. ASSUME NEW n \in 1 .. q, NEW m \in 1 .. q
        PROVE  m \in E[n] <=> m = n \/ \E a \in 1 .. Len(M[n].kids) : m \in E[M[n].kids[a]]
    <3>1. CASE n = q
      <4>1. \A a \in 1 .. Len(M[n].kids) : M[n].kids[a] = r BY <1>6, <3>1
      <4>2. 1 \in 1 .. Len(M[n].kids) BY <1>6, <3>1
      <4>3. E[r] = D[r] BY <1>1, <1>8
      <4> QED BY <1>8, <3>1, <4>1, <4>2, <4>3
    <3>2. CASE n \in 1 .. Len(N)
      <4>1. M[n] = N[n] /\ E[n] = D[n] /\ D[n] \in SUBSET (1 .. Len(N)) BY <1>5, <1>8, <3>2
      <4>2. \A a \in 1 .. Len(N[n].kids) : /\ E[N[n].kids[a]] = D[N[n].kids[a]]
                                           /\ D[N[n].kids[a]] \in SUBSET (1 .. Len(N))
        BY <1>8, <1>10, <3>2
      <4>3. CASE m = q
        <5>1. m \notin D[n] /\ m # n BY <1>6, <3>2, <4>1, <4>3
        <5>2. \A a \in 1 .. Len(N[n].kids) : m \notin D[N[n].kids[a]] BY <1>6, <4>2, <4>3
        <5> QED BY <4>1, <4>2, <5>1, <5>2
      <4>4. CASE m \in 1 .. Len(N)
        <5>1. m \in D[n] <=> m = n \/ \E a \in 1 .. Len(N[n].kids) : m \in D[N[n].kids[a]]
          BY <1>1, <3>2, <4>4 DEF Below
        <5> QED BY <4>1, <4>2, <5>1
      <4> QED BY <1>6, <4>3, <4>4
    <3> QED BY <1>6, <3>1, <3>2
  <2>2. E \in [1 .. Len(M) -> SUBSET (1 .. Len(M))] /\ Len(M) = q BY <1>5, <1>8
  <2> QED BY <2>1, <2>2 DEF Below
<1>16. Ordered(M, E)
  <2>1. ASSUME NEW n \in 1 .. q
        PROVE  /\ \A a \in 1 .. Len(M[n].keys), b \in 1 .. Len(M[n].keys) :
                    a < b => M[n].keys[a] <= M[n].keys[b]
               /\ \A a \in 1 .. Len(M[n].kids) : \A m \in E[M[n].kids[a]] :
                    \A b \in 1 .. Len(M[m].keys) : Fits(M, n, a, M[m].keys[b])
    <3>1. CASE n = q
      <4>1. \A a \in 1 .. Len(M[n].kids) : a = 1 BY <1>6, <3>1
      <4>2. \A k : Fits(M, q, 1, k) BY <1>6 DEF Fits
      <4>3. \A a \in 1 .. Len(M[n].kids) : \A k : Fits(M, n, a, k) BY <3>1, <4>1, <4>2
      <4>4. \A a \in 1 .. Len(M[n].keys) : FALSE BY <1>6, <3>1
      <4> QED BY <4>3, <4>4
    <3>2. CASE n \in 1 .. Len(N)
      <4>1. M[n] = N[n] BY <1>5, <3>2
      <4>2. ASSUME NEW a \in 1 .. Len(N[n].kids), NEW m \in E[N[n].kids[a]],
                   NEW b \in 1 .. Len(M[m].keys)
            PROVE  Fits(M, n, a, M[m].keys[b])
        <5>1. E[N[n].kids[a]] = D[N[n].kids[a]] /\ D[N[n].kids[a]] \in SUBSET (1 .. Len(N))
          BY <1>8, <1>10, <3>2
        <5>2. m \in 1 .. Len(N) /\ m \in D[N[n].kids[a]] BY <5>1
        <5>3. M[m] = N[m] BY <1>5, <5>2
        <5>4. Fits(N, n, a, N[m].keys[b]) BY <1>1, <3>2, <5>2, <5>3 DEF Ordered
        <5> QED BY <4>1, <5>3, <5>4 DEF Fits
      <4>3. \A a \in 1 .. Len(N[n].keys), b \in 1 .. Len(N[n].keys) :
              a < b => N[n].keys[a] <= N[n].keys[b]
        BY <1>1, <3>2 DEF Ordered
      <4> QED BY <4>1, <4>2, <4>3
    <3> QED BY <1>6, <3>1, <3>2
  <2> QED BY <1>5, <2>1 DEF Ordered
<1>17. Tree(M, q, E, G) BY <1>11, <1>12, <1>13, <1>14, <1>15, <1>16 DEF Tree
<1>18. M[q].keys = <<>> /\ M[q].kids = <<r>> BY <1>4, <1>5 DEF keys, kids
<1> QED BY <1>1, <1>5, <1>17, <1>18 DEF q

(* An insertion in the leaf it has come to keeps the tree. *)
Inserted(N, c, k) == [N EXCEPT ![c].keys = InsertAt(@, Position(N[c], k), k)]

(* Node c is extended by k behind its last key that is not greater.        *)
LeafMade(N, M, c, k, pos) ==
  /\ pos \in 1 .. Len(N[c].keys) + 1
  /\ pos > 1 => N[c].keys[pos - 1] <= k
  /\ \A y \in pos .. Len(N[c].keys) : k < N[c].keys[y]
  /\ M \in Seq(NodeType) /\ Len(M) = Len(N)
  /\ \A n \in 1 .. Len(N) : n # c => M[n] = N[n]
  /\ M[c].kids = N[c].kids /\ M[c].is_leaf = N[c].is_leaf
  /\ Extended(M[c].keys, N[c].keys, pos, k)

LEMMA LeafMakes ==
  ASSUME NEW N, N \in Seq(NodeType), NEW k \in Key, NEW c \in 1 .. Len(N)
  PROVE  LeafMade(N, Inserted(N, c, k), c, k, Position(N[c], k))
<1> DEFINE M == Inserted(N, c, k)
           pos == Position(N[c], k)
           s == N[c].keys
           u == InsertAt(s, pos, k)
           P == [keys |-> u, kids |-> N[c].kids, is_leaf |-> N[c].is_leaf]
<1>1. N \in Seq(NodeType) /\ Len(N) \in Nat /\ c \in 1 .. Len(N) OBVIOUS
<1>2. \A n \in 1 .. Len(N) : N[n] \in NodeType BY <1>1
<1>3. s \in Seq(Key) /\ N[c].kids \in Seq(Nat) /\ N[c].is_leaf \in BOOLEAN BY <1>1, <1>2 DEF NodeType
<1>4. /\ pos \in 1 .. Len(s) + 1
      /\ pos > 1 => s[pos - 1] <= k
      /\ \A y \in pos .. Len(s) : k < s[y]
  <2> DEFINE q == N[c]
  <2>1. q.keys \in Seq(Key) BY <1>3
  <2> HIDE DEF q
  <2>2. /\ Position(q, k) \in 1 .. Len(q.keys) + 1
        /\ Position(q, k) > 1 => q.keys[Position(q, k) - 1] <= k
        /\ \A y \in Position(q, k) .. Len(q.keys) : k < q.keys[y]
    BY <2>1, PositionFacts
  <2> QED BY <2>2 DEF q
<1>5. u \in Seq(Key) /\ Extended(u, s, pos, k)
  <2>1. u = InsertAt(s, pos, k) OBVIOUS
  <2>2. s \in Seq(Key) /\ k \in Key /\ pos \in 1 .. Len(s) + 1 BY <1>3, <1>4
  <2> HIDE DEF s, pos, u
  <2> QED BY ONLY <2>1, <2>2, InsertAtFacts
<1>6. /\ M = [n \in 1 .. Len(N) |-> IF n = c THEN P ELSE N[n]]
  <2>1. N = [n \in 1 .. Len(N) |-> N[n]] BY <1>1
  <2>2. N[c] = [keys |-> N[c].keys, kids |-> N[c].kids, is_leaf |-> N[c].is_leaf]
    BY <1>1, <1>2 DEF NodeType
  <2>3. [N[c] EXCEPT !.keys = u] = P
    <3> DEFINE a == N[c].keys
               b == N[c].kids
               l == N[c].is_leaf
    <3>1. N[c] = [keys |-> a, kids |-> b, is_leaf |-> l] BY <2>2
    <3> HIDE DEF a, b, l, u
    <3>2. [[keys |-> a, kids |-> b, is_leaf |-> l] EXCEPT !.keys = u]
            = [keys |-> u, kids |-> b, is_leaf |-> l]
      OBVIOUS
    <3> QED BY <3>1, <3>2 DEF b, l
  <2>4. M = [n \in 1 .. Len(N) |-> IF n = c THEN [N[c] EXCEPT !.keys = u] ELSE N[n]]
    <3>1. u = InsertAt(N[c].keys, Position(N[c], k), k) OBVIOUS
    <3> HIDE DEF u
    <3> QED BY <1>1, <2>1, <3>1 DEF Inserted
  <2> HIDE DEF u, P
  <2> QED BY <2>3, <2>4
<1> HIDE DEF s, u, pos, M
<1>7. P \in NodeType /\ P.keys = u /\ P.kids = N[c].kids /\ P.is_leaf = N[c].is_leaf
  BY <1>3, <1>5 DEF NodeType
<1> HIDE DEF P
<1>8. /\ M \in Seq(NodeType) /\ Len(M) = Len(N) /\ M[c] = P
      /\ \A n \in 1 .. Len(N) : n # c => M[n] = N[n]
  BY <1>1, <1>2, <1>6, <1>7
<1>9. M[c].keys = u /\ M[c].kids = N[c].kids /\ M[c].is_leaf = N[c].is_leaf BY <1>7, <1>8
<1> QED BY <1>4, <1>5, <1>8, <1>9 DEF LeafMade, M, pos, s

LEMMA LeafTree ==
  ASSUME NEW N, NEW r, NEW D, NEW H, Tree(N, r, D, H), NEW k \in Key, NEW c \in Nat,
         Entered(N, D, c, k), N[c].is_leaf
  PROVE  /\ Tree(Inserted(N, c, k), r, D, H) /\ Len(Inserted(N, c, k)) = Len(N)
         /\ \A n \in 1 .. Len(N) :
              /\ Len(Inserted(N, c, k)[n].keys) >= Len(N[n].keys)
              /\ Inserted(N, c, k)[n].is_leaf = N[n].is_leaf
<1> DEFINE M == Inserted(N, c, k)
           pos == Position(N[c], k)
           s == N[c].keys
           u == M[c].keys
           P == M[c]
<1>1. /\ Shaped(N) /\ Placed(N, r) /\ Leveled(N, H) /\ Below(N, D) /\ Filled(N, r) /\ Ordered(N, D)
      /\ N \in Seq(NodeType) /\ Len(N) \in Nat /\ c \in 1 .. Len(N)
  BY DEF Tree, Shaped, Entered
<1>2. \A n \in 1 .. Len(N) : N[n] \in NodeType BY <1>1
<1>3. s \in Seq(Key) BY <1>1, <1>2 DEF NodeType
<1>6. LeafMade(N, M, c, k, pos) BY <1>1, LeafMakes
<1> HIDE DEF M, pos
<1>4. /\ pos \in 1 .. Len(s) + 1
      /\ pos > 1 => s[pos - 1] <= k
      /\ \A y \in pos .. Len(s) : k < s[y]
  BY <1>6 DEF LeafMade
<1>8. /\ M \in Seq(NodeType) /\ Len(M) = Len(N) /\ M[c] = P
      /\ \A n \in 1 .. Len(N) : n # c => M[n] = N[n]
  BY <1>6 DEF LeafMade
<1>7. P \in NodeType /\ P.keys = u /\ P.kids = N[c].kids /\ P.is_leaf = N[c].is_leaf
  BY <1>1, <1>6, <1>8 DEF LeafMade
<1>5. /\ u \in Seq(Key) /\ Len(u) = Len(s) + 1
      /\ \A y \in 1 .. pos - 1 : u[y] = s[y]
      /\ u[pos] = k
      /\ \A y \in pos + 1 .. Len(s) + 1 : u[y] = s[y - 1]
  <2>1. u \in Seq(Key) BY <1>7 DEF NodeType
  <2> QED BY <1>6, <2>1 DEF LeafMade, Extended
<1> HIDE DEF s, u, P
<1>9. \A n \in 1 .. Len(N) : M[n].kids = N[n].kids /\ M[n].is_leaf = N[n].is_leaf
  BY <1>7, <1>8
<1>10. Len(N[c].kids) = 0 /\ Len(s) < ORDER - 1 /\ Len(s) \in Nat
  BY <1>1, <1>3 DEF Filled, Entered, s
<1>11. Shaped(M) BY ONLY <1>1, <1>8, <1>9 DEF Shaped
<1>12. Placed(M, r)
  <2>1. r \in 1 .. Len(M) BY <1>1, <1>8 DEF Placed
  <2>2. ASSUME NEW n \in 1 .. Len(M), NEW a \in 1 .. Len(M[n].kids) PROVE M[n].kids[a] # r
    BY <1>1, <1>8, <1>9 DEF Placed
  <2>3. ASSUME NEW n \in 1 .. Len(M), NEW m \in 1 .. Len(M),
               NEW a \in 1 .. Len(M[n].kids), NEW b \in 1 .. Len(M[m].kids),
               M[n].kids[a] = M[m].kids[b]
        PROVE  n = m /\ a = b
    <3>1. /\ n \in 1 .. Len(N) /\ m \in 1 .. Len(N)
          /\ a \in 1 .. Len(N[n].kids) /\ b \in 1 .. Len(N[m].kids)
          /\ N[n].kids[a] = N[m].kids[b]
      BY <1>8, <1>9, <2>3
    <3> QED BY <1>1, <3>1 DEF Placed
  <2>4. ASSUME NEW m \in 1 .. Len(M), m # r
        PROVE  \E n \in 1 .. Len(M) : \E a \in 1 .. Len(M[n].kids) : m = M[n].kids[a]
    <3> DEFINE Child(n) == \E a \in 1 .. Len(N[n].kids) : m = N[n].kids[a]
    <3>1. m \in 1 .. Len(N) BY <1>8
    <3>2. \E n \in 1 .. Len(N) : Child(n) BY ONLY <1>1, <2>4, <3>1 DEF Placed
    <3>3. PICK n \in 1 .. Len(N) : Child(n) BY <3>2
    <3> QED BY <1>8, <1>9, <3>3
  <2> QED BY ONLY <2>1, <2>2, <2>3, <2>4 DEF Placed
<1>13. Leveled(M, H) BY ONLY <1>1, <1>8, <1>9, SMTT(30) DEF Leveled
<1>14. Below(M, D)
  <2>1. D \in [1 .. Len(M) -> SUBSET (1 .. Len(M))] BY <1>1, <1>8 DEF Below
  <2>2. ASSUME NEW n \in 1 .. Len(M), NEW m \in 1 .. Len(M)
        PROVE  m \in D[n] <=> m = n \/ \E a \in 1 .. Len(M[n].kids) : m \in D[M[n].kids[a]]
    <3>1. M[n].kids = N[n].kids /\ n \in 1 .. Len(N) /\ m \in 1 .. Len(N) BY <1>8, <1>9
    <3>2. m \in D[n] <=> m = n \/ \E a \in 1 .. Len(N[n].kids) : m \in D[N[n].kids[a]]
      BY <1>1, <3>1 DEF Below
    <3> QED BY ONLY <3>1, <3>2
  <2> QED BY ONLY <2>1, <2>2 DEF Below
<1>15. Filled(M, r)
  <2>1. ASSUME NEW n \in 1 .. Len(N)
        PROVE  /\ Len(M[n].keys) <= ORDER - 1 /\ (n # r => Len(M[n].keys) >= t - 1)
               /\ Len(M[n].kids) = IF M[n].is_leaf THEN 0 ELSE Len(M[n].keys) + 1
    <3>1. CASE n = c
      <4>1. Len(M[n].keys) = Len(s) + 1 BY <1>5, <1>7, <1>8, <3>1
      <4>2. n # r => Len(s) >= t - 1 BY <1>1, <3>1 DEF Filled, s
      <4>3. Len(M[n].kids) = 0 /\ M[n].is_leaf BY <1>9, <1>10, <3>1
      <4> QED BY <1>10, <4>1, <4>2, <4>3, Degree
    <3>2. CASE n # c
      <4>1. M[n] = N[n] BY <1>8, <3>2
      <4> QED BY <1>1, <4>1 DEF Filled
    <3> QED BY <3>1, <3>2
  <2> QED BY ONLY <1>8, <2>1 DEF Filled
<1>16. /\ \A n \in 1 .. Len(N) : /\ Len(N[n].keys) \in Nat
                                 /\ \A a \in 1 .. Len(N[n].keys) : N[n].keys[a] \in Int
       /\ k \in Int
  BY <1>1, KeysAreIntegers, Degree
<1>17. ASSUME NEW a \in 1 .. Len(u), NEW b \in 1 .. Len(u), a < b PROVE u[a] <= u[b]
  <2>1. /\ \A y \in 1 .. Len(s) : s[y] \in Int
        /\ \A y \in 1 .. Len(s), z \in 1 .. Len(s) : y < z => s[y] <= s[z]
    BY <1>1, <1>16 DEF Ordered, s
  <2> DEFINE l == Len(s)
  <2>2. l \in Nat /\ pos \in 1 .. l + 1 /\ a \in 1 .. l + 1 /\ b \in 1 .. l + 1 BY <1>4, <1>5, <1>10
  <2>3. CASE b < pos
    <3>1. a \in 1 .. pos - 1 /\ b \in 1 .. pos - 1 /\ a \in 1 .. l /\ b \in 1 .. l
      BY <1>17, <2>2, <2>3
    <3> QED BY <1>5, <1>17, <2>1, <3>1
  <2>4. CASE a < pos /\ b >= pos
    <3> DEFINE o == pos - 1
    <3>1. a \in 1 .. pos - 1 /\ a \in 1 .. l /\ o \in 1 .. l /\ (a = o \/ a < o) /\ pos > 1
      BY <2>2, <2>4
    <3>2. s[o] <= k BY <1>4, <3>1
    <3> HIDE DEF o
    <3>3. s[a] <= s[o] BY <2>1, <3>1
    <3>4. u[a] <= k /\ u[a] = s[a] BY <1>5, <1>16, <2>1, <3>1, <3>2, <3>3
    <3>5. CASE b = pos BY <1>5, <3>4, <3>5
    <3>6. CASE b > pos
      <4> DEFINE e == b - 1
      <4>1. e \in pos .. l /\ e \in 1 .. l /\ b \in pos + 1 .. l + 1 BY <2>2, <3>6
      <4>2. u[b] = s[e] BY <1>5, <4>1
      <4> HIDE DEF e
      <4>3. k < s[e] BY <1>4, <4>1
      <4> QED BY <1>16, <2>1, <3>1, <3>4, <4>1, <4>2, <4>3
    <3> QED BY <2>2, <2>4, <3>5, <3>6
  <2>5. CASE a = pos
    <3> DEFINE e == b - 1
    <3>1. e \in pos .. l /\ e \in 1 .. l /\ b \in pos + 1 .. l + 1 BY <1>17, <2>2, <2>5
    <3>2. u[b] = s[e] BY <1>5, <3>1
    <3> HIDE DEF e
    <3>3. k < s[e] BY <1>4, <3>1
    <3> QED BY <1>5, <1>16, <2>1, <2>5, <3>1, <3>2, <3>3
  <2>6. CASE a > pos
    <3> DEFINE e == b - 1
               o == a - 1
    <3>1. /\ e \in 1 .. l /\ o \in 1 .. l /\ o < e
          /\ a \in pos + 1 .. l + 1 /\ b \in pos + 1 .. l + 1
      BY <1>17, <2>2, <2>6
    <3>2. u[b] = s[e] /\ u[a] = s[o] BY <1>5, <3>1
    <3> HIDE DEF e, o
    <3> QED BY <2>1, <3>1, <3>2
  <2> HIDE DEF l
  <2> QED BY <2>2, <2>3, <2>4, <2>5, <2>6
<1>18. ASSUME NEW n \in 1 .. Len(N), NEW a \in 1 .. Len(N[n].kids), NEW m \in D[N[n].kids[a]],
              NEW b \in 1 .. Len(M[m].keys)
       PROVE  Fits(M, n, a, M[m].keys[b])
  <2>1. n # c BY <1>10
  <2>2. M[n] = N[n] BY <1>8, <2>1
  <2>3. m \in 1 .. Len(N)
    <3>1. N[n].kids[a] \in 1 .. Len(N) BY <1>1 DEF Shaped
    <3> QED BY <1>1, <3>1 DEF Below
  <2>4. Fits(N, n, a, M[m].keys[b])
    <3>1. CASE m # c
      <4>1. M[m] = N[m] BY <1>8, <2>3, <3>1
      <4> QED BY <1>1, <4>1 DEF Ordered
    <3>2. CASE m = c
      <4>1. M[m].keys = u /\ Len(u) = Len(s) + 1 BY <1>5, <1>7, <1>8, <3>2
      <4>2. b \in 1 .. Len(s) + 1 BY <4>1
      <4>3. \A e \in 1 .. Len(s) : Fits(N, n, a, s[e]) BY <1>1, <3>2 DEF Ordered, s
      <4>4. CASE b < pos
        <5>1. b \in 1 .. pos - 1 /\ b \in 1 .. Len(s) BY <1>4, <1>10, <4>2, <4>4
        <5>2. u[b] = s[b] BY <1>5, <5>1
        <5> QED BY <4>1, <4>3, <5>1, <5>2
      <4>5. CASE b = pos
        <5>1. Fits(N, n, a, k) BY <3>2 DEF Entered
        <5>2. u[b] = k BY <1>5, <4>5
        <5> QED BY <4>1, <5>1, <5>2
      <4>6. CASE b > pos
        <5> DEFINE e == b - 1
        <5>1. e \in 1 .. Len(s) /\ b \in pos + 1 .. Len(s) + 1 BY <1>4, <1>10, <4>2, <4>6
        <5>2. u[b] = s[e] BY <1>5, <5>1
        <5> HIDE DEF e
        <5> QED BY <4>1, <4>3, <5>1, <5>2
      <4> QED BY <1>4, <1>10, <4>2, <4>4, <4>5, <4>6
    <3> QED BY <3>1, <3>2
  <2> QED BY <2>2, <2>4 DEF Fits
<1>19. Ordered(M, D)
  <2>1. ASSUME NEW n \in 1 .. Len(N), NEW a \in 1 .. Len(M[n].keys), NEW b \in 1 .. Len(M[n].keys), a < b
        PROVE  M[n].keys[a] <= M[n].keys[b]
    <3>1. CASE n = c BY <1>7, <1>8, <1>17, <2>1, <3>1
    <3>2. CASE n # c
      <4>1. M[n] = N[n] BY <1>8, <3>2
      <4> QED BY <1>1, <2>1, <4>1 DEF Ordered
    <3> QED BY <3>1, <3>2
  <2> QED BY ONLY <1>8, <1>9, <1>18, <2>1 DEF Ordered
<1>20. Tree(M, r, D, H) BY <1>11, <1>12, <1>13, <1>14, <1>15, <1>19 DEF Tree
<1>21. ASSUME NEW n \in 1 .. Len(N) PROVE Len(M[n].keys) >= Len(N[n].keys)
  <2>1. CASE n = c
    <3>1. Len(M[n].keys) = Len(s) + 1 /\ Len(N[n].keys) = Len(s) BY <1>5, <1>7, <1>8, <2>1 DEF s
    <3> QED BY <1>10, <3>1
  <2>2. CASE n # c BY <1>8, <1>16, <2>2
  <2> QED BY <2>1, <2>2
<1> QED BY <1>8, <1>9, <1>20, <1>21 DEF M

(* An inner root holds a key. *)
Rooted(N, r) == ~ N[r].is_leaf => Len(N[r].keys) >= 1

(* What bt_split_child does is a split in the sense of the lemmas. *)
LEMMA SplitSplits ==
  ASSUME NEW N, NEW r, NEW D, NEW H, Tree(N, r, D, H),
         NEW p \in Nat, NEW i \in Nat, NEW c \in Nat, NEW x \in Nat,
         p \in 1 .. Len(N), i \in 1 .. Len(N[p].kids), c = N[p].kids[i], x = Len(N) + 1,
         IsFull(N[c]), Len(N[p].keys) < ORDER - 1
  PROVE  /\ Splits(N, r, D, H, Split(N, p, i), p, i, c, x)
         /\ \E E : /\ Regrouped(N, D, p, c, x, E)
                   /\ Tree(Split(N, p, i), r, E, NewHeights(H, c, x))
         /\ Rooted(N, r) => Rooted(Split(N, p, i), r)
<1> DEFINE M == Split(N, p, i)
<1>1. /\ Shaped(N) /\ Placed(N, r) /\ Leveled(N, H) /\ Filled(N, r)
      /\ N \in Seq(NodeType) /\ Len(N) \in Nat
      /\ \A n \in 1 .. Len(N) : \A a \in 1 .. Len(N[n].kids) : N[n].kids[a] \in 1 .. Len(N)
  BY DEF Tree, Shaped
<1>2. c \in 1 .. Len(N) BY <1>1
<1>3. c # p
  <2>1. H[p] = H[c] + 1 /\ H[c] \in Nat BY <1>1, <1>2 DEF Leveled
  <2> QED BY <2>1
<1>4. /\ i <= Len(N[p].keys) + 1
      /\ Len(N[c].kids) = IF N[c].is_leaf THEN 0 ELSE Len(N[c].keys) + 1
  <2>1. /\ Len(N[p].kids) = IF N[p].is_leaf THEN 0 ELSE Len(N[p].keys) + 1
        /\ Len(N[c].kids) = IF N[c].is_leaf THEN 0 ELSE Len(N[c].keys) + 1
    BY <1>1, <1>2 DEF Filled
  <2> QED BY <2>1
<1>5. Divided(N, M, p, i, c, x) BY <1>1, <1>2, <1>3, <1>4, SplitDivides
<1> HIDE DEF M
<1>6. Splits(N, r, D, H, M, p, i, c, x) BY <1>5 DEF Splits
<1>7. PICK E : Regrouped(N, D, p, c, x, E) BY <1>1, <1>2, Regrouping
<1>8. Tree(M, r, E, NewHeights(H, c, x)) BY <1>6, <1>7, SplitTree
<1>9. ASSUME Rooted(N, r) PROVE Rooted(M, r)
  <2>1. r \in 1 .. Len(N) /\ r # c BY <1>1 DEF Placed
  <2>2. CASE r = p
    <3>1. Len(M[p].keys) = Len(N[p].keys) + 1 BY <1>5 DEF Divided
    <3>2. Len(N[p].keys) \in Nat BY <1>1, KeysAreIntegers
    <3> QED BY <2>2, <3>1, <3>2 DEF Rooted
  <2>3. CASE r # p
    <3>1. M[r] = N[r] BY <1>5, <2>1, <2>3 DEF Divided
    <3> QED BY <1>9, <3>1 DEF Rooted
  <2> QED BY <2>2, <2>3
<1> QED BY <1>6, <1>7, <1>8, <1>9 DEF M

(***************************************************************************)
(* The inductive invariant: the nodes are a tree, and an insertion on its  *)
(* way down stands where its key belongs, with room in the node.           *)
(***************************************************************************)
Sound(N, r, walking, c, k) ==
  /\ Rooted(N, r)
  /\ \E D, H : Tree(N, r, D, H) /\ (walking => Entered(N, D, c, k))

BTreeInv ==
  /\ root \in 1 .. Len(node) /\ cur \in 1 .. Len(node) /\ key \in Key
  /\ pc \in {"ready", "insert", "nonfull", "search", "crashed", "exited"}
  /\ answer \in {<<>>} \cup (Key \X BOOLEAN)
  /\ size \in 0 .. MAX_INSERTS
  /\ pc \in {"insert", "nonfull"} => size < MAX_INSERTS
  /\ Sound(node, root, pc = "nonfull", cur, key)

LEMMA BTreeStart == Init => BTreeInv
<1> SUFFICES ASSUME Init PROVE BTreeInv OBVIOUS
<1> DEFINE keys == <<>>
           kids == <<>>
           leaf == [keys |-> keys, kids |-> kids, is_leaf |-> TRUE]
           D == [n \in 1 .. 1 |-> {1}]
           H == [n \in 1 .. 1 |-> 0]
<1>1. node = <<leaf>> /\ root = 1 /\ cur = 1 /\ key \in Key BY DEF Init, Leaf
<1>2. keys \in Seq(Key) /\ Len(keys) = 0 /\ kids \in Seq(Nat) /\ Len(kids) = 0 OBVIOUS
<1> HIDE DEF keys, kids
<1>3. leaf \in NodeType /\ leaf.keys = keys /\ leaf.kids = kids /\ leaf.is_leaf = TRUE
  BY <1>2 DEF NodeType
<1> HIDE DEF leaf
<1>4. node \in Seq(NodeType) /\ Len(node) = 1 /\ node[1] = leaf BY <1>1, <1>3
<1>5. \A n \in 1 .. Len(node) :
        /\ n = 1 /\ Len(node[n].keys) = 0 /\ Len(node[n].kids) = 0 /\ node[n].is_leaf
  BY <1>2, <1>3, <1>4
<1>6. D \in [1 .. 1 -> SUBSET (1 .. 1)] /\ D[1] = {1} /\ H \in [1 .. 1 -> Nat] /\ H[1] = 0
  OBVIOUS
<1> HIDE DEF D, H
<1>7. Shaped(node) BY <1>4, <1>5 DEF Shaped
<1>8. Filled(node, root) BY <1>1, <1>5, Degree DEF Filled
<1>9. Placed(node, root) BY <1>1, <1>4, <1>5 DEF Placed
<1>10. Leveled(node, H) BY <1>4, <1>5, <1>6 DEF Leveled
<1>11. Below(node, D) BY <1>4, <1>5, <1>6 DEF Below
<1>12. Ordered(node, D) BY <1>4, <1>5 DEF Ordered
<1>13. Tree(node, root, D, H) BY <1>7, <1>8, <1>9, <1>10, <1>11, <1>12 DEF Tree
<1>14. Rooted(node, root) /\ pc # "nonfull" BY <1>1, <1>4, <1>5 DEF Rooted, Init
<1>15. Sound(node, root, pc = "nonfull", cur, key) BY <1>13, <1>14 DEF Sound
<1> QED BY <1>1, <1>4, <1>15, Degree DEF BTreeInv, Init

LEMMA BTreeFacts ==
  ASSUME BTreeInv
  PROVE  /\ root \in 1 .. Len(node) /\ cur \in 1 .. Len(node) /\ key \in Key
         /\ pc \in {"ready", "insert", "nonfull", "search", "crashed", "exited"}
         /\ answer \in {<<>>} \cup (Key \X BOOLEAN)
         /\ size \in 0 .. MAX_INSERTS
         /\ pc \in {"insert", "nonfull"} => size < MAX_INSERTS
         /\ Sound(node, root, pc = "nonfull", cur, key)
BY DEF BTreeInv

(* A step that leaves the tree alone. *)
LEMMA Standing ==
  ASSUME NEW N, NEW r, NEW w, NEW c, NEW k, Sound(N, r, w, c, k), NEW d, NEW l
  PROVE  Sound(N, r, FALSE, d, l)
BY DEF Sound

LEMMA UseRootKeeps ==
  ASSUME BTreeInv, UseRoot
  PROVE  BTreeInv'
<1>1. /\ pc = "insert" /\ ~ IsFull(node[root]) /\ pc' = "nonfull" /\ cur' = root
      /\ node' = node /\ root' = root /\ key' = key /\ answer' = answer /\ size' = size
  BY DEF UseRoot
<1>2. Rooted(node, root) BY BTreeFacts DEF Sound
<1>3. PICK D, H : Tree(node, root, D, H) BY BTreeFacts DEF Sound
<1>4. Len(node[root].keys) < ORDER - 1
  <2>1. node \in Seq(NodeType) /\ Filled(node, root) BY <1>3 DEF Tree, Shaped
  <2>2. Len(node[root].keys) \in Nat BY <2>1, BTreeFacts, KeysAreIntegers
  <2>3. Len(node[root].keys) <= ORDER - 1 BY <2>1, BTreeFacts DEF Filled
  <2> QED BY <1>1, <2>2, <2>3, Degree DEF IsFull
<1>5. Entered(node, D, root, key) BY <1>3, <1>4, RootEntered
<1>6. Sound(node, root, TRUE, root, key) BY <1>2, <1>3, <1>5 DEF Sound
<1>7. (pc' = "nonfull") = TRUE BY <1>1
<1> QED BY <1>1, <1>6, <1>7, BTreeFacts DEF BTreeInv

LEMMA GrowRootKeeps ==
  ASSUME BTreeInv, GrowRoot
  PROVE  BTreeInv'
<1> DEFINE q == Len(node) + 1
           N == Append(node, [keys |-> <<>>, kids |-> <<root>>, is_leaf |-> FALSE])
           M == Split(N, q, 1)
<1>1. /\ pc = "insert" /\ IsFull(node[root]) /\ pc' = "nonfull"
      /\ node' = M /\ root' = q /\ cur' = q /\ key' = key /\ answer' = answer /\ size' = size
  BY DEF GrowRoot
<1>2. PICK D, H : Tree(node, root, D, H) BY BTreeFacts DEF Sound
<1>3. root \in Nat BY BTreeFacts
<1>4. /\ \E E, G : Tree(N, q, E, G)
      /\ Len(N) = q /\ N[q].keys = <<>> /\ N[q].kids = <<root>>
      /\ N[root] = node[root] /\ root \in 1 .. Len(node)
  <2>1. N = Append(node, [keys |-> <<>>, kids |-> <<root>>, is_leaf |-> FALSE]) OBVIOUS
  <2> HIDE DEF N
  <2> QED BY <1>1, <1>2, <1>3, <2>1, GrownTree
<1> HIDE DEF N
<1>5. PICK E, G : Tree(N, q, E, G) BY <1>4
<1>6. q \in Nat /\ q \in 1 .. q
  <2>1. Len(N) \in Nat /\ q \in 1 .. Len(N) BY <1>5 DEF Tree, Shaped, Placed
  <2> QED BY <1>4, <2>1
<1> HIDE DEF q
<1>7. /\ Len(N[q].kids) = 1 /\ N[q].kids[1] = root /\ Len(N[q].keys) = 0
  <2> DEFINE u == <<root>>
  <2>1. Len(u) = 1 /\ u[1] = root OBVIOUS
  <2>2. N[q].kids = u BY <1>4
  <2> HIDE DEF u
  <2>3. Len(N[q].kids) = 1 /\ N[q].kids[1] = root BY <2>1, <2>2
  <2>4. Len(N[q].keys) = 0 BY <1>4
  <2> QED BY <2>3, <2>4
<1> DEFINE x == Len(N) + 1
<1>8. x \in Nat /\ 1 \in 1 .. Len(N[q].kids) /\ root = N[q].kids[1] /\ IsFull(N[root])
      /\ Len(N[q].keys) < ORDER - 1 /\ x = Len(N) + 1 /\ q \in 1 .. Len(N)
  BY <1>1, <1>4, <1>6, <1>7, Degree
<1> HIDE DEF x, M
<1>9. /\ Splits(N, q, E, G, M, q, 1, root, x)
      /\ \E B : Regrouped(N, E, q, root, x, B) /\ Tree(M, q, B, NewHeights(G, root, x))
  BY <1>3, <1>5, <1>6, <1>8, SplitSplits DEF M
<1>10. PICK B : Tree(M, q, B, NewHeights(G, root, x)) BY <1>9
<1>11. Len(M[q].keys) = 1
  <2>1. Len(M[q].keys) = Len(N[q].keys) + 1 BY <1>9 DEF Splits, Divided
  <2> QED BY <1>7, <2>1
<1>12. Rooted(M, q) BY <1>11 DEF Rooted
<1>13. Len(M[q].keys) < ORDER - 1 BY <1>11, Degree
<1>14. Entered(M, B, q, key) BY <1>10, <1>13, RootEntered
<1>15. Sound(M, q, TRUE, q, key) BY <1>10, <1>12, <1>14 DEF Sound
<1>16. q \in 1 .. Len(M) BY <1>10 DEF Tree, Placed
<1>17. (pc' = "nonfull") = TRUE BY <1>1
<1>18. Sound(node', root', pc' = "nonfull", cur', key') BY <1>1, <1>15, <1>17
<1> QED BY <1>1, <1>16, <1>18, BTreeFacts DEF BTreeInv

LEMMA InsertInLeafKeeps ==
  ASSUME BTreeInv, InsertInLeaf
  PROVE  BTreeInv'
<1> DEFINE M == Inserted(node, cur, key)
<1>1. /\ pc = "nonfull" /\ node[cur].is_leaf /\ pc' = "ready" /\ size' = size + 1
      /\ node' = M /\ root' = root /\ cur' = cur /\ key' = key /\ answer' = answer
  BY DEF InsertInLeaf, Inserted
<1>2. PICK D, H : Tree(node, root, D, H) /\ Entered(node, D, cur, key)
  BY <1>1, BTreeFacts DEF Sound
<1>3. Rooted(node, root) BY BTreeFacts DEF Sound
<1>4. cur \in Nat /\ key \in Key /\ root \in 1 .. Len(node) BY BTreeFacts
<1>5. /\ Tree(M, root, D, H) /\ Len(M) = Len(node)
      /\ \A n \in 1 .. Len(node) : /\ Len(M[n].keys) >= Len(node[n].keys)
                                    /\ M[n].is_leaf = node[n].is_leaf
  BY <1>1, <1>2, <1>4, LeafTree
<1> HIDE DEF M
<1>6. Rooted(M, root)
  <2>1. M[root].is_leaf = node[root].is_leaf BY <1>4, <1>5
  <2>2. M \in Seq(NodeType) /\ node \in Seq(NodeType) BY <1>2, <1>5 DEF Tree, Shaped
  <2>3. Len(M[root].keys) \in Nat /\ Len(node[root].keys) \in Nat BY <1>4, <1>5, <2>2, KeysAreIntegers
  <2> QED BY <1>3, <1>4, <1>5, <2>1, <2>3 DEF Rooted
<1>7. Sound(M, root, FALSE, cur, key) BY <1>5, <1>6 DEF Sound
<1>8. (pc' = "nonfull") = FALSE BY <1>1
<1>9. size' \in 0 .. MAX_INSERTS BY <1>1, BTreeFacts, Degree
<1>10. Sound(node', root', pc' = "nonfull", cur', key') BY <1>1, <1>7, <1>8
<1> QED BY <1>1, <1>5, <1>9, <1>10, BTreeFacts DEF BTreeInv

LEMMA DescendKeeps ==
  ASSUME BTreeInv, Descend
  PROVE  BTreeInv'
<1> DEFINE i == Position(node[cur], key)
           c == node[cur].kids[i]
           x == Len(node) + 1
           M == Split(node, cur, i)
<1>1. /\ pc = "nonfull" /\ ~ node[cur].is_leaf
      /\ root' = root /\ pc' = pc /\ key' = key /\ answer' = answer /\ size' = size
      /\ IF IsFull(node[c])
         THEN node' = M /\ cur' = node'[cur].kids[Side(node'[cur], i, key)]
         ELSE node' = node /\ cur' = c
  BY DEF Descend
<1>2. PICK D, H : Tree(node, root, D, H) /\ Entered(node, D, cur, key)
  BY <1>1, BTreeFacts DEF Sound
<1>3. Rooted(node, root) BY BTreeFacts DEF Sound
<1>4. /\ cur \in Nat /\ cur \in 1 .. Len(node) /\ key \in Key /\ root \in 1 .. Len(node)
      /\ node \in Seq(NodeType) /\ Len(node) \in Nat
      /\ \A n \in 1 .. Len(node) : \A a \in 1 .. Len(node[n].kids) : node[n].kids[a] \in 1 .. Len(node)
  BY <1>2, BTreeFacts DEF Tree, Shaped
<1>5. /\ i \in 1 .. Len(node[cur].keys) + 1
      /\ i > 1 => node[cur].keys[i - 1] <= key
      /\ \A y \in i .. Len(node[cur].keys) : key < node[cur].keys[y]
  <2> DEFINE n == node[cur]
  <2>1. n \in NodeType BY <1>4
  <2> HIDE DEF n
  <2>2. n.keys \in Seq(Key) BY <2>1 DEF NodeType
  <2>3. /\ Position(n, key) \in 1 .. Len(n.keys) + 1
        /\ Position(n, key) > 1 => n.keys[Position(n, key) - 1] <= key
        /\ \A y \in Position(n, key) .. Len(n.keys) : key < n.keys[y]
    BY <1>4, <2>2, PositionFacts
  <2> QED BY <2>3 DEF n
<1> HIDE DEF i
<1>6. Len(node[cur].keys) \in Nat /\ \A a \in 1 .. Len(node[cur].keys) : node[cur].keys[a] \in Int
  BY <1>4, KeysAreIntegers
<1>7. i \in Nat /\ i \in 1 .. Len(node[cur].kids)
  <2>1. Len(node[cur].kids) = Len(node[cur].keys) + 1 BY <1>1, <1>2, <1>4 DEF Tree, Filled
  <2> QED BY <1>5, <2>1
<1>8. Fits(node, cur, i, key)
  <2>1. i <= Len(node[cur].keys) => key <= node[cur].keys[i]
    <3>1. i <= Len(node[cur].keys) => i \in i .. Len(node[cur].keys) /\ i \in 1 .. Len(node[cur].keys)
      BY <1>5, <1>6, <1>7
    <3>2. key \in Int BY <1>4, Degree
    <3> QED BY <1>5, <1>6, <3>1, <3>2
  <2> QED BY <1>5, <2>1 DEF Fits
<1>9. c \in 1 .. Len(node) /\ c \in Nat BY <1>4, <1>7
<1>10. Len(node[cur].keys) < ORDER - 1 BY <1>2 DEF Entered
<1>11. CASE IsFull(node[c])
  <2>1. node' = M /\ cur' = M[cur].kids[Side(M[cur], i, key)] BY <1>1, <1>11
  <2>2. x \in Nat /\ x = Len(node) + 1 /\ c = node[cur].kids[i] BY <1>4
  <2> HIDE DEF c, x, M
  <2>3. /\ Splits(node, root, D, H, M, cur, i, c, x)
        /\ \E E : /\ Regrouped(node, D, cur, c, x, E)
                  /\ Tree(M, root, E, NewHeights(H, c, x))
        /\ Rooted(node, root) => Rooted(M, root)
    BY <1>2, <1>4, <1>7, <1>9, <1>10, <1>11, <2>2, SplitSplits DEF M
  <2>4. PICK E : Regrouped(node, D, cur, c, x, E) /\ Tree(M, root, E, NewHeights(H, c, x))
    BY <2>3
  <2> DEFINE y == M[cur].kids[Side(M[cur], i, key)]
  <2>5. Entered(M, E, y, key) BY <1>2, <1>4, <1>7, <1>8, <1>9, <2>2, <2>3, <2>4, HalfEntered
  <2> HIDE DEF y
  <2>6. Sound(M, root, TRUE, y, key) BY <1>3, <2>3, <2>4, <2>5 DEF Sound
  <2>7. y \in 1 .. Len(M) /\ root \in 1 .. Len(M) BY <2>4, <2>5 DEF Entered, Tree, Placed
  <2>8. cur' = y BY <2>1 DEF y
  <2>9. (pc' = "nonfull") = TRUE BY <1>1
  <2>10. Sound(node', root', pc' = "nonfull", cur', key') BY <1>1, <2>1, <2>6, <2>8, <2>9
  <2> QED BY <1>1, <2>1, <2>7, <2>8, <2>10, BTreeFacts DEF BTreeInv
<1>12. CASE ~ IsFull(node[c])
  <2>1. node' = node /\ cur' = c BY <1>1, <1>12
  <2>2. Len(node[c].keys) < ORDER - 1
    <3>1. Len(node[c].keys) \in Nat BY <1>4, <1>9, KeysAreIntegers
    <3>2. Len(node[c].keys) <= ORDER - 1 BY <1>2, <1>9 DEF Tree, Filled
    <3> QED BY <1>12, <3>1, <3>2, Degree DEF IsFull
  <2>3. Entered(node, D, c, key) BY <1>2, <1>4, <1>7, <1>8, <2>2, ChildEntered
  <2> HIDE DEF c
  <2>4. Sound(node, root, TRUE, c, key) BY <1>2, <1>3, <2>3 DEF Sound
  <2>5. (pc' = "nonfull") = TRUE BY <1>1
  <2>6. Sound(node', root', pc' = "nonfull", cur', key') BY <1>1, <2>1, <2>4, <2>5
  <2> QED BY <1>1, <1>9, <2>1, <2>6, BTreeFacts DEF BTreeInv
<1> QED BY <1>11, <1>12

LEMMA QuietKeeps ==
  ASSUME BTreeInv,
         \/ \E k \in Key : btree_insert(k) \/ btree_search(k)
         \/ SearchEnds \/ SearchDescends \/ CallocFails \/ Stopped
         \/ UNCHANGED vars
  PROVE  BTreeInv'
<1>1. /\ root \in 1 .. Len(node) /\ cur \in 1 .. Len(node) /\ key \in Key
      /\ pc \in {"ready", "insert", "nonfull", "search", "crashed", "exited"}
      /\ answer \in {<<>>} \cup (Key \X BOOLEAN)
      /\ size \in 0 .. MAX_INSERTS
      /\ pc \in {"insert", "nonfull"} => size < MAX_INSERTS
      /\ Sound(node, root, pc = "nonfull", cur, key)
  BY BTreeFacts
<1>2. \A d, l : Sound(node, root, FALSE, d, l) BY <1>1, Standing
<1>3. ASSUME NEW k \in Key, btree_insert(k) PROVE BTreeInv'
  <2>1. /\ size < MAX_INSERTS /\ pc' = "insert" /\ key' = k
        /\ node' = node /\ root' = root /\ cur' = cur /\ answer' = answer /\ size' = size
    BY <1>3 DEF btree_insert
  <2>2. (pc' = "nonfull") = FALSE BY <2>1
  <2>3. Sound(node', root', pc' = "nonfull", cur', key') BY <1>2, <2>1, <2>2
  <2> QED BY <1>1, <2>1, <2>3 DEF BTreeInv
<1>4. ASSUME NEW k \in Key, btree_search(k) PROVE BTreeInv'
  <2>1. /\ pc' = "search" /\ key' = k /\ cur' = root
        /\ node' = node /\ root' = root /\ answer' = answer /\ size' = size
    BY <1>4 DEF btree_search
  <2>2. (pc' = "nonfull") = FALSE BY <2>1
  <2>3. Sound(node', root', pc' = "nonfull", cur', key') BY <1>2, <2>1, <2>2
  <2> QED BY <1>1, <2>1, <2>3 DEF BTreeInv
<1>5. ASSUME SearchEnds PROVE BTreeInv'
  <2> DEFINE hit == Hit(node[cur], key)
  <2>1. /\ pc' = "ready" /\ answer' = <<key, hit>>
        /\ node' = node /\ root' = root /\ cur' = cur /\ key' = key /\ size' = size
    BY <1>5 DEF SearchEnds
  <2>2. hit \in BOOLEAN BY DEF Hit
  <2> HIDE DEF hit
  <2>3. (pc' = "nonfull") = FALSE BY <2>1
  <2>4. Sound(node', root', pc' = "nonfull", cur', key') BY <1>2, <2>1, <2>3
  <2> QED BY <1>1, <2>1, <2>2, <2>4 DEF BTreeInv
<1>6. ASSUME SearchDescends PROVE BTreeInv'
  <2> DEFINE i == Scan(node[cur], key)
  <2>1. /\ pc = "search" /\ pc' = pc /\ cur' = node[cur].kids[i] /\ ~ node[cur].is_leaf
        /\ node' = node /\ root' = root /\ key' = key /\ answer' = answer /\ size' = size
    BY <1>6 DEF SearchDescends
  <2>2. PICK D, H : Tree(node, root, D, H) BY <1>1 DEF Sound
  <2>3. i \in 1 .. Len(node[cur].keys) + 1
    <3> DEFINE n == node[cur]
    <3>1. n \in NodeType BY <1>1, <2>2 DEF Tree, Shaped
    <3> HIDE DEF n
    <3>2. n.keys \in Seq(Key) BY <3>1 DEF NodeType
    <3>3. Scan(n, key) \in 1 .. Len(n.keys) + 1 BY <1>1, <3>2, ScanFacts
    <3> QED BY <3>3 DEF n
  <2> HIDE DEF i
  <2>4. Len(node[cur].kids) = Len(node[cur].keys) + 1 BY <1>1, <2>1, <2>2 DEF Tree, Filled
  <2>5. cur' \in 1 .. Len(node) BY <1>1, <2>1, <2>2, <2>3, <2>4 DEF Tree, Shaped
  <2>6. (pc' = "nonfull") = FALSE BY <2>1
  <2>7. Sound(node', root', pc' = "nonfull", cur', key') BY <1>2, <2>1, <2>6
  <2> QED BY <1>1, <2>1, <2>5, <2>7 DEF BTreeInv
<1>7. ASSUME CallocFails PROVE BTreeInv'
  <2>1. /\ pc' \in {"crashed", "exited"}
        /\ node' = node /\ root' = root /\ cur' = cur /\ key' = key
        /\ answer' = answer /\ size' = size
    BY <1>7 DEF CallocFails
  <2>2. (pc' = "nonfull") = FALSE BY <2>1
  <2>3. Sound(node', root', pc' = "nonfull", cur', key') BY <1>2, <2>1, <2>2
  <2> QED BY <1>1, <2>1, <2>3 DEF BTreeInv
<1>8. ASSUME Stopped \/ UNCHANGED vars PROVE BTreeInv'
  <2>1. UNCHANGED vars BY <1>8 DEF Stopped
  <2> QED BY <1>1, <2>1 DEF BTreeInv, vars
<1> QED BY <1>3, <1>4, <1>5, <1>6, <1>7, <1>8

LEMMA BTreeStep == BTreeInv /\ [Next]_vars => BTreeInv'
<1> SUFFICES ASSUME BTreeInv, [Next]_vars PROVE BTreeInv' OBVIOUS
<1>1. CASE UseRoot BY <1>1, UseRootKeeps
<1>2. CASE GrowRoot BY <1>2, GrowRootKeeps
<1>3. CASE InsertInLeaf BY <1>3, InsertInLeafKeeps
<1>4. CASE Descend BY <1>4, DescendKeeps
<1>5. CASE \/ \E k \in Key : btree_insert(k) \/ btree_search(k)
           \/ SearchEnds \/ SearchDescends \/ CallocFails \/ Stopped
           \/ UNCHANGED vars
  BY <1>5, QuietKeeps
<1> QED BY <1>1, <1>2, <1>3, <1>4, <1>5 DEF Next, Call, Step

(* btree_insert and btree_search keep the nodes a tree (lines 72-213).      *)
THEOREM BTreeInvariance == Spec => []BTreeInv
BY BTreeStart, BTreeStep, PTL DEF Spec

(***************************************************************************)
(* What the invariant says in the words of BTree: the recursive functions  *)
(* there are the heights and the keys of the subtrees.                     *)
(***************************************************************************)
LEMMA HeightsAre ==
  ASSUME NEW D, NEW H, Tree(node, root, D, H)
  PROVE  Heights = H
<1> DEFINE Rule(h, n) == IF node[n].is_leaf THEN 0 ELSE 1 + h[node[n].kids[1]]
<1>1. /\ H \in [Nodes -> Nat]
      /\ \A n \in Nodes :
           /\ node[n].is_leaf => H[n] = 0
           /\ \A a \in 1 .. Len(node[n].kids) : H[n] = H[node[n].kids[a]] + 1
      /\ \A n \in Nodes : \A a \in 1 .. Len(node[n].kids) : node[n].kids[a] \in Nodes
      /\ node \in Seq(NodeType) /\ Filled(node, root)
  BY DEF Tree, Leveled, Shaped, Nodes
<1>2. \A n \in Nodes : ~ node[n].is_leaf => 1 \in 1 .. Len(node[n].kids)
  <2>1. \A n \in Nodes : Len(node[n].keys) \in Nat BY <1>1, KeysAreIntegers DEF Nodes
  <2> QED BY <1>1, <2>1 DEF Filled, Nodes
<1>3. \A n \in Nodes : /\ H[n] = Rule(H, n) /\ H[n] \in Nat
                       /\ ~ node[n].is_leaf => /\ node[n].kids[1] \in Nodes
                                               /\ H[n] = H[node[n].kids[1]] + 1
                                               /\ H[node[n].kids[1]] \in Nat
  BY <1>1, <1>2
<1>4. H = [n \in Nodes |-> Rule(H, n)]
  <2>1. H = [n \in Nodes |-> H[n]] BY <1>1
  <2> HIDE DEF Rule
  <2> QED BY <1>3, <2>1
<1>5. Heights = CHOOSE h : h = [n \in Nodes |-> Rule(h, n)] BY DEF Heights
<1> DEFINE G == Heights
<1> HIDE DEF Rule
<1>6. G = [n \in Nodes |-> Rule(G, n)] BY <1>4, <1>5, Zenon
<1> HIDE DEF G
<1>7. \A n \in Nodes : G[n] = Rule(G, n) BY <1>6
<1> DEFINE T == {h \in Nat : \E n \in Nodes : H[n] = h /\ G[n] # H[n]}
<1>8. \A n \in Nodes : G[n] = H[n]
  <2> SUFFICES ASSUME NEW m \in Nodes, G[m] # H[m] PROVE FALSE OBVIOUS
  <2>1. T \in SUBSET Nat /\ T # {} BY <1>1
  <2> HIDE DEF T
  <2>2. PICK h \in T : \A y \in T : h <= y BY <2>1, LeastNumber
  <2>3. PICK n \in Nodes : H[n] = h /\ G[n] # H[n] BY <2>2 DEF T
  <2>4. ~ node[n].is_leaf BY <1>3, <1>7, <2>3 DEF Rule
  <2> DEFINE c == node[n].kids[1]
  <2>5. c \in Nodes /\ H[n] = H[c] + 1 /\ H[c] \in Nat BY <1>3, <2>4
  <2>6. G[n] = 1 + G[c] BY <1>7, <2>4 DEF Rule
  <2> HIDE DEF c
  <2>7. G[c] # H[c] BY <2>3, <2>5, <2>6
  <2>8. H[c] \in T BY <2>5, <2>7 DEF T
  <2> QED BY <2>2, <2>3, <2>5, <2>8
<1>9. G = H
  <2>1. G = [n \in Nodes |-> G[n]] BY <1>6
  <2>2. H = [n \in Nodes |-> H[n]] BY <1>1
  <2> QED BY <1>8, <2>1, <2>2
<1> QED BY <1>9 DEF G

LEMMA ToSetFacts ==
  ASSUME NEW S, NEW s \in Seq(S)
  PROVE  \A e : e \in ToSet(s) <=> \E a \in 1 .. Len(s) : e = s[a]
<1>1. DOMAIN s = 1 .. Len(s) OBVIOUS
<1>2. ToSet(s) = {s[a] : a \in DOMAIN s} BY DEF ToSet
<1> QED BY <1>1, <1>2

(* The nodes' sequences, and what the sets of their elements hold.         *)
KidsFacts ==
  \A n \in Nodes :
    /\ node[n] \in [keys : Seq(Key), kids : Seq(Nodes), is_leaf : BOOLEAN]
    /\ DOMAIN node[n].kids = 1 .. Len(node[n].kids)
    /\ \A c : c \in ToSet(node[n].kids) <=> \E a \in 1 .. Len(node[n].kids) : c = node[n].kids[a]
    /\ \A k : k \in ToSet(node[n].keys) <=> \E a \in 1 .. Len(node[n].keys) : k = node[n].keys[a]

LEMMA KidsAre ==
  ASSUME NEW D, NEW H, Tree(node, root, D, H)
  PROVE  KidsFacts
<1> SUFFICES ASSUME NEW n \in Nodes
             PROVE
               /\ node[n] \in [keys : Seq(Key), kids : Seq(Nodes), is_leaf : BOOLEAN]
               /\ DOMAIN node[n].kids = 1 .. Len(node[n].kids)
               /\ \A c : c \in ToSet(node[n].kids) <=> \E a \in 1 .. Len(node[n].kids) : c = node[n].kids[a]
               /\ \A k : k \in ToSet(node[n].keys) <=> \E a \in 1 .. Len(node[n].keys) : k = node[n].keys[a]
  BY DEF KidsFacts
<1>1. /\ node[n] \in NodeType
      /\ \A a \in 1 .. Len(node[n].kids) : node[n].kids[a] \in Nodes
  BY DEF Tree, Shaped, Nodes
<1> DEFINE s == node[n].kids
           u == node[n].keys
<1>2. /\ s \in Seq(Nat) /\ u \in Seq(Key) /\ node[n].is_leaf \in BOOLEAN
      /\ node[n] = [keys |-> u, kids |-> s, is_leaf |-> node[n].is_leaf]
      /\ \A a \in 1 .. Len(s) : s[a] \in Nodes
  BY <1>1 DEF NodeType
<1> HIDE DEF s, u
<1>3. Len(s) \in Nat /\ DOMAIN s = 1 .. Len(s) /\ s = [a \in 1 .. Len(s) |-> s[a]] BY <1>2
<1> DEFINE B == Nodes
<1>4. \A a \in 1 .. Len(s) : s[a] \in B BY <1>2
<1> HIDE DEF B
<1>5. s \in Seq(B) BY <1>3, <1>4, SeqIs
<1>6. \A c : c \in ToSet(s) <=> \E a \in 1 .. Len(s) : c = s[a] BY <1>5, ToSetFacts
<1>7. \A k : k \in ToSet(u) <=> \E a \in 1 .. Len(u) : k = u[a] BY <1>2, ToSetFacts
<1>8. node[n] \in [keys : Seq(Key), kids : Seq(Nodes), is_leaf : BOOLEAN]
  <2> DEFINE r == node[n]
  <2>1. r = [keys |-> u, kids |-> s, is_leaf |-> r.is_leaf] /\ r.is_leaf \in BOOLEAN BY <1>2
  <2>2. u \in Seq(Key) /\ s \in Seq(B) BY <1>2, <1>5
  <2> HIDE DEF r, B
  <2>3. r \in [keys : Seq(Key), kids : Seq(B), is_leaf : BOOLEAN] BY <2>1, <2>2
  <2> QED BY <2>3 DEF r, B
<1> QED BY <1>3, <1>6, <1>7, <1>8 DEF s, u

LEMMA InvIsShape == BTreeInv => Shape
<1> SUFFICES ASSUME BTreeInv PROVE Shape OBVIOUS
<1>1. PICK D, H : /\ Tree(node, root, D, H)
                  /\ pc = "nonfull" => Entered(node, D, cur, key)
  BY BTreeFacts DEF Sound
<1>0. KidsFacts BY <1>1, KidsAre
<1>2. Rooted(node, root) BY BTreeFacts DEF Sound
<1>3. TypeOK
  <2>1. ASSUME NEW n \in Nodes
        PROVE  node[n] \in [keys : Seq(Key), kids : Seq(Nodes), is_leaf : BOOLEAN]
    BY <1>0, <2>1, Zenon DEF KidsFacts
  <2> QED BY <2>1, BTreeFacts DEF TypeOK, Nodes
<1>4. /\ Filled(node, root) /\ Placed(node, root) /\ Leveled(node, H)
      /\ node \in Seq(NodeType) /\ Len(node) \in Nat
      /\ \A n \in Nodes : Len(node[n].keys) \in Nat
  BY <1>1, KeysAreIntegers DEF Tree, Shaped, Nodes
<1>5. Occupancy
  <2>1. ASSUME NEW n \in Nodes
        PROVE  /\ Len(node[n].keys) <= ORDER - 1
               /\ Len(node[n].keys) >= IF n # root THEN t - 1 ELSE IF node[n].is_leaf THEN 0 ELSE 1
               /\ Len(node[n].kids) = IF node[n].is_leaf THEN 0 ELSE Len(node[n].keys) + 1
    <3>1. /\ Len(node[n].keys) <= ORDER - 1 /\ (n # root => Len(node[n].keys) >= t - 1)
          /\ Len(node[n].kids) = IF node[n].is_leaf THEN 0 ELSE Len(node[n].keys) + 1
      BY <1>4 DEF Filled, Nodes
    <3> QED BY <1>2, <1>4, <3>1 DEF Rooted
  <2> QED BY <2>1 DEF Occupancy
<1>6. RoomOnTheWayDown BY <1>1 DEF RoomOnTheWayDown, Entered
<1>7. Balanced
  <2>1. Heights = H BY <1>1, HeightsAre
  <2>2. ASSUME NEW n \in Nodes, NEW c \in ToSet(node[n].kids)
        PROVE  H[n] = 1 + H[c] /\ c \in Nodes /\ c # root
    <3>1. PICK a \in 1 .. Len(node[n].kids) : c = node[n].kids[a] BY <1>0, <2>2, ZenonT(60) DEF KidsFacts
    <3>2. c \in Nodes /\ H[n] = H[c] + 1 /\ c # root
      BY <1>1, <1>4, <3>1 DEF Tree, Shaped, Leveled, Placed, Nodes
    <3>3. H[c] \in Nat BY <1>4, <3>2 DEF Leveled, Nodes
    <3> QED BY <3>2, <3>3
  <2>3. ASSUME NEW m \in Nodes, NEW n \in Nodes,
               NEW a \in DOMAIN node[m].kids, NEW b \in DOMAIN node[n].kids,
               node[m].kids[a] = node[n].kids[b]
        PROVE  m = n /\ a = b
    <3>1. a \in 1 .. Len(node[m].kids) /\ b \in 1 .. Len(node[n].kids) BY <1>0 DEF KidsFacts
    <3> QED BY <1>4, <2>3, <3>1 DEF Placed, Nodes
  <2>4. UNION {ToSet(node[n].kids) : n \in Nodes} = Nodes \ {root}
    <3>1. ASSUME NEW m \in Nodes, m # root
          PROVE  \E n \in Nodes : m \in ToSet(node[n].kids)
      <4> DEFINE Child(n) == \E a \in 1 .. Len(node[n].kids) : m = node[n].kids[a]
      <4>1. \E n \in Nodes : Child(n) BY <1>4, <3>1 DEF Placed, Nodes
      <4>2. PICK n \in Nodes : Child(n) BY <4>1
      <4>3. m \in ToSet(node[n].kids) BY <1>0, <4>2 DEF KidsFacts
      <4> QED BY <4>3
    <3>2. \A n \in Nodes : \A c \in ToSet(node[n].kids) : c \in Nodes /\ c # root BY <2>2
    <3> QED BY <3>1, <3>2
  <2> QED BY <2>1, <2>2, <2>3, <2>4 DEF Balanced
<1> QED BY <1>3, <1>5, <1>6, <1>7 DEF Shape

LEMMA KeysUnderAre ==
  ASSUME NEW D, NEW H, Tree(node, root, D, H)
  PROVE  \A n \in Nodes : KeysUnder[n] = UNION {ToSet(node[m].keys) : m \in D[n]}
<1> DEFINE Rule(h, n) == ToSet(node[n].keys) \cup UNION {h[c] : c \in ToSet(node[n].kids)}
           All(n) == UNION {ToSet(node[m].keys) : m \in D[n]}
           W == [n \in Nodes |-> All(n)]
<1>0. KidsFacts BY KidsAre
<1>1. /\ H \in [Nodes -> Nat] /\ D \in [Nodes -> SUBSET Nodes]
      /\ \A n \in Nodes : \A a \in 1 .. Len(node[n].kids) :
           node[n].kids[a] \in Nodes /\ H[n] = H[node[n].kids[a]] + 1
      /\ \A n \in Nodes, m \in Nodes :
           m \in D[n] <=> m = n \/ \E a \in 1 .. Len(node[n].kids) : m \in D[node[n].kids[a]]
  BY DEF Tree, Leveled, Shaped, Below, Nodes
<1>2. ASSUME NEW n \in Nodes, NEW c \in ToSet(node[n].kids)
      PROVE  c \in Nodes /\ H[n] = H[c] + 1 /\ H[c] \in Nat
  <2>1. PICK a \in 1 .. Len(node[n].kids) : c = node[n].kids[a] BY <1>0, <1>2, ZenonT(60) DEF KidsFacts
  <2> QED BY <1>1, <2>1
<1>3. \A n \in Nodes, m \in Nodes : m \in D[n] <=> m = n \/ \E c \in ToSet(node[n].kids) : m \in D[c]
  <2> SUFFICES ASSUME NEW n \in Nodes, NEW m \in Nodes
               PROVE  m \in D[n] <=> m = n \/ \E c \in ToSet(node[n].kids) : m \in D[c]
    OBVIOUS
  <2>1. \A c : c \in ToSet(node[n].kids) <=> \E a \in 1 .. Len(node[n].kids) : c = node[n].kids[a]
    BY <1>0, Zenon DEF KidsFacts
  <2> DEFINE Kid(a) == node[n].kids[a]
             In(c) == m \in D[c]
  <2>2. m \in D[n] <=> m = n \/ \E a \in 1 .. Len(node[n].kids) : In(Kid(a)) BY <1>1
  <2>3. \A c : c \in ToSet(node[n].kids) <=> \E a \in 1 .. Len(node[n].kids) : c = Kid(a) BY <2>1
  <2> HIDE DEF Kid
  <2>4. (\E c \in ToSet(node[n].kids) : In(c)) <=> \E a \in 1 .. Len(node[n].kids) : In(Kid(a))
    BY <2>3, Zenon
  <2> QED BY <2>2, <2>4
<1>4. \A n \in Nodes : W[n] = All(n) /\ \A e : e \in All(n) <=> \E m \in D[n] : e \in ToSet(node[m].keys)
  OBVIOUS
<1>5. ASSUME NEW n \in Nodes PROVE W[n] = Rule(W, n)
  <2> HIDE DEF W
  <2>1. ASSUME NEW e \in W[n] PROVE e \in Rule(W, n)
    <3>1. PICK m \in D[n] : e \in ToSet(node[m].keys) BY <1>4, <2>1
    <3>2. m \in Nodes BY <1>1
    <3>3. CASE m = n BY <3>1, <3>3
    <3>4. CASE m # n
      <4>1. PICK c \in ToSet(node[n].kids) : m \in D[c] BY <1>3, <3>2, <3>4
      <4>2. c \in Nodes BY <1>2
      <4>3. e \in W[c] BY <1>4, <3>1, <4>1, <4>2
      <4> QED BY <4>3
    <3> QED BY <3>3, <3>4
  <2>2. ASSUME NEW e \in Rule(W, n) PROVE e \in W[n]
    <3>1. CASE e \in ToSet(node[n].keys)
      <4>1. n \in D[n] BY <1>3
      <4> QED BY <1>4, <3>1, <4>1
    <3>2. CASE \E c \in ToSet(node[n].kids) : e \in W[c]
      <4>1. PICK c \in ToSet(node[n].kids) : e \in W[c] BY <3>2
      <4>2. c \in Nodes BY <1>2
      <4>3. PICK m \in D[c] : e \in ToSet(node[m].keys) BY <1>4, <4>1, <4>2
      <4>4. m \in Nodes BY <1>1, <4>2
      <4>5. m \in D[n] BY <1>3, <4>4
      <4> QED BY <1>4, <4>3, <4>5
    <3> QED BY <2>2, <3>1, <3>2
  <2> HIDE DEF Rule
  <2> QED BY <2>1, <2>2
<1>6. W = [n \in Nodes |-> Rule(W, n)]
  <2>1. W = [n \in Nodes |-> W[n]] OBVIOUS
  <2> HIDE DEF W, Rule
  <2> QED BY <1>5, <2>1
<1>7. KeysUnder = CHOOSE h : h = [n \in Nodes |-> Rule(h, n)] BY Zenon DEF KeysUnder
<1> DEFINE G == KeysUnder
<1> HIDE DEF Rule, W, All
<1>8. G = [n \in Nodes |-> Rule(G, n)] BY <1>6, <1>7, Zenon
<1> HIDE DEF G
<1>9. \A n \in Nodes : G[n] = Rule(G, n) BY <1>8
<1> DEFINE T == {h \in Nat : \E n \in Nodes : H[n] = h /\ G[n] # W[n]}
<1>10. \A n \in Nodes : G[n] = W[n]
  <2> SUFFICES ASSUME NEW m \in Nodes, G[m] # W[m] PROVE FALSE OBVIOUS
  <2>1. T \in SUBSET Nat /\ T # {} BY <1>1
  <2> HIDE DEF T
  <2>2. PICK h \in T : \A y \in T : h <= y BY <2>1, LeastNumber
  <2>3. PICK n \in Nodes : H[n] = h /\ G[n] # W[n] BY <2>2 DEF T
  <2>4. \A c \in ToSet(node[n].kids) : G[c] = W[c]
    <3> SUFFICES ASSUME NEW c \in ToSet(node[n].kids), G[c] # W[c] PROVE FALSE OBVIOUS
    <3>1. c \in Nodes /\ H[n] = H[c] + 1 /\ H[c] \in Nat BY <1>2
    <3>2. H[c] \in T BY <3>1 DEF T
    <3> QED BY <2>2, <2>3, <3>1, <3>2
  <2>5. Rule(G, n) = Rule(W, n)
    <3>1. {G[c] : c \in ToSet(node[n].kids)} = {W[c] : c \in ToSet(node[n].kids)} BY <2>4
    <3> QED BY <3>1, Zenon DEF Rule
  <2> QED BY <1>5, <1>9, <2>3, <2>5
<1> QED BY <1>4, <1>10 DEF G, All

LEMMA InvIsOrder == BTreeInv => SearchOrder
<1> SUFFICES ASSUME BTreeInv PROVE SearchOrder OBVIOUS
<1>1. PICK D, H : Tree(node, root, D, H) BY BTreeFacts DEF Sound
<1>0. KidsFacts BY <1>1, KidsAre
<1>2. /\ Ordered(node, D) /\ D \in [Nodes -> SUBSET Nodes]
      /\ \A n \in Nodes : \A a \in 1 .. Len(node[n].kids) : node[n].kids[a] \in Nodes
      /\ \A n \in Nodes : Len(node[n].keys) \in Nat
  BY <1>1, KeysAreIntegers DEF Tree, Below, Shaped, Nodes
<1>3. \A n \in Nodes : KeysUnder[n] = UNION {ToSet(node[m].keys) : m \in D[n]}
  BY <1>1, KeysUnderAre
<1>4. ASSUME NEW n \in Nodes, NEW i \in 1 .. Len(node[n].keys) - 1
      PROVE  node[n].keys[i] <= node[n].keys[i + 1]
  <2>1. i \in 1 .. Len(node[n].keys) /\ i + 1 \in 1 .. Len(node[n].keys) /\ i < i + 1 BY <1>2
  <2> QED BY <1>2, <2>1 DEF Ordered, Nodes
<1>5. ASSUME NEW n \in Nodes, NEW i \in 1 .. Len(node[n].kids), NEW k \in KeysUnder[node[n].kids[i]]
      PROVE  /\ i > 1 => node[n].keys[i - 1] <= k
             /\ i <= Len(node[n].keys) => k <= node[n].keys[i]
  <2> DEFINE c == node[n].kids[i]
  <2>1. c \in Nodes BY <1>2
  <2>2. PICK m \in D[c] : k \in ToSet(node[m].keys) BY <1>3, <1>5, <2>1
  <2>3. m \in Nodes BY <1>2, <2>1
  <2>4. PICK b \in 1 .. Len(node[m].keys) : k = node[m].keys[b]
    <3>1. \A e : e \in ToSet(node[m].keys) <=> \E b \in 1 .. Len(node[m].keys) : e = node[m].keys[b]
      BY <1>0, <2>3, Zenon DEF KidsFacts
    <3> QED BY <2>2, <3>1, Zenon
  <2>5. Fits(node, n, i, node[m].keys[b]) BY <1>2, <2>2, <2>4 DEF Ordered, Nodes
  <2> QED BY <2>4, <2>5 DEF Fits
<1> HIDE DEF KeysUnder
<1> QED BY <1>4, <1>5 DEF SearchOrder

(* Between calls and at every level of a descent the nodes form a balanced *)
(* B-tree within its arrays (lines 83-177), for every even order.          *)
THEOREM AlwaysBalanced == Spec => []Shape
BY BTreeInvariance, InvIsShape, PTL

(* The keys are in search order, for every even order and every sequence   *)
(* of insertions, repeated keys included (lines 72-177).                   *)
THEOREM AlwaysSearchable == Spec => []SearchOrder
BY BTreeInvariance, InvIsOrder, PTL

(***************************************************************************)
(* The tree as a bag of keys.                                              *)
(***************************************************************************)
(* The places of the keys, and those that hold k. *)
IsPlace(N, n, a) == n \in 1 .. Len(N) /\ a \in 1 .. Len(N[n].keys)
At(N, k) == {z \in Nat \X Nat : IsPlace(N, z[1], z[2]) /\ N[z[1]].keys[z[2]] = k}

LEMMA AtFacts ==
  ASSUME NEW N, NEW r, Shaped(N), Filled(N, r)
  PROVE  \A k : IsFiniteSet(At(N, k)) /\ Cardinality(At(N, k)) \in Nat
<1> SUFFICES ASSUME NEW k PROVE IsFiniteSet(At(N, k)) /\ Cardinality(At(N, k)) \in Nat OBVIOUS
<1> DEFINE A == 1 .. Len(N)
           B == 1 .. ORDER
           S == A \X B
           T == At(N, k)
<1>1. Len(N) \in Nat /\ ORDER \in Nat /\ N \in Seq(NodeType) BY Degree DEF Shaped
<1>2. IsFiniteSet(A) /\ IsFiniteSet(B) BY <1>1, FS_Interval
<1>3. T \in SUBSET S
  <2> SUFFICES ASSUME NEW z \in T PROVE z \in S OBVIOUS
  <2>1. z \in Nat \X Nat /\ z[1] \in 1 .. Len(N) /\ z[2] \in 1 .. Len(N[z[1]].keys)
    BY DEF At, IsPlace
  <2>2. Len(N[z[1]].keys) \in Nat /\ Len(N[z[1]].keys) <= ORDER - 1
    BY <1>1, <2>1, KeysAreIntegers DEF Filled
  <2>3. z[2] \in B BY <1>1, <2>1, <2>2
  <2> QED BY <2>1, <2>3
<1> HIDE DEF A, B
<1>4. IsFiniteSet(S) BY <1>2, FS_Product
<1> HIDE DEF S, T
<1>5. IsFiniteSet(T) BY <1>3, <1>4, FS_Subset
<1>6. Cardinality(T) \in Nat BY <1>5, FS_CardinalityType
<1> QED BY <1>5, <1>6 DEF T

Counts(N) == [k \in Key |-> Cardinality(At(N, k))]

LEMMA CopiesAre == Shaped(node) => Copies = Counts(node)
<1> SUFFICES ASSUME Shaped(node), NEW k \in Key
             PROVE  Cardinality(UNION {{n} \X {a \in DOMAIN node[n].keys : node[n].keys[a] = k} :
                                        n \in Nodes})
                      = Cardinality(At(node, k))
  BY DEF Copies, Counts
<1> DEFINE W(n) == {a \in DOMAIN node[n].keys : node[n].keys[a] = k}
           U == UNION {{n} \X W(n) : n \in Nodes}
<1>1. \A n \in Nodes : DOMAIN node[n].keys = 1 .. Len(node[n].keys)
  BY DEF Shaped, Nodes, NodeType
<1>2. ASSUME NEW z \in U PROVE z \in At(node, k)
  <2>1. PICK n \in Nodes : z \in {n} \X W(n) OBVIOUS
  <2>2. z = <<n, z[2]>> /\ z[1] = n /\ z[2] \in W(n) BY <2>1
  <2>3. z[2] \in 1 .. Len(node[n].keys) /\ node[n].keys[z[2]] = k BY <1>1, <2>2
  <2>4. n \in Nat /\ z[2] \in Nat BY <2>3 DEF Nodes
  <2> QED BY <2>2, <2>3, <2>4 DEF At, IsPlace, Nodes
<1>3. ASSUME NEW z \in At(node, k) PROVE z \in U
  <2>1. z = <<z[1], z[2]>> /\ IsPlace(node, z[1], z[2]) /\ node[z[1]].keys[z[2]] = k BY DEF At
  <2>2. z[1] \in Nodes /\ z[2] \in W(z[1]) BY <1>1, <2>1 DEF IsPlace, Nodes
  <2> HIDE DEF W
  <2>3. z \in {z[1]} \X W(z[1]) BY <2>1, <2>2
  <2> QED BY <2>2, <2>3
<1>4. U = At(node, k) BY <1>2, <1>3
<1> QED BY <1>4

(* Two sets with a map there and a map back. *)
LEMMA SameNumber ==
  ASSUME NEW S, NEW T, IsFiniteSet(S), NEW h, NEW g, h \in [S -> T], g \in [T -> S],
         \A e \in S : g[h[e]] = e, \A e \in T : h[g[e]] = e
  PROVE  Cardinality(T) = Cardinality(S)
<1>1. h \in Injection(S, T) BY DEF Injection, IsInjective
<1>2. h \in Surjection(S, T) BY DEF Surjection
<1>3. ExistsBijection(S, T) BY <1>1, <1>2 DEF ExistsBijection, Bijection
<1> QED BY <1>3, FS_Bijection

(***************************************************************************)
(* A split moves keys to new places and loses none.                        *)
(***************************************************************************)
NewNode(n, a, p, c, x) ==
  IF n = c THEN IF a < t THEN c ELSE IF a = t THEN p ELSE x ELSE n
NewSpot(n, a, p, i, c) ==
  IF n = c THEN IF a < t THEN a ELSE IF a = t THEN i ELSE a - t
  ELSE IF n = p /\ a >= i THEN a + 1 ELSE a
PastNode(n, a, p, i, c, x) ==
  IF n = x \/ (n = p /\ a = i) THEN c ELSE n
PastSpot(n, a, p, i, x) ==
  IF n = x THEN t + a ELSE IF n = p THEN IF a = i THEN t ELSE IF a > i THEN a - 1 ELSE a ELSE a

Moved(N, M, p, i, c, x) ==
  \A n, a : IsPlace(N, n, a) =>
    LET m == NewNode(n, a, p, c, x)
        b == NewSpot(n, a, p, i, c)
    IN /\ IsPlace(M, m, b) /\ M[m].keys[b] = N[n].keys[a]
       /\ PastNode(m, b, p, i, c, x) = n /\ PastSpot(m, b, p, i, x) = a

Came(N, M, p, i, c, x) ==
  \A n, a : IsPlace(M, n, a) =>
    LET m == PastNode(n, a, p, i, c, x)
        b == PastSpot(n, a, p, i, x)
    IN /\ IsPlace(N, m, b) /\ N[m].keys[b] = M[n].keys[a]
       /\ NewNode(m, b, p, c, x) = n /\ NewSpot(m, b, p, i, c) = a

LEMMA SplitMoves ==
  ASSUME NEW N, NEW r, NEW D, NEW H, NEW M, NEW p \in Nat, NEW i \in Nat, NEW c \in Nat, NEW x \in Nat,
         Splits(N, r, D, H, M, p, i, c, x)
  PROVE  Moved(N, M, p, i, c, x) /\ Came(N, M, p, i, c, x)
<1> DEFINE l == Len(N[p].keys)
           w == Len(N)
<1>1. /\ w \in Nat /\ x = w + 1 /\ p \in 1 .. w /\ c \in 1 .. w /\ c # p
      /\ l \in Nat /\ i \in 1 .. l + 1
      /\ Len(N[c].keys) = 2 * t - 1 /\ t \in Nat /\ t >= 2
  BY SplitFacts, Degree
<1>2. /\ Len(M) = x
      /\ \A n \in 1 .. w : n # p /\ n # c => M[n] = N[n]
      /\ Len(M[p].keys) = l + 1
      /\ \A a \in 1 .. i - 1 : M[p].keys[a] = N[p].keys[a]
      /\ M[p].keys[i] = N[c].keys[t]
      /\ \A a \in i + 1 .. l + 1 : M[p].keys[a] = N[p].keys[a - 1]
      /\ Len(M[c].keys) = t - 1 /\ Len(M[x].keys) = t - 1
      /\ \A a \in 1 .. t - 1 : M[c].keys[a] = N[c].keys[a] /\ M[x].keys[a] = N[c].keys[t + a]
  BY DEF Splits, Divided
<1> DEFINE There(n, a, m, b) ==
             /\ IsPlace(M, m, b) /\ M[m].keys[b] = N[n].keys[a]
             /\ PastNode(m, b, p, i, c, x) = n /\ PastSpot(m, b, p, i, x) = a
           Back(n, a, m, b) ==
             /\ IsPlace(N, m, b) /\ N[m].keys[b] = M[n].keys[a]
             /\ NewNode(m, b, p, c, x) = n /\ NewSpot(m, b, p, i, c) = a
<1>3. ASSUME NEW n, NEW a, IsPlace(N, n, a)
      PROVE  There(n, a, NewNode(n, a, p, c, x), NewSpot(n, a, p, i, c))
  <2>0. n \in 1 .. w /\ a \in 1 .. Len(N[n].keys) BY <1>3 DEF IsPlace
  <2>1. CASE n = c
    <3>1. a \in 1 .. 2 * t - 1 BY <1>1, <2>0, <2>1
    <3> HIDE DEF w, l
    <3>2. CASE a < t
      <4>1. NewNode(n, a, p, c, x) = c /\ NewSpot(n, a, p, i, c) = a
        BY <2>1, <3>2 DEF NewNode, NewSpot
      <4>2. a \in 1 .. t - 1 /\ c \in 1 .. x /\ c # x BY <1>1, <3>1, <3>2
      <4>3. There(n, a, c, a) BY <1>1, <1>2, <2>1, <4>2 DEF IsPlace, PastNode, PastSpot
      <4> QED BY <4>1, <4>3
    <3>3. CASE a = t
      <4>1. NewNode(n, a, p, c, x) = p /\ NewSpot(n, a, p, i, c) = i
        BY <1>1, <2>1, <3>3 DEF NewNode, NewSpot
      <4>2. p \in 1 .. x /\ p # x /\ i \in 1 .. l + 1 BY <1>1
      <4>3. There(n, a, p, i) BY <1>1, <1>2, <2>1, <3>3, <4>2 DEF IsPlace, PastNode, PastSpot
      <4> QED BY <4>1, <4>3
    <3>4. CASE a > t
      <4> DEFINE b == a - t
      <4>1. NewNode(n, a, p, c, x) = x /\ NewSpot(n, a, p, i, c) = b
        BY <1>1, <2>1, <3>1, <3>4 DEF NewNode, NewSpot
      <4>2. b \in 1 .. t - 1 /\ x \in 1 .. x /\ a = t + b BY <1>1, <3>1, <3>4
      <4> HIDE DEF b
      <4>3. There(n, a, x, b) BY <1>1, <1>2, <2>1, <4>2 DEF IsPlace, PastNode, PastSpot
      <4> QED BY <4>1, <4>3
    <3> QED BY <1>1, <3>1, <3>2, <3>3, <3>4
  <2>2. CASE n = p
    <3>1. a \in 1 .. l /\ n # c BY <1>1, <2>0, <2>2
    <3> HIDE DEF w, l
    <3>2. p \in 1 .. x /\ p # x BY <1>1
    <3>3. CASE a < i
      <4>1. NewNode(n, a, p, c, x) = p /\ NewSpot(n, a, p, i, c) = a
        BY <1>1, <2>2, <3>1, <3>3 DEF NewNode, NewSpot
      <4>2. a \in 1 .. i - 1 /\ a \in 1 .. l + 1 /\ a # i /\ ~ (a > i) BY <1>1, <3>1, <3>3
      <4>3. There(n, a, p, a) BY <1>2, <2>2, <3>2, <4>2 DEF IsPlace, PastNode, PastSpot
      <4> QED BY <4>1, <4>3
    <3>4. CASE a >= i
      <4> DEFINE b == a + 1
      <4>1. NewNode(n, a, p, c, x) = p /\ NewSpot(n, a, p, i, c) = b
        BY <1>1, <2>2, <3>1, <3>4 DEF NewNode, NewSpot
      <4>2. b \in i + 1 .. l + 1 /\ b \in 1 .. l + 1 /\ b # i /\ b > i /\ a = b - 1
        BY <1>1, <3>1, <3>4
      <4> HIDE DEF b
      <4>3. There(n, a, p, b) BY <1>2, <2>2, <3>2, <4>2 DEF IsPlace, PastNode, PastSpot
      <4> QED BY <4>1, <4>3
    <3> QED BY <1>1, <3>1, <3>3, <3>4
  <2>3. CASE n # c /\ n # p
    <3>1. n \in 1 .. x /\ n # x /\ M[n] = N[n] BY <1>1, <1>2, <2>0, <2>3
    <3>2. NewNode(n, a, p, c, x) = n /\ NewSpot(n, a, p, i, c) = a
      BY <2>3 DEF NewNode, NewSpot
    <3>3. There(n, a, n, a) BY <1>2, <2>0, <2>3, <3>1 DEF IsPlace, PastNode, PastSpot
    <3> QED BY <3>2, <3>3
  <2> QED BY <2>1, <2>2, <2>3
<1>4. ASSUME NEW n, NEW a, IsPlace(M, n, a)
      PROVE  Back(n, a, PastNode(n, a, p, i, c, x), PastSpot(n, a, p, i, x))
  <2>0. n \in 1 .. x /\ a \in 1 .. Len(M[n].keys) BY <1>2, <1>4 DEF IsPlace
  <2>1. CASE n = x
    <3>1. a \in 1 .. t - 1 BY <1>2, <2>0, <2>1
    <3> DEFINE b == t + a
    <3>2. PastNode(n, a, p, i, c, x) = c /\ PastSpot(n, a, p, i, x) = b
      BY <2>1 DEF PastNode, PastSpot
    <3>3. b \in 1 .. 2 * t - 1 /\ ~ (b < t) /\ b # t /\ b - t = a /\ M[x].keys[a] = N[c].keys[b]
      BY <1>1, <1>2, <3>1, SMTT(30)
    <3> HIDE DEF b
    <3>4. Back(n, a, c, b) BY <1>1, <2>1, <3>3 DEF IsPlace, NewNode, NewSpot
    <3> QED BY <3>2, <3>4
  <2>2. CASE n = p
    <3> HIDE DEF w, l
    <3>0. n # x /\ n # c BY <1>1, <2>2
    <3>1. a \in 1 .. l + 1 /\ n # x /\ n # c BY <1>2, <2>0, <2>2, <3>0
    <3>2. CASE a = i
      <4>1. PastNode(n, a, p, i, c, x) = c /\ PastSpot(n, a, p, i, x) = t
        BY <2>2, <3>1, <3>2 DEF PastNode, PastSpot
      <4>2. t \in 1 .. 2 * t - 1 BY <1>1
      <4>3. Back(n, a, c, t) BY <1>1, <1>2, <2>2, <3>2, <4>2 DEF IsPlace, NewNode, NewSpot, w
      <4> QED BY <4>1, <4>3
    <3>3. CASE a < i
      <4>1. PastNode(n, a, p, i, c, x) = p /\ PastSpot(n, a, p, i, x) = a
        BY <1>1, <2>2, <3>1, <3>3 DEF PastNode, PastSpot
      <4>2. a \in 1 .. i - 1 /\ a \in 1 .. l /\ ~ (a >= i) BY <1>1, <3>1, <3>3
      <4>3. Back(n, a, p, a) BY <1>1, <1>2, <2>2, <4>2 DEF IsPlace, NewNode, NewSpot, w, l
      <4> QED BY <4>1, <4>3
    <3>4. CASE a > i
      <4> DEFINE b == a - 1
      <4>1. PastNode(n, a, p, i, c, x) = p /\ PastSpot(n, a, p, i, x) = b
        BY <1>1, <2>2, <3>1, <3>4 DEF PastNode, PastSpot
      <4>2. a \in i + 1 .. l + 1 /\ b \in 1 .. l /\ b >= i /\ a = b + 1
        BY <1>1, <3>1, <3>4
      <4>3. M[p].keys[a] = N[p].keys[b] BY <1>2, <4>2
      <4> HIDE DEF b
      <4>4. Back(n, a, p, b) BY <1>1, <2>2, <4>2, <4>3 DEF IsPlace, NewNode, NewSpot, w, l
      <4> QED BY <4>1, <4>4
    <3> QED BY <1>1, <3>1, <3>2, <3>3, <3>4
  <2>3. CASE n = c
    <3>1. a \in 1 .. t - 1 /\ n # x /\ n # p BY <1>1, <1>2, <2>0, <2>3
    <3>2. PastNode(n, a, p, i, c, x) = c /\ PastSpot(n, a, p, i, x) = a
      BY <2>3, <3>1 DEF PastNode, PastSpot
    <3>3. a \in 1 .. 2 * t - 1 /\ a < t BY <1>1, <3>1
    <3>4. Back(n, a, c, a) BY <1>1, <1>2, <2>3, <3>1, <3>3 DEF IsPlace, NewNode, NewSpot
    <3> QED BY <3>2, <3>4
  <2>4. CASE n # x /\ n # p /\ n # c
    <3>1. n \in 1 .. w /\ M[n] = N[n] BY <1>1, <1>2, <2>0, <2>4
    <3>2. PastNode(n, a, p, i, c, x) = n /\ PastSpot(n, a, p, i, x) = a
      BY <2>4 DEF PastNode, PastSpot
    <3>3. Back(n, a, n, a) BY <2>0, <2>4, <3>1 DEF IsPlace, NewNode, NewSpot
    <3> QED BY <3>2, <3>3
  <2> QED BY <2>1, <2>2, <2>3, <2>4
<1>5. Moved(N, M, p, i, c, x) BY <1>3, Zenon DEF Moved
<1>6. Came(N, M, p, i, c, x) BY <1>4, Zenon DEF Came
<1> QED BY <1>5, <1>6

LEMMA SplitCounts ==
  ASSUME NEW N, NEW r, NEW D, NEW H, NEW M, NEW p \in Nat, NEW i \in Nat, NEW c \in Nat, NEW x \in Nat,
         Splits(N, r, D, H, M, p, i, c, x)
  PROVE  \A k : Cardinality(At(M, k)) = Cardinality(At(N, k))
<1> SUFFICES ASSUME NEW k PROVE Cardinality(At(M, k)) = Cardinality(At(N, k)) OBVIOUS
<1> DEFINE S == At(N, k)
           T == At(M, k)
           h == [z \in S |-> <<NewNode(z[1], z[2], p, c, x), NewSpot(z[1], z[2], p, i, c)>>]
           g == [z \in T |-> <<PastNode(z[1], z[2], p, i, c, x), PastSpot(z[1], z[2], p, i, x)>>]
<1>1. Moved(N, M, p, i, c, x) /\ Came(N, M, p, i, c, x) BY SplitMoves
<1>2. /\ Len(N) \in Nat /\ Len(M) = Len(N) + 1
      /\ \A n \in 1 .. Len(N) : Len(N[n].keys) \in Nat
      /\ \A n \in 1 .. Len(M) : Len(M[n].keys) \in Nat
  <2>1. M \in Seq(NodeType) /\ N \in Seq(NodeType)
    BY DEF Splits, Divided, Tree, Shaped
  <2>2. \A n \in 1 .. Len(N) : Len(N[n].keys) \in Nat BY <2>1, KeysAreIntegers
  <2>3. \A n \in 1 .. Len(M) : Len(M[n].keys) \in Nat BY <2>1, KeysAreIntegers
  <2>4. Len(N) \in Nat BY <2>1
  <2>5. x = Len(N) + 1 BY DEF Splits
  <2>6. Len(M) = x BY DEF Splits, Divided
  <2> QED BY ONLY <2>2, <2>3, <2>4, <2>5, <2>6
<1>3. /\ \A n, a : IsPlace(N, n, a) => n \in Nat /\ a \in Nat
      /\ \A n, a : IsPlace(M, n, a) => n \in Nat /\ a \in Nat
  BY <1>2 DEF IsPlace
<1>4. ASSUME NEW z \in S PROVE h[z] \in T /\ g[h[z]] = z
  <2> DEFINE n == z[1]
             a == z[2]
             m == NewNode(n, a, p, c, x)
             b == NewSpot(n, a, p, i, c)
  <2>1. z = <<n, a>> /\ IsPlace(N, n, a) /\ N[n].keys[a] = k BY DEF At
  <2>2. /\ IsPlace(M, m, b) /\ M[m].keys[b] = N[n].keys[a]
        /\ PastNode(m, b, p, i, c, x) = n /\ PastSpot(m, b, p, i, x) = a
    BY <1>1, <2>1, Zenon DEF Moved
  <2>3. h[z] = <<m, b>> OBVIOUS
  <2> HIDE DEF n, a, m, b, h, S
  <2>4. <<m, b>> \in T BY <1>3, <2>1, <2>2 DEF At
  <2>5. g[<<m, b>>] = <<PastNode(m, b, p, i, c, x), PastSpot(m, b, p, i, x)>> BY <2>4
  <2> QED BY <2>1, <2>2, <2>3, <2>4, <2>5
<1>5. ASSUME NEW z \in T PROVE g[z] \in S /\ h[g[z]] = z
  <2> DEFINE n == z[1]
             a == z[2]
             m == PastNode(n, a, p, i, c, x)
             b == PastSpot(n, a, p, i, x)
  <2>1. z = <<n, a>> /\ IsPlace(M, n, a) /\ M[n].keys[a] = k BY DEF At
  <2>2. /\ IsPlace(N, m, b) /\ N[m].keys[b] = M[n].keys[a]
        /\ NewNode(m, b, p, c, x) = n /\ NewSpot(m, b, p, i, c) = a
    BY <1>1, <2>1, Zenon DEF Came
  <2>3. g[z] = <<m, b>> OBVIOUS
  <2> HIDE DEF n, a, m, b, g, T
  <2>4. <<m, b>> \in S BY <1>3, <2>1, <2>2 DEF At
  <2>5. h[<<m, b>>] = <<NewNode(m, b, p, c, x), NewSpot(m, b, p, i, c)>> BY <2>4
  <2> QED BY <2>1, <2>2, <2>3, <2>4, <2>5
<1>6. h = [z \in S |-> h[z]] /\ g = [z \in T |-> g[z]] OBVIOUS
<1>7. IsFiniteSet(S) BY AtFacts DEF Splits, Tree
<1> HIDE DEF S, T, h, g
<1>8. h \in [S -> T] /\ g \in [T -> S] BY <1>4, <1>5, <1>6
<1>9. Cardinality(T) = Cardinality(S) BY <1>4, <1>5, <1>7, <1>8, SameNumber
<1> QED BY <1>9 DEF S, T

(* An insertion in a leaf shifts places and adds one. *)
LEMMA LeafCounts ==
  ASSUME NEW N, NEW r, NEW D, NEW H, Tree(N, r, D, H), NEW k \in Key, NEW c \in Nat,
         Entered(N, D, c, k), N[c].is_leaf
  PROVE  \A y : Cardinality(At(Inserted(N, c, k), y))
                  = Cardinality(At(N, y)) + (IF y = k THEN 1 ELSE 0)
<1> DEFINE M == Inserted(N, c, k)
           pos == Position(N[c], k)
           l == Len(N[c].keys)
<1>1. /\ N \in Seq(NodeType) /\ Len(N) \in Nat /\ c \in 1 .. Len(N)
      /\ \A n \in 1 .. Len(N) : Len(N[n].keys) \in Nat
  <2>1. N \in Seq(NodeType) /\ c \in 1 .. Len(N) BY DEF Tree, Shaped, Entered
  <2> QED BY <2>1, KeysAreIntegers
<1>2. LeafMade(N, M, c, k, pos) BY <1>1, LeafMakes
<1>3. Tree(M, r, D, H) BY LeafTree
<1> HIDE DEF M, pos
<1>4. /\ Len(M) = Len(N) /\ \A n \in 1 .. Len(N) : n # c => M[n] = N[n]
      /\ l \in Nat /\ pos \in 1 .. l + 1 /\ Len(M[c].keys) = l + 1
      /\ \A a \in 1 .. pos - 1 : M[c].keys[a] = N[c].keys[a]
      /\ M[c].keys[pos] = k
      /\ \A a \in pos + 1 .. l + 1 : M[c].keys[a] = N[c].keys[a - 1]
  BY <1>1, <1>2 DEF LeafMade, Extended
<1> HIDE DEF l
<1> SUFFICES ASSUME NEW y
             PROVE  Cardinality(At(M, y)) = Cardinality(At(N, y)) + (IF y = k THEN 1 ELSE 0)
  BY DEF M
<1> DEFINE Up(n, a) == IF n = c /\ a >= pos THEN a + 1 ELSE a
           Down(n, a) == IF n = c /\ a > pos THEN a - 1 ELSE a
           e == <<c, pos>>
           S == At(N, y)
           T == At(M, y) \ {e}
           h == [z \in S |-> <<z[1], Up(z[1], z[2])>>]
           g == [z \in T |-> <<z[1], Down(z[1], z[2])>>]
<1>5. ASSUME NEW n, NEW a, IsPlace(N, n, a)
      PROVE  /\ IsPlace(M, n, Up(n, a)) /\ M[n].keys[Up(n, a)] = N[n].keys[a]
             /\ Down(n, Up(n, a)) = a /\ Up(n, a) \in Nat /\ n \in Nat
             /\ n = c => Up(n, a) # pos
  <2>1. n \in 1 .. Len(N) /\ a \in 1 .. Len(N[n].keys) BY <1>5 DEF IsPlace
  <2>2. CASE n # c
    <3>1. Up(n, a) = a /\ Down(n, a) = a BY <2>2
    <3>2. M[n] = N[n] BY <1>4, <2>1, <2>2
    <3> QED BY <1>1, <1>4, <2>1, <2>2, <3>1, <3>2 DEF IsPlace
  <2>3. CASE n = c
    <3>1. a \in 1 .. l BY <2>1, <2>3 DEF l
    <3>2. CASE a < pos
      <4>1. Up(n, a) = a /\ Down(n, a) = a /\ a \in 1 .. pos - 1 /\ a \in 1 .. l + 1 /\ a # pos
        BY <1>4, <3>1, <3>2
      <4> QED BY <1>1, <1>4, <2>1, <2>3, <4>1 DEF IsPlace
    <3>3. CASE a >= pos
      <4> DEFINE b == a + 1
      <4>1. /\ Up(n, a) = b /\ Down(n, b) = a /\ b \in pos + 1 .. l + 1 /\ b \in 1 .. l + 1
            /\ b # pos /\ b - 1 = a
        BY <1>4, <2>3, <3>1, <3>3
      <4> HIDE DEF b
      <4>2. M[n].keys[b] = N[n].keys[a] BY <1>4, <2>3, <4>1
      <4>3. IsPlace(M, n, b) BY <1>1, <1>4, <2>3, <4>1 DEF IsPlace
      <4>4. b \in Nat /\ n \in Nat BY <1>1, <2>3, <4>1
      <4> HIDE DEF Up, Down
      <4> QED BY ONLY <4>1, <4>2, <4>3, <4>4
    <3> QED BY <1>4, <3>1, <3>2, <3>3
  <2> QED BY <2>2, <2>3
<1>6. ASSUME NEW n, NEW a, IsPlace(M, n, a), ~ (n = c /\ a = pos)
      PROVE  /\ IsPlace(N, n, Down(n, a)) /\ N[n].keys[Down(n, a)] = M[n].keys[a]
             /\ Up(n, Down(n, a)) = a /\ Down(n, a) \in Nat /\ n \in Nat
  <2>1. n \in 1 .. Len(N) /\ a \in 1 .. Len(M[n].keys) BY <1>4, <1>6 DEF IsPlace
  <2>2. CASE n # c
    <3>1. Up(n, a) = a /\ Down(n, a) = a BY <2>2
    <3>2. M[n] = N[n] BY <1>4, <2>1, <2>2
    <3> QED BY <1>1, <1>4, <2>1, <2>2, <3>1, <3>2 DEF IsPlace
  <2>3. CASE n = c
    <3>1. a \in 1 .. l + 1 /\ a # pos BY <1>4, <1>6, <2>1, <2>3
    <3>2. CASE a < pos
      <4>1. Up(n, a) = a /\ Down(n, a) = a /\ a \in 1 .. pos - 1 /\ a \in 1 .. l
        BY <1>4, <3>1, <3>2
      <4> QED BY <1>1, <1>4, <2>1, <2>3, <4>1 DEF IsPlace, l
    <3>3. CASE a > pos
      <4> DEFINE b == a - 1
      <4>1. Down(n, a) = b /\ Up(n, b) = a /\ b \in 1 .. l /\ a \in pos + 1 .. l + 1
        BY <1>4, <2>3, <3>1, <3>3
      <4>2. M[n].keys[a] = N[n].keys[b] BY <1>4, <2>3, <4>1
      <4> HIDE DEF b
      <4>3. IsPlace(N, n, b) BY <1>1, <2>3, <4>1 DEF IsPlace, l
      <4>4. b \in Nat /\ n \in Nat BY <1>1, <2>3, <4>1
      <4> HIDE DEF Up, Down
      <4> QED BY ONLY <4>1, <4>2, <4>3, <4>4
    <3> QED BY <1>4, <3>1, <3>2, <3>3
  <2> QED BY <2>2, <2>3
<1> HIDE DEF Up, Down
<1>7. ASSUME NEW z \in S PROVE h[z] \in T /\ g[h[z]] = z
  <2> DEFINE n == z[1]
             a == z[2]
             b == Up(n, a)
  <2>1. z = <<n, a>> /\ IsPlace(N, n, a) /\ N[n].keys[a] = y BY DEF At
  <2>2. /\ IsPlace(M, n, b) /\ M[n].keys[b] = N[n].keys[a]
        /\ Down(n, b) = a /\ b \in Nat /\ n \in Nat /\ (n = c => b # pos)
    BY <1>5, <2>1, Zenon
  <2>3. h[z] = <<n, b>> OBVIOUS
  <2> HIDE DEF n, a, b, h, S
  <2>4. <<n, b>> \in T BY <2>1, <2>2 DEF At
  <2>5. g[<<n, b>>] = <<n, Down(n, b)>> BY <2>4
  <2> QED BY <2>1, <2>2, <2>3, <2>4, <2>5
<1>8. ASSUME NEW z \in T PROVE g[z] \in S /\ h[g[z]] = z
  <2> DEFINE n == z[1]
             a == z[2]
             b == Down(n, a)
  <2>1. z = <<n, a>> /\ IsPlace(M, n, a) /\ M[n].keys[a] = y /\ ~ (n = c /\ a = pos) BY DEF At
  <2>2. /\ IsPlace(N, n, b) /\ N[n].keys[b] = M[n].keys[a]
        /\ Up(n, b) = a /\ b \in Nat /\ n \in Nat
    BY <1>6, <2>1, Zenon
  <2>3. g[z] = <<n, b>> OBVIOUS
  <2> HIDE DEF n, a, b, g, T
  <2>4. <<n, b>> \in S BY <2>1, <2>2 DEF At
  <2>5. h[<<n, b>>] = <<n, Up(n, b)>> BY <2>4
  <2> QED BY <2>1, <2>2, <2>3, <2>4, <2>5
<1>9. h = [z \in S |-> h[z]] /\ g = [z \in T |-> g[z]] OBVIOUS
<1>10. IsFiniteSet(S) /\ Cardinality(S) \in Nat BY AtFacts DEF Tree
<1>11. IsFiniteSet(At(M, y)) /\ Cardinality(At(M, y)) \in Nat BY <1>3, AtFacts DEF Tree
<1>12. Cardinality(T) = IF e \in At(M, y) THEN Cardinality(At(M, y)) - 1 ELSE Cardinality(At(M, y))
  BY <1>11, FS_RemoveElement
<1>13. e \in At(M, y) <=> y = k
  <2>1. e[1] = c /\ e[2] = pos /\ e \in Nat \X Nat BY <1>4
  <2>2. IsPlace(M, c, pos) BY <1>1, <1>4 DEF IsPlace
  <2> HIDE DEF e
  <2> QED BY <1>4, <2>1, <2>2 DEF At
<1> HIDE DEF S, T, h, g, e
<1>14. h \in [S -> T] /\ g \in [T -> S] BY <1>7, <1>8, <1>9
<1>15. Cardinality(T) = Cardinality(S) BY <1>7, <1>8, <1>10, <1>14, SameNumber
<1>16. S = At(N, y) BY DEF S
<1> QED BY ONLY <1>10, <1>11, <1>12, <1>13, <1>15, <1>16

(***************************************************************************)
(* A search: the nodes that hold its key are below the node it has come    *)
(* to.                                                                     *)
(***************************************************************************)
Holds(N, n, k) == \E a \in 1 .. Len(N[n].keys) : N[n].keys[a] = k

LEMMA Bounded ==
  ASSUME NEW w \in Nat, NEW H \in [1 .. w -> Nat]
  PROVE  \E b \in Nat : \A n \in 1 .. w : H[n] <= b
<1> DEFINE Bound(m) == \E b \in Nat : \A n \in 1 .. m : H[n] <= b
           T == {m \in Nat : m <= w /\ ~ Bound(m)}
<1>1. Bound(0)
  <2>1. \A n \in 1 .. 0 : H[n] <= 0 OBVIOUS
  <2> QED BY <2>1
<1>2. ASSUME NEW m \in Nat, m < w, Bound(m) PROVE Bound(m + 1)
  <2>1. PICK b \in Nat : \A n \in 1 .. m : H[n] <= b BY <1>2
  <2> DEFINE d == IF H[m + 1] <= b THEN b ELSE H[m + 1]
  <2>2. m + 1 \in 1 .. w /\ H[m + 1] \in Nat BY <1>2
  <2>3. d \in Nat /\ b <= d /\ H[m + 1] <= d BY <2>2
  <2> HIDE DEF d
  <2>4. \A n \in 1 .. m + 1 : H[n] <= d
    <3> SUFFICES ASSUME NEW n \in 1 .. m + 1 PROVE H[n] <= d OBVIOUS
    <3>1. CASE n = m + 1 BY <2>3, <3>1
    <3>2. CASE n # m + 1
      <4>1. n \in 1 .. m /\ n \in 1 .. w BY <1>2, <3>2
      <4>2. H[n] \in Nat /\ H[n] <= b BY <2>1, <4>1
      <4> QED BY <2>3, <4>2
    <3> QED BY <3>1, <3>2
  <2> QED BY <2>3, <2>4
<1> HIDE DEF Bound
<1>3. SUFFICES ASSUME ~ Bound(w) PROVE FALSE BY DEF Bound
<1>4. w \in T /\ T \in SUBSET Nat BY <1>3
<1>5. PICK m \in T : \A q \in T : m <= q BY <1>4, LeastNumber
<1>6. m # 0 /\ m - 1 \in Nat /\ m - 1 < w BY <1>1, <1>5
<1>7. m - 1 \notin T BY <1>5, <1>6
<1>8. Bound(m - 1) BY <1>6, <1>7
<1> DEFINE o == m - 1
<1>9. o \in Nat /\ o < w /\ Bound(o) /\ o + 1 = m BY <1>5, <1>6, <1>8
<1> HIDE DEF o
<1>10. Bound(m) BY <1>2, <1>9
<1> QED BY <1>5, <1>10

(* All the nodes are below the root. *)
LEMMA AllBelow ==
  ASSUME NEW N, NEW r, NEW D, NEW H, Tree(N, r, D, H)
  PROVE  \A n \in 1 .. Len(N) : n \in D[r]
<1>1. /\ Shaped(N) /\ Placed(N, r) /\ Leveled(N, H) /\ Below(N, D)
      /\ Len(N) \in Nat /\ H \in [1 .. Len(N) -> Nat] /\ D \in [1 .. Len(N) -> SUBSET (1 .. Len(N))]
      /\ r \in 1 .. Len(N)
  BY DEF Tree, Shaped, Placed, Leveled, Below
<1> DEFINE U == {m \in 1 .. Len(N) : m \notin D[r]}
           T == {h \in Nat : \E m \in U : H[m] = h}
<1> SUFFICES ASSUME U # {} PROVE FALSE OBVIOUS
<1>2. PICK b \in Nat : \A n \in 1 .. Len(N) : H[n] <= b BY <1>1, Bounded
<1>3. T \in SUBSET Nat /\ T # {} /\ \A h \in T : h <= b BY <1>1, <1>2
<1> HIDE DEF T
<1>4. Greatest(T) \in T /\ \A h \in T : h <= Greatest(T) BY <1>3, GreatestFacts
<1>5. PICK m \in U : H[m] = Greatest(T) BY <1>4 DEF T
<1>6. Lower(N, D, H, r) BY <1>1, Descent
<1>7. m \in 1 .. Len(N) /\ m \notin D[r] /\ m # r BY <1>6 DEF Lower
<1> DEFINE Child(n) == \E a \in 1 .. Len(N[n].kids) : m = N[n].kids[a]
<1>8. \E n \in 1 .. Len(N) : Child(n) BY <1>1, <1>7 DEF Placed
<1> HIDE DEF Child
<1>9. PICK n \in 1 .. Len(N) : Child(n) BY <1>8
<1>10. PICK a \in 1 .. Len(N[n].kids) : m = N[n].kids[a] BY <1>9 DEF Child
<1>11. H[n] = H[m] + 1 BY <1>1, <1>10 DEF Leveled
<1>12. H[n] \in Nat /\ H[m] \in Nat BY <1>1, <1>7
<1>13. n \in D[r]
  <2> SUFFICES ASSUME n \notin D[r] PROVE FALSE OBVIOUS
  <2>1. n \in U OBVIOUS
  <2>2. H[n] \in T BY <1>12, <2>1 DEF T
  <2>3. H[n] <= H[m] BY <1>4, <1>5, <2>2
  <2> QED BY <1>11, <1>12, <2>3
<1>14. m \in D[n]
  <2>1. Lower(N, D, H, m) BY <1>1, <1>7, Descent
  <2>2. m \in D[N[n].kids[a]] BY <1>10, <2>1 DEF Lower
  <2> QED BY <1>1, <1>7, <2>2 DEF Below
<1>15. m \in D[r] BY <1>6, <1>13, <1>14 DEF Lower
<1> QED BY <1>7, <1>15

(* The scan of a node finds the key when it is there. *)
LEMMA HitFacts ==
  ASSUME NEW N, NEW D, N \in Seq(NodeType), Ordered(N, D), NEW c \in 1 .. Len(N), NEW k \in Key
  PROVE  Hit(N[c], k) <=> Holds(N, c, k)
<1> DEFINE q == N[c]
           s == N[c].keys
           i == Scan(q, k)
<1>1. q \in NodeType OBVIOUS
<1>2. s \in Seq(Key) BY <1>1 DEF NodeType
<1>3. /\ Len(s) \in Nat /\ k \in Int
      /\ \A a \in 1 .. Len(s) : s[a] \in Int
      /\ \A a \in 1 .. Len(s), b \in 1 .. Len(s) : a < b => s[a] <= s[b]
  BY KeysAreIntegers, Degree DEF Ordered
<1>4. q.keys = s OBVIOUS
<1> HIDE DEF q
<1>5. /\ i \in 1 .. Len(s) + 1
      /\ \A x \in 1 .. i - 1 : s[x] < k
      /\ i <= Len(s) => k <= s[i]
  BY <1>2, <1>4, ScanFacts
<1>6. Hit(q, k) <=> i <= Len(s) /\ k = s[i] BY <1>4 DEF Hit
<1> HIDE DEF s, i
<1>7. ASSUME Hit(q, k) PROVE \E a \in 1 .. Len(s) : s[a] = k
  <2>1. i \in 1 .. Len(s) /\ s[i] = k BY <1>3, <1>5, <1>6, <1>7
  <2> QED BY <2>1
<1>8. ASSUME NEW a \in 1 .. Len(s), s[a] = k PROVE Hit(q, k)
  <2>1. a >= i
    <3> SUFFICES ASSUME a < i PROVE FALSE BY <1>5
    <3>1. a \in 1 .. i - 1 BY <1>5
    <3>2. s[a] < k BY <1>5, <3>1
    <3> QED BY <1>3, <1>8, <3>2
  <2>2. i \in 1 .. Len(s) /\ k <= s[i] BY <1>3, <1>5, <2>1
  <2>3. s[i] <= s[a] BY <1>3, <2>1, <2>2
  <2>4. s[i] = k BY <1>3, <1>8, <2>2, <2>3
  <2> QED BY <1>6, <2>2, <2>4
<1> QED BY <1>7, <1>8 DEF Holds, q, s

(* One level of a search: the key can only be under the child it enters.   *)
LEMMA SeekDown ==
  ASSUME NEW N, NEW r, NEW D, NEW H, Tree(N, r, D, H), NEW c \in 1 .. Len(N), NEW k \in Key,
         ~ Hit(N[c], k), ~ N[c].is_leaf,
         \A n \in 1 .. Len(N) : Holds(N, n, k) => n \in D[c]
  PROVE  \A n \in 1 .. Len(N) : Holds(N, n, k) => n \in D[N[c].kids[Scan(N[c], k)]]
<1> DEFINE q == N[c]
           s == N[c].keys
           i == Scan(q, k)
<1>1. Shaped(N) /\ Filled(N, r) /\ Below(N, D) /\ Ordered(N, D) /\ N \in Seq(NodeType)
  BY DEF Tree, Shaped
<1>2. q \in NodeType BY <1>1
<1>3. s \in Seq(Key) BY <1>2 DEF NodeType
<1>4. /\ Len(s) \in Nat /\ k \in Int
      /\ \A a \in 1 .. Len(s) : s[a] \in Int
      /\ \A a \in 1 .. Len(s), b \in 1 .. Len(s) : a < b => s[a] <= s[b]
      /\ Len(N[c].kids) = Len(s) + 1
  BY <1>1, KeysAreIntegers, Degree DEF Ordered, Filled
<1>5. q.keys = s OBVIOUS
<1>6. ~ Hit(q, k) OBVIOUS
<1> HIDE DEF q
<1>7. /\ i \in 1 .. Len(s) + 1
      /\ \A x \in 1 .. i - 1 : s[x] < k
      /\ i <= Len(s) => k <= s[i] /\ k # s[i]
  BY <1>3, <1>5, <1>6, ScanFacts DEF Hit
<1> HIDE DEF i
<1> SUFFICES ASSUME NEW n \in 1 .. Len(N), Holds(N, n, k) PROVE n \in D[N[c].kids[i]]
  BY DEF i, q
<1>8. n # c
  <2>1. ~ Holds(N, c, k) BY <1>1, HitFacts
  <2> QED BY <2>1
<1>9. n \in D[c] OBVIOUS
<1>10. PICK b \in 1 .. Len(N[c].kids) : n \in D[N[c].kids[b]] BY <1>1, <1>8, <1>9 DEF Below
<1>11. PICK a \in 1 .. Len(N[n].keys) : N[n].keys[a] = k BY DEF Holds
<1>12. Fits(N, c, b, k) BY <1>1, <1>10, <1>11 DEF Ordered
<1>13. /\ b \in 1 .. Len(s) + 1
       /\ b > 1 => s[b - 1] <= k
       /\ b <= Len(s) => k <= s[b]
  BY <1>4, <1>12 DEF Fits
<1> HIDE DEF s
<1>14. ~ (b < i)
  <2> SUFFICES ASSUME b < i PROVE FALSE OBVIOUS
  <2>1. b \in 1 .. i - 1 /\ b \in 1 .. Len(s) BY <1>4, <1>7, <1>13
  <2>2. s[b] < k /\ k <= s[b] /\ s[b] \in Int BY <1>4, <1>7, <1>13, <2>1
  <2> QED BY <1>4, <2>2
<1>15. ~ (b > i)
  <2> SUFFICES ASSUME b > i PROVE FALSE OBVIOUS
  <2> DEFINE o == b - 1
  <2>1. o \in 1 .. Len(s) /\ i \in 1 .. Len(s) /\ (i = o \/ i < o) /\ b > 1 BY <1>4, <1>7, <1>13
  <2>2. s[o] <= k BY <1>13, <2>1
  <2> HIDE DEF o
  <2>3. s[i] <= s[o] /\ s[i] \in Int /\ s[o] \in Int BY <1>4, <2>1
  <2>4. k <= s[i] /\ k # s[i] BY <1>7, <2>1
  <2> QED BY <1>4, <2>2, <2>3, <2>4
<1>16. b = i BY <1>7, <1>13, <1>14, <1>15
<1> QED BY <1>10, <1>16

Seeking(N, r, c, k) ==
  \E D, H : /\ Tree(N, r, D, H)
            /\ \A n \in 1 .. Len(N) : Holds(N, n, k) => n \in D[c]

SearchInv == pc = "search" => Seeking(node, root, cur, key)

LEMMA SearchStep == BTreeInv /\ SearchInv /\ [Next]_vars => SearchInv'
<1> SUFFICES ASSUME BTreeInv, SearchInv, [Next]_vars, pc' = "search"
             PROVE  Seeking(node', root', cur', key')
  BY DEF SearchInv
<1>1. ASSUME NEW k \in Key, btree_search(k) PROVE Seeking(node', root', cur', key')
  <2>1. node' = node /\ root' = root /\ cur' = root BY <1>1 DEF btree_search
  <2>2. PICK D, H : Tree(node, root, D, H) BY BTreeFacts DEF Sound
  <2>3. \A n \in 1 .. Len(node) : n \in D[root] BY <2>2, AllBelow
  <2> QED BY <2>1, <2>2, <2>3 DEF Seeking
<1>2. CASE SearchDescends
  <2> DEFINE kid == node[cur].kids[Scan(node[cur], key)]
  <2>1. /\ node' = node /\ root' = root /\ key' = key /\ cur' = kid /\ pc = "search"
        /\ ~ Hit(node[cur], key) /\ ~ node[cur].is_leaf
    BY <1>2 DEF SearchDescends
  <2>2. PICK D, H : /\ Tree(node, root, D, H)
                    /\ \A n \in 1 .. Len(node) : Holds(node, n, key) => n \in D[cur]
    BY <2>1 DEF SearchInv, Seeking
  <2>3. \A n \in 1 .. Len(node) : Holds(node, n, key) => n \in D[kid]
    BY <2>1, <2>2, BTreeFacts, SeekDown
  <2> HIDE DEF kid
  <2> QED BY <2>1, <2>2, <2>3 DEF Seeking
<1>3. CASE Stopped \/ UNCHANGED vars
  <2>1. UNCHANGED vars BY <1>3 DEF Stopped
  <2> QED BY <2>1 DEF vars, SearchInv
<1>4. CASE \/ \E k \in Key : btree_insert(k)
           \/ UseRoot \/ GrowRoot \/ InsertInLeaf \/ Descend \/ SearchEnds \/ CallocFails
  BY <1>4 DEF btree_insert, UseRoot, GrowRoot, InsertInLeaf, Descend, SearchEnds, CallocFails
<1> QED BY <1>1, <1>2, <1>3, <1>4 DEF Next, Call, Step

(* No step of a search leaves a copy of its key behind (btree_search).     *)
THEOREM SearchInvariance == Spec => []SearchInv
<1>1. Init => SearchInv BY DEF Init, SearchInv
<1> QED BY <1>1, SearchStep, BTreeInvariance, PTL DEF Spec

(***************************************************************************)
(* The refinement.                                                         *)
(***************************************************************************)
LEMMA InvShaped == BTreeInv => Shaped(node)
BY BTreeFacts DEF Sound, Tree

LEMMA GrowRootCounts ==
  ASSUME BTreeInv, GrowRoot
  PROVE  Counts(node') = Counts(node)
<1> DEFINE q == Len(node) + 1
           new == [keys |-> <<>>, kids |-> <<root>>, is_leaf |-> FALSE]
           N == Append(node, new)
           M == Split(N, q, 1)
<1>1. IsFull(node[root]) /\ node' = M BY DEF GrowRoot
<1>2. PICK D, H : Tree(node, root, D, H) BY BTreeFacts DEF Sound
<1>3. root \in Nat /\ Len(node) \in Nat /\ node \in Seq(NodeType)
  BY <1>2, BTreeFacts DEF Tree, Shaped
<1>4. /\ \E E, G : Tree(N, q, E, G)
      /\ Len(N) = q /\ N[q].keys = <<>> /\ N[q].kids = <<root>>
      /\ N[root] = node[root] /\ root \in 1 .. Len(node)
  <2>1. N = Append(node, [keys |-> <<>>, kids |-> <<root>>, is_leaf |-> FALSE]) OBVIOUS
  <2> HIDE DEF N
  <2> QED BY <1>1, <1>2, <1>3, <2>1, GrownTree
<1>5. \A n \in 1 .. Len(node) : N[n] = node[n]
  <2> HIDE DEF new
  <2> QED BY <1>3
<1> HIDE DEF N
<1>6. PICK E, G : Tree(N, q, E, G) BY <1>4
<1>7. q \in Nat /\ q = Len(node) + 1 BY <1>3
<1> HIDE DEF q
<1>8. Len(N[q].kids) = 1 /\ N[q].kids[1] = root /\ Len(N[q].keys) = 0
  <2> DEFINE u == <<root>>
  <2>1. Len(u) = 1 /\ u[1] = root OBVIOUS
  <2>2. N[q].kids = u BY <1>4
  <2> HIDE DEF u
  <2>3. Len(N[q].kids) = 1 /\ N[q].kids[1] = root BY <2>1, <2>2
  <2>4. Len(N[q].keys) = 0 BY <1>4
  <2> QED BY <2>3, <2>4
<1>9. \A k : At(N, k) = At(node, k)
  <2>1. \A n, a : IsPlace(N, n, a) <=> IsPlace(node, n, a)
    <3> SUFFICES ASSUME NEW n, NEW a PROVE IsPlace(N, n, a) <=> IsPlace(node, n, a) OBVIOUS
    <3>1. CASE n \in 1 .. Len(node)
      <4>1. n \in 1 .. Len(N) /\ N[n] = node[n] BY <1>3, <1>4, <1>5, <1>7, <3>1
      <4> QED BY <3>1, <4>1 DEF IsPlace
    <3>2. CASE n \notin 1 .. Len(node)
      <4>1. n \in 1 .. Len(N) => n = q BY <1>3, <1>4, <1>7, <3>2
      <4>2. a \notin 1 .. Len(N[q].keys) BY <1>8
      <4> QED BY <3>2, <4>1, <4>2 DEF IsPlace
    <3> QED BY <3>1, <3>2
  <2>2. \A n, a : IsPlace(node, n, a) => N[n] = node[n] BY <1>5 DEF IsPlace
  <2> QED BY <2>1, <2>2 DEF At
<1> DEFINE x == Len(N) + 1
<1>10. x \in Nat /\ 1 \in 1 .. Len(N[q].kids) /\ root = N[q].kids[1] /\ IsFull(N[root])
       /\ Len(N[q].keys) < ORDER - 1 /\ x = Len(N) + 1 /\ q \in 1 .. Len(N)
  BY <1>1, <1>3, <1>4, <1>7, <1>8, Degree
<1> HIDE DEF x, M
<1>11. Splits(N, q, E, G, M, q, 1, root, x)
  BY <1>3, <1>6, <1>7, <1>10, SplitSplits DEF M
<1>12. \A k : Cardinality(At(M, k)) = Cardinality(At(N, k))
  BY <1>3, <1>7, <1>10, <1>11, SplitCounts
<1> QED BY <1>1, <1>9, <1>12 DEF Counts

LEMMA DescendCounts ==
  ASSUME BTreeInv, Descend
  PROVE  Counts(node') = Counts(node)
<1> DEFINE i == Position(node[cur], key)
           c == node[cur].kids[i]
           x == Len(node) + 1
           M == Split(node, cur, i)
<1>1. /\ pc = "nonfull" /\ ~ node[cur].is_leaf
      /\ node' = IF IsFull(node[c]) THEN M ELSE node
  BY DEF Descend
<1>2. PICK D, H : Tree(node, root, D, H) /\ Entered(node, D, cur, key)
  BY <1>1, BTreeFacts DEF Sound
<1>3. /\ cur \in Nat /\ cur \in 1 .. Len(node) /\ key \in Key
      /\ node \in Seq(NodeType) /\ Len(node) \in Nat /\ Filled(node, root)
      /\ \A n \in 1 .. Len(node) : \A a \in 1 .. Len(node[n].kids) : node[n].kids[a] \in 1 .. Len(node)
  BY <1>2, BTreeFacts DEF Tree, Shaped
<1>4. i \in 1 .. Len(node[cur].keys) + 1
  <2> DEFINE n == node[cur]
  <2>1. n \in NodeType BY <1>3
  <2> HIDE DEF n
  <2>2. n.keys \in Seq(Key) BY <2>1 DEF NodeType
  <2>3. Position(n, key) \in 1 .. Len(n.keys) + 1 BY <1>3, <2>2, PositionFacts
  <2> QED BY <2>3 DEF n
<1> HIDE DEF i
<1>5. Len(node[cur].keys) \in Nat /\ Len(node[cur].kids) = Len(node[cur].keys) + 1
  BY <1>1, <1>3, KeysAreIntegers DEF Filled
<1>6. i \in Nat /\ i \in 1 .. Len(node[cur].kids) BY <1>4, <1>5
<1>7. c \in Nat /\ x \in Nat /\ c = node[cur].kids[i] /\ x = Len(node) + 1
  <2>1. c \in 1 .. Len(node) BY <1>3, <1>6
  <2> QED BY <1>3, <2>1
<1>8. Len(node[cur].keys) < ORDER - 1 BY <1>2 DEF Entered
<1> HIDE DEF c, x, M
<1>9. CASE IsFull(node[c])
  <2>1. Splits(node, root, D, H, M, cur, i, c, x)
    BY <1>2, <1>3, <1>6, <1>7, <1>8, <1>9, SplitSplits DEF M
  <2>2. \A k : Cardinality(At(M, k)) = Cardinality(At(node, k))
    BY <1>3, <1>6, <1>7, <2>1, SplitCounts
  <2> QED BY <1>1, <1>9, <2>2 DEF Counts
<1>10. CASE ~ IsFull(node[c]) BY <1>1, <1>10
<1> QED BY <1>9, <1>10

LEMMA InsertCounts ==
  ASSUME BTreeInv, InsertInLeaf
  PROVE  Counts(node') = [Counts(node) EXCEPT ![key] = @ + 1]
<1> DEFINE M == Inserted(node, cur, key)
<1>1. pc = "nonfull" /\ node[cur].is_leaf /\ node' = M BY DEF InsertInLeaf, Inserted
<1>2. PICK D, H : Tree(node, root, D, H) /\ Entered(node, D, cur, key)
  BY <1>1, BTreeFacts DEF Sound
<1>3. cur \in Nat /\ key \in Key BY BTreeFacts
<1>4. \A y : Cardinality(At(M, y)) = Cardinality(At(node, y)) + (IF y = key THEN 1 ELSE 0)
  BY <1>1, <1>2, <1>3, LeafCounts
<1>5. \A y : Cardinality(At(node, y)) \in Nat BY <1>2, AtFacts DEF Tree
<1> HIDE DEF M
<1> DEFINE C == Counts(node)
           B == Counts(M)
<1>6. C = [y \in Key |-> C[y]] /\ \A y \in Key : C[y] = Cardinality(At(node, y)) BY DEF Counts
<1>7. B = [y \in Key |-> B[y]] /\ \A y \in Key : B[y] = Cardinality(At(M, y)) BY DEF Counts
<1> HIDE DEF B, C
<1>8. \A y \in Key : B[y] = IF y = key THEN C[key] + 1 ELSE C[y] BY <1>3, <1>4, <1>5, <1>6, <1>7
<1>9. [C EXCEPT ![key] = @ + 1] = [y \in Key |-> IF y = key THEN C[key] + 1 ELSE C[y]]
  BY ONLY <1>3, <1>6
<1>10. B = [C EXCEPT ![key] = @ + 1] BY ONLY <1>7, <1>8, <1>9
<1> QED BY <1>1, <1>10 DEF B, C

(* At its end a search knows whether its key is in the tree. *)
LEMMA SearchCounts ==
  ASSUME BTreeInv, SearchInv, SearchEnds
  PROVE  Hit(node[cur], key) <=> Counts(node)[key] > 0
<1>1. pc = "search" /\ (Hit(node[cur], key) \/ node[cur].is_leaf) BY DEF SearchEnds
<1>2. PICK D, H : /\ Tree(node, root, D, H)
                  /\ \A n \in 1 .. Len(node) : Holds(node, n, key) => n \in D[cur]
  BY <1>1 DEF SearchInv, Seeking
<1>3. cur \in 1 .. Len(node) /\ key \in Key BY BTreeFacts
<1>4. Shaped(node) /\ Filled(node, root) /\ Below(node, D) /\ Ordered(node, D) /\ node \in Seq(NodeType)
  BY <1>2 DEF Tree, Shaped
<1>5. Hit(node[cur], key) <=> Holds(node, cur, key) BY <1>3, <1>4, HitFacts
<1> DEFINE S == At(node, key)
<1>6. IsFiniteSet(S) /\ Cardinality(S) \in Nat BY <1>4, AtFacts
<1>7. Counts(node)[key] = Cardinality(S) BY <1>3 DEF Counts
<1>8. ASSUME Holds(node, cur, key) PROVE S # {}
  <2>1. PICK a \in 1 .. Len(node[cur].keys) : node[cur].keys[a] = key BY <1>8 DEF Holds
  <2>2. a \in Nat /\ cur \in Nat BY <1>3
  <2>3. <<cur, a>> \in S BY <1>3, <2>1, <2>2 DEF At, IsPlace
  <2> QED BY <2>3
<1>9. ASSUME S # {} PROVE Holds(node, cur, key)
  <2>1. PICK z \in S : TRUE BY <1>9
  <2>2. z[1] \in 1 .. Len(node) /\ z[2] \in 1 .. Len(node[z[1]].keys) /\ node[z[1]].keys[z[2]] = key
    BY <2>1 DEF At, IsPlace
  <2>3. Holds(node, z[1], key) BY <2>2 DEF Holds
  <2>4. z[1] \in D[cur] BY <1>2, <2>2, <2>3
  <2>5. CASE node[cur].is_leaf
    <3>1. Len(node[cur].kids) = 0 BY <1>3, <1>4, <2>5 DEF Filled
    <3>2. z[1] = cur BY <1>3, <1>4, <2>2, <2>4, <3>1 DEF Below
    <3> QED BY <2>3, <3>2
  <2>6. CASE Hit(node[cur], key) BY <1>5, <2>6
  <2> QED BY <1>1, <2>5, <2>6
<1> HIDE DEF S
<1>10. S # {} <=> Cardinality(S) > 0 BY <1>6, FS_EmptySet
<1> QED BY <1>5, <1>7, <1>8, <1>9, <1>10

LEMMA IndexStep ==
  BTreeInv /\ BTreeInv' /\ SearchInv /\ [Next]_vars => [Index!Next]_(Index!indexVars)
<1> SUFFICES ASSUME BTreeInv, BTreeInv', SearchInv, [Next]_vars
             PROVE  [Index!Next]_(Index!indexVars)
  OBVIOUS
<1>1. Copies = Counts(node) BY InvShaped, CopiesAre
<1>2. Copies' = Counts(node')
  <2>1. (BTreeInv => Copies = Counts(node))' BY InvShaped, CopiesAre, PTL
  <2> QED BY <2>1 DEF Counts
<1>3. node' = node => Copies' = Copies BY <1>1, <1>2
<1>4. key \in Key BY BTreeFacts
<1>5. ASSUME NEW k \in Key, btree_insert(k) PROVE Index!Ask(k)
  <2>1. /\ pc = "ready" /\ pc' = "insert" /\ key' = k /\ node' = node /\ answer' = answer
    BY <1>5 DEF btree_insert
  <2>2. Asked = {} /\ Asked' = {k} BY <2>1 DEF Asked
  <2> QED BY <1>3, <2>1, <2>2 DEF Index!Ask
<1>6. CASE UseRoot
  <2>1. /\ pc = "insert" /\ pc' = "nonfull" /\ key' = key /\ node' = node /\ answer' = answer
    BY <1>6 DEF UseRoot
  <2>2. Asked' = Asked BY <2>1 DEF Asked
  <2> QED BY <1>3, <2>1, <2>2 DEF Index!indexVars
<1>7. CASE GrowRoot
  <2>1. pc = "insert" /\ pc' = "nonfull" /\ key' = key /\ answer' = answer BY <1>7 DEF GrowRoot
  <2>2. Asked' = Asked BY <2>1 DEF Asked
  <2>3. Copies' = Copies BY <1>1, <1>2, <1>7, GrowRootCounts
  <2> QED BY <2>1, <2>2, <2>3 DEF Index!indexVars
<1>8. CASE Descend
  <2>1. pc' = pc /\ key' = key /\ answer' = answer BY <1>8 DEF Descend
  <2>2. Asked' = Asked BY <2>1 DEF Asked
  <2>3. Copies' = Copies BY <1>1, <1>2, <1>8, DescendCounts
  <2> QED BY <2>1, <2>2, <2>3 DEF Index!indexVars
<1>9. CASE InsertInLeaf
  <2>1. pc = "nonfull" /\ pc' = "ready" /\ answer' = answer BY <1>9 DEF InsertInLeaf
  <2>2. Asked = {key} /\ Asked' = {} BY <2>1 DEF Asked
  <2>3. Copies' = [Copies EXCEPT ![key] = @ + 1] BY <1>1, <1>2, <1>9, InsertCounts
  <2>4. Index!Insert BY <2>1, <2>2, <2>3 DEF Index!Insert
  <2> QED BY <2>4 DEF Index!Next
<1>10. CASE SearchEnds
  <2>1. /\ pc = "search" /\ pc' = "ready" /\ node' = node
        /\ answer' = <<key, Hit(node[cur], key)>>
    BY <1>10 DEF SearchEnds
  <2>2. Asked = {} /\ Asked' = {} BY <2>1 DEF Asked
  <2>3. Hit(node[cur], key) <=> Copies[key] > 0 BY <1>1, <1>10, SearchCounts
  <2>4. Hit(node[cur], key) \in BOOLEAN /\ (Copies[key] > 0) \in BOOLEAN BY DEF Hit
  <2>5. answer' = <<key, Copies[key] > 0>> BY <2>1, <2>3, <2>4
  <2>6. Index!Lookup(key) BY <1>3, <2>1, <2>2, <2>5 DEF Index!Lookup
  <2> QED BY <1>4, <2>6 DEF Index!Next
<1>11. CASE SearchDescends \/ \E k \in Key : btree_search(k)
  <2>1. /\ pc \in {"ready", "search"} /\ pc' = "search" /\ node' = node /\ answer' = answer
    BY <1>11 DEF SearchDescends, btree_search
  <2>2. Asked' = {} /\ Asked = {} BY <2>1 DEF Asked
  <2> QED BY <1>3, <2>1, <2>2 DEF Index!indexVars
<1>12. CASE CallocFails
  <2>1. pc' \in {"crashed", "exited"} /\ node' = node /\ answer' = answer BY <1>12 DEF CallocFails
  <2>2. Asked' = {} BY <2>1 DEF Asked
  <2>3. Index!GiveUp BY <1>3, <2>1, <2>2 DEF Index!GiveUp
  <2> QED BY <2>3 DEF Index!Next
<1>13. CASE Stopped \/ UNCHANGED vars
  <2>1. UNCHANGED vars BY <1>13 DEF Stopped
  <2>2. pc' = pc /\ key' = key /\ node' = node /\ answer' = answer BY <2>1 DEF vars
  <2>3. Asked' = Asked BY <2>2 DEF Asked
  <2> QED BY <1>3, <2>2, <2>3 DEF Index!indexVars
<1>14. CASE \E k \in Key : btree_insert(k) BY <1>5, <1>14 DEF Index!Next
<1> QED BY <1>6, <1>7, <1>8, <1>9, <1>10, <1>11, <1>12, <1>13, <1>14 DEF Next, Call, Step

(* The tree implements the index (lines 72-213): an insertion takes effect *)
(* in the leaf, a split neither loses nor doubles a key, and a search      *)
(* finds exactly the inserted keys, for every even order and all keys.     *)
THEOREM IndexRefinement == Spec => ImplementsIndex
<1>1. Init => Index!Init
  <2> SUFFICES ASSUME Init PROVE Index!Init OBVIOUS
  <2>1. BTreeInv BY BTreeStart
  <2>2. Copies = Counts(node) BY <2>1, InvShaped, CopiesAre
  <2>3. Len(node) = 1 /\ Len(node[1].keys) = 0
    <3> DEFINE keys == <<>>
               leaf == [keys |-> keys, kids |-> <<>>, is_leaf |-> TRUE]
    <3>1. node = <<leaf>> BY DEF Init, Leaf
    <3>2. Len(keys) = 0 /\ leaf.keys = keys OBVIOUS
    <3> HIDE DEF keys, leaf
    <3> QED BY <3>1, <3>2
  <2>4. \A k : At(node, k) = {} BY <2>3 DEF At, IsPlace
  <2>5. Copies = [k \in Key |-> 0] BY <2>2, <2>4, FS_EmptySet DEF Counts
  <2>6. Asked = {} /\ answer = <<>> BY DEF Init, Asked
  <2> QED BY <2>5, <2>6 DEF Index!Init, Index!NoAnswer
<1> QED BY <1>1, IndexStep, BTreeInvariance, SearchInvariance, PTL
    DEF Spec, ImplementsIndex, Index!Spec
=============================================================================
