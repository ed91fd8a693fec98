--------------------------- MODULE DaryHeapProofs --------------------------
(***************************************************************************)
(* Proofs about DaryHeap for every branching factor, capacity and content: *)
(* the sift loops restore the heap property, and with it the least element *)
(* is at the root.  The second needs induction along the path from an      *)
(* element to the root: a least index that violated it cannot exist.  Then *)
(* the two stacks of chapter 5, which are arrays and lists of any length.  *)
(***************************************************************************)
EXTENDS DaryHeap, Stacks, FiniteSetTheorems, CommonTheorems

(* The index arithmetic: a parent comes before its child, and the children *)
(* of j are the positions whose parent is j.                               *)
LEMMA ParentBefore ==
  ASSUME d \in Nat \ {0, 1}, NEW j \in Nat \ {0}
  PROVE  Parent(j) \in 0 .. j - 1
<1> DEFINE q == (j - 1) \div d
           r == (j - 1) % d
<1>1. d \in Nat \ {0} /\ d >= 2 /\ j - 1 \in Nat OBVIOUS
<1>2. q \in Int /\ r \in 0 .. d - 1 /\ j - 1 = d * q + r BY <1>1, Division
<1> HIDE DEF q, r
<1>3. q >= 0
  <2> SUFFICES ASSUME q <= -1 PROVE FALSE BY <1>2
  <2>1. d * q <= -d BY <1>1, <1>2
  <2> QED BY <1>1, <1>2, <2>1
<1>4. d * q >= q BY <1>1, <1>2, <1>3
<1>5. q <= j - 1 BY <1>1, <1>2, <1>4
<1> QED BY <1>2, <1>3, <1>5 DEF Parent, q

LEMMA ChildOfParent ==
  ASSUME d \in Nat \ {0, 1}, NEW c \in Nat \ {0}, NEW j \in Nat
  PROVE  (d * j + 1 <= c /\ c <= d * j + d) <=> Parent(c) = j
<1> DEFINE q == (c - 1) \div d
           r == (c - 1) % d
<1>1. d \in Nat \ {0} /\ c - 1 \in Nat OBVIOUS
<1>2. q \in Int /\ r \in 0 .. d - 1 /\ c - 1 = d * q + r BY <1>1, Division
<1>3. d * j \in Int BY <1>1
<1> HIDE DEF q, r
<1>4. ASSUME d * j + 1 <= c, c <= d * j + d PROVE q = j
  <2> DEFINE s == c - 1 - d * j
  <2>1. s \in 0 .. d - 1 /\ c - 1 = d * j + s BY <1>1, <1>3, <1>4
  <2> HIDE DEF s
  <2>2. d * (q - j) = s - r BY <1>1, <1>2, <2>1
  <2>3. CASE q - j >= 1
    <3>1. d * (q - j) >= d BY <1>1, <1>2, <2>3
    <3> QED BY <1>1, <1>2, <2>1, <2>2, <3>1
  <2>4. CASE q - j <= -1
    <3>1. d * (q - j) <= -d BY <1>1, <1>2, <2>4
    <3> QED BY <1>1, <1>2, <2>1, <2>2, <3>1
  <2> QED BY <1>2, <2>3, <2>4
<1>5. ASSUME q = j PROVE d * j + 1 <= c /\ c <= d * j + d
  BY <1>1, <1>2, <1>3, <1>5
<1> QED BY <1>4, <1>5 DEF Parent, q

(* TypeOK in the form the arithmetic needs. *)
LEMMA TypeFacts ==
  TypeOK => /\ CAP \in Nat \ {0} /\ d \in Nat \ {0, 1} /\ size \in 0 .. CAP /\ i \in 0 .. CAP - 1
            /\ data \in [0 .. CAP - 1 -> Value]
            /\ \A j \in 0 .. CAP - 1 : data[j] \in Int /\ INT_MIN <= data[j]
            /\ INT_MIN \in Int
BY HeapAssumption DEF TypeOK, Index

LEMMA ChildrenAre ==
  TypeOK => /\ Children(i) \subseteq Live \ {0}
            /\ \A j \in Live \ {0} : j \in Children(i) <=> Parent(j) = i
<1> SUFFICES ASSUME TypeOK
             PROVE  /\ Children(i) \subseteq Live \ {0}
                    /\ \A j \in Live \ {0} : j \in Children(i) <=> Parent(j) = i
  OBVIOUS
<1>1. CAP \in Nat \ {0} /\ size \in 0 .. CAP /\ i \in 0 .. CAP - 1 BY TypeFacts
<1>2. d \in Nat \ {0, 1} /\ d * i \in Nat BY <1>1, TypeFacts
<1>3. Children(i) \subseteq Live \ {0} BY <1>1, <1>2 DEF Children, Live, Index
<1>4. ASSUME NEW j \in Live \ {0} PROVE j \in Children(i) <=> Parent(j) = i
  <2>1. j \in Nat \ {0} /\ i \in Nat /\ j \in Index /\ j < size
    BY <1>1 DEF Live, Index
  <2> QED BY <1>2, <2>1, ChildOfParent DEF Children
<1> QED BY <1>3, <1>4

(* The scan for the least child has a result. *)
LEMMA MinChildExists ==
  TypeOK /\ Children(i) # {} =>
    MinChild \in Children(i) /\ \A c \in Children(i) : data[MinChild] <= data[c]
<1> SUFFICES ASSUME TypeOK, Children(i) # {}
             PROVE  MinChild \in Children(i)
                    /\ \A c \in Children(i) : data[MinChild] <= data[c]
  OBVIOUS
<1>1. /\ Children(i) \subseteq Nat
      /\ \A c \in Children(i) : data[c] \in Int /\ data[c] - INT_MIN \in Nat
  BY TypeFacts DEF Children, Index
<1> DEFINE T == {data[c] - INT_MIN : c \in Children(i)}
<1>2. T \in SUBSET Nat /\ T # {} BY <1>1
<1>3. PICK m \in T : \A x \in T : m <= x BY <1>2, LeastNumber
<1>4. m \in Nat /\ INT_MIN \in Int /\ \A c \in Children(i) : m + INT_MIN <= data[c]
  <2>1. m \in Nat /\ INT_MIN \in Int BY <1>2, TypeFacts
  <2>2. ASSUME NEW c \in Children(i) PROVE m + INT_MIN <= data[c]
    <3>1. m <= data[c] - INT_MIN BY <1>3
    <3>2. data[c] \in Int BY <1>1
    <3> QED BY <2>1, <3>1, <3>2
  <2> QED BY <2>1, <2>2
<1> DEFINE L == {c \in Children(i) : data[c] = m + INT_MIN}
<1>5. L \in SUBSET Nat /\ L # {}
  <2>1. PICK c \in Children(i) : m = data[c] - INT_MIN OBVIOUS
  <2>2. data[c] = m + INT_MIN BY <1>1, <1>4, <2>1
  <2> QED BY <1>1, <2>2
<1>6. PICK c \in L : \A e \in L : c <= e BY <1>5, LeastNumber
<1>7. ASSUME NEW e \in Children(i)
      PROVE  data[c] < data[e] \/ (data[c] = data[e] /\ c <= e)
  BY <1>1, <1>4, <1>6
<1>8. c \in Children(i) BY <1>6
<1>9. /\ MinChild \in Children(i)
      /\ \A e \in Children(i) :
           data[MinChild] < data[e] \/ (data[MinChild] = data[e] /\ MinChild <= e)
  BY <1>7, <1>8 DEF MinChild
<1> QED BY <1>1, <1>9

(***************************************************************************)
(* The inductive invariant.                                                *)
(***************************************************************************)
LEMMA InitInv == Init => IndInv
BY HeapAssumption DEF Init, IndInv, TypeOK, OrderInv, Index, Live

(* Between calls the order holds everywhere. *)
LEMMA AtRest ==
  IndInv /\ pc = "ready" => \A j \in Live \ {0} : data[Parent(j)] <= data[j]
BY DEF IndInv, OrderInv

LEMMA InsertInv == ASSUME NEW v \in Value, heap_insert(v), IndInv PROVE IndInv'
<1>1. /\ pc = "ready" /\ size < CAP /\ data' = [data EXCEPT ![size] = v]
      /\ size' = size + 1 /\ i' = size /\ pc' = "up" /\ min' = min /\ d' = d
  BY DEF heap_insert
<1>2. /\ CAP \in Nat \ {0} /\ size \in 0 .. CAP - 1 /\ data \in [0 .. CAP - 1 -> Value]
      /\ d \in Nat \ {0, 1}
  BY <1>1, TypeFacts DEF IndInv
<1>3. TypeOK' BY <1>1, <1>2 DEF IndInv, TypeOK, Live, Index
<1>4. ASSUME NEW j \in Live' \ {0}, j # i' PROVE data'[Parent(j)] <= data'[j]
  <2>1. j \in Live \ {0} /\ j < size BY <1>1, <1>2, <1>4 DEF Live
  <2>2. Parent(j) \in 0 .. j - 1 BY <1>2, <2>1, ParentBefore DEF Live
  <2>3. data'[j] = data[j] /\ data'[Parent(j)] = data[Parent(j)]
    BY <1>1, <1>2, <2>1, <2>2 DEF Live
  <2> QED BY <1>1, <2>1, <2>3, AtRest
<1>5. ASSUME NEW j \in Live' \ {0} PROVE Parent(j) # i'
  <2>1. j \in Nat \ {0} /\ j <= size BY <1>1, <1>2 DEF Live
  <2>2. Parent(j) \in 0 .. j - 1 BY <1>2, <2>1, ParentBefore
  <2> QED BY <1>1, <1>2, <2>1, <2>2
<1>6. \A j : Parent(j)' = Parent(j) BY <1>1 DEF Parent
<1>7. OrderInv' BY <1>1, <1>4, <1>5, <1>6 DEF OrderInv
<1> QED BY <1>3, <1>7 DEF IndInv

LEMMA SiftUpInv == ASSUME SiftUp, IndInv PROVE IndInv'
<1> DEFINE p == Parent(i)
<1>1. /\ pc = "up" /\ i > 0 /\ ~ (data[p] <= data[i]) /\ pc' = pc /\ size' = size
      /\ min' = min /\ d' = d /\ i' = p /\ data' = [data EXCEPT ![p] = data[i], ![i] = data[p]]
  BY TypeFacts DEF SiftUp, InPlaceAbove, Swap, IndInv
<1>2. /\ CAP \in Nat \ {0} /\ size \in 0 .. CAP /\ data \in [0 .. CAP - 1 -> Value]
      /\ i \in 1 .. CAP - 1 /\ i < size /\ d \in Nat \ {0, 1}
      /\ \A j \in 0 .. CAP - 1 : data[j] \in Int
  BY <1>1, TypeFacts DEF IndInv, TypeOK, Live
<1>3. p \in 0 .. i - 1 BY <1>2, ParentBefore
<1> HIDE DEF p
<1>4. /\ data'[p] = data[i] /\ data'[i] = data[p]
      /\ \A j \in 0 .. CAP - 1 : j # p /\ j # i => data'[j] = data[j]
  BY <1>1, <1>2, <1>3
<1>5. data[i] < data[p] BY <1>1, <1>2, <1>3
<1>6. TypeOK'
  <2>1. data' \in [0 .. CAP - 1 -> Value] BY <1>1, <1>2, <1>3
  <2>2. i' \in Index /\ i' \in Live' BY <1>1, <1>2, <1>3 DEF Index, Live
  <2> QED BY <1>1, <2>1, <2>2 DEF IndInv, TypeOK, Index
<1>7. ASSUME NEW j \in Live \ {0}
      PROVE  /\ j \in 1 .. CAP - 1 /\ Parent(j) \in 0 .. CAP - 1 /\ Parent(j) # j
             /\ j # i => data[Parent(j)] <= data[j]
             /\ Parent(j) = i => data[p] <= data[j]
  <2>1. j \in 1 .. CAP - 1 /\ Parent(j) \in 0 .. j - 1
    BY <1>2, ParentBefore DEF Live
  <2>2. j # i => data[Parent(j)] <= data[j] BY <1>1 DEF IndInv, OrderInv
  <2>3. Parent(j) = i => data[p] <= data[j] BY <1>1 DEF IndInv, OrderInv, p
  <2> QED BY <1>2, <2>1, <2>2, <2>3
<1>8. ASSUME NEW j \in Live \ {0}, j # p PROVE data'[Parent(j)] <= data'[j]
  <2>1. CASE j = i BY <1>2, <1>3, <1>4, <1>5, <2>1 DEF p
  <2>2. CASE j # i /\ Parent(j) = i BY <1>4, <1>7, <1>8, <2>2
  <2>3. CASE j # i /\ Parent(j) = p
    <3>1. data'[Parent(j)] = data[i] /\ data'[j] = data[j] BY <1>4, <1>7, <1>8, <2>3
    <3>2. data[p] <= data[j] BY <1>7, <2>3
    <3> QED BY <1>2, <1>3, <1>5, <1>7, <3>1, <3>2
  <2>4. CASE j # i /\ Parent(j) # i /\ Parent(j) # p BY <1>4, <1>7, <1>8, <2>4
  <2> QED BY <2>1, <2>2, <2>3, <2>4
<1>9. ASSUME NEW j \in Live \ {0}, p > 0, Parent(j) = p PROVE data'[Parent(p)] <= data'[j]
  <2>1. p \in Live \ {0} /\ p # i BY <1>2, <1>3, <1>9 DEF Live
  <2>2. Parent(p) \in 0 .. p - 1 BY <1>2, <1>3, <1>9, ParentBefore
  <2>3. data'[Parent(p)] = data[Parent(p)] /\ data[Parent(p)] <= data[p]
    BY <1>2, <1>3, <1>4, <1>7, <2>1, <2>2
  <2>4. data[p] <= data'[j]
    <3>1. CASE j = i BY <1>2, <1>3, <1>4, <3>1
    <3>2. CASE j # i
      <4>1. j # p /\ data[p] <= data[j] BY <1>7, <1>9, <3>2
      <4> QED BY <1>4, <1>7, <3>2, <4>1
    <3> QED BY <3>1, <3>2
  <2>5. data'[j] \in Int
    <3>1. j \in 0 .. CAP - 1 /\ p \in 0 .. CAP - 1 BY <1>2, <1>3, <1>7
    <3> QED BY <1>2, <1>4, <3>1
  <2>6. data[p] \in Int /\ data[Parent(p)] \in Int
    <3>1. p \in 0 .. CAP - 1 /\ Parent(p) \in 0 .. CAP - 1 BY <1>2, <1>3, <2>2
    <3> QED BY <1>2, <3>1
  <2> QED BY <2>3, <2>4, <2>5, <2>6
<1>10. \A j : Parent(j)' = Parent(j) BY <1>1 DEF Parent
<1>11. OrderInv' BY <1>1, <1>8, <1>9, <1>10 DEF OrderInv, Live
<1> QED BY <1>6, <1>11 DEF IndInv

LEMMA ExtractInv == ASSUME heap_extract_min, IndInv PROVE IndInv'
<1>1. /\ pc = "ready" /\ size > 0 /\ min' = data[0] /\ size' = size - 1
      /\ data' = [data EXCEPT ![0] = data[size - 1]] /\ i' = 0 /\ pc' = "down" /\ d' = d
  BY DEF heap_extract_min
<1>2. /\ CAP \in Nat \ {0} /\ size \in 1 .. CAP /\ data \in [0 .. CAP - 1 -> Value]
      /\ d \in Nat \ {0, 1}
  BY <1>1, TypeFacts DEF IndInv
<1>3. TypeOK' BY <1>1, <1>2 DEF IndInv, TypeOK, Index
<1>4. ASSUME NEW j \in Live' \ {0}, Parent(j) # 0 PROVE data'[Parent(j)] <= data'[j]
  <2>1. j \in Live \ {0} /\ j \in 1 .. CAP - 1 BY <1>1, <1>2 DEF Live
  <2>2. Parent(j) \in 1 .. CAP - 1 BY <1>2, <1>4, <2>1, ParentBefore
  <2>3. data'[j] = data[j] /\ data'[Parent(j)] = data[Parent(j)]
    BY <1>1, <1>2, <2>1, <2>2
  <2> QED BY <1>1, <2>1, <2>3, AtRest
<1>5. \A j : Parent(j)' = Parent(j) BY <1>1 DEF Parent
<1>6. OrderInv' BY <1>1, <1>4, <1>5 DEF OrderInv
<1> QED BY <1>3, <1>6 DEF IndInv

LEMMA SiftDownInv == ASSUME SiftDown, IndInv PROVE IndInv'
<1> DEFINE m == MinChild
<1>1. /\ pc = "down" /\ ~ InPlaceBelow /\ pc' = pc /\ size' = size /\ min' = min /\ d' = d
      /\ i' = m /\ data' = [data EXCEPT ![i] = data[m], ![m] = data[i]]
  BY DEF SiftDown, Swap
<1>2. /\ CAP \in Nat \ {0} /\ size \in 0 .. CAP /\ data \in [0 .. CAP - 1 -> Value]
      /\ i \in 0 .. CAP - 1 /\ d \in Nat \ {0, 1}
      /\ \A j \in 0 .. CAP - 1 : data[j] \in Int
  BY TypeFacts DEF IndInv
<1>3. PICK c \in Children(i) : ~ (data[c] >= data[i]) BY <1>1 DEF InPlaceBelow
<1>4. m \in Children(i) /\ \A e \in Children(i) : data[m] <= data[e]
  BY <1>3, MinChildExists DEF IndInv
<1> HIDE DEF m
<1>5. m \in Live \ {0} /\ Parent(m) = i /\ c \in Live \ {0}
  BY <1>3, <1>4, ChildrenAre DEF IndInv
<1>6. m \in 1 .. CAP - 1 /\ m < size /\ i < m /\ c \in 0 .. CAP - 1
  BY <1>2, <1>5, ParentBefore DEF Live
<1>7. data[m] < data[i] BY <1>2, <1>3, <1>4, <1>6
<1>8. /\ data'[m] = data[i] /\ data'[i] = data[m]
      /\ \A j \in 0 .. CAP - 1 : j # m /\ j # i => data'[j] = data[j]
  BY <1>1, <1>2, <1>6
<1>9. TypeOK'
  <2>1. data' \in [0 .. CAP - 1 -> Value] BY <1>1, <1>2, <1>6
  <2>2. i' \in Index BY <1>1, <1>6 DEF Index
  <2> QED BY <1>1, <2>1, <2>2 DEF IndInv, TypeOK, Index
<1>10. ASSUME NEW j \in Live \ {0}
       PROVE  /\ j \in 1 .. CAP - 1 /\ Parent(j) \in 0 .. CAP - 1 /\ Parent(j) # j
              /\ Parent(j) # i => data[Parent(j)] <= data[j]
              /\ Parent(j) = i => data[m] <= data[j]
              /\ Parent(j) = i /\ i > 0 => data[Parent(i)] <= data[j]
  <2>1. j \in 1 .. CAP - 1 /\ Parent(j) \in 0 .. j - 1
    BY <1>2, ParentBefore DEF Live
  <2>2. Parent(j) # i => data[Parent(j)] <= data[j] BY <1>1 DEF IndInv, OrderInv
  <2>3. Parent(j) = i => data[m] <= data[j] BY <1>4, ChildrenAre DEF IndInv
  <2>4. Parent(j) = i /\ i > 0 => data[Parent(i)] <= data[j]
    BY <1>1 DEF IndInv, OrderInv
  <2> QED BY <1>2, <2>1, <2>2, <2>3, <2>4
<1>11. ASSUME NEW j \in Live \ {0}, Parent(j) # m PROVE data'[Parent(j)] <= data'[j]
  <2>1. CASE j = m BY <1>2, <1>5, <1>6, <1>7, <1>8, <2>1
  <2>2. CASE j # m /\ Parent(j) = i
    <3>1. j # i BY <1>10, <2>2
    <3> QED BY <1>8, <1>10, <2>2, <3>1
  <2>3. CASE j = i
    <3>1. Parent(i) # i /\ Parent(i) # m /\ data'[Parent(i)] = data[Parent(i)]
      BY <1>8, <1>10, <1>11, <2>3
    <3>2. i > 0 /\ data[Parent(i)] <= data[m] BY <1>2, <1>5, <1>10, <2>3
    <3> QED BY <1>8, <2>3, <3>1, <3>2
  <2>4. CASE j # m /\ j # i /\ Parent(j) # i BY <1>8, <1>10, <1>11, <2>4
  <2> QED BY <2>1, <2>2, <2>3, <2>4
<1>12. ASSUME NEW j \in Live \ {0}, Parent(j) = m PROVE data'[Parent(m)] <= data'[j]
  <2>1. j # m /\ j # i
    <3>1. j \in Nat \ {0} BY <1>10
    <3>2. m < j BY <1>2, <1>6, <1>12, <3>1, ParentBefore
    <3> QED BY <1>2, <1>6, <3>1, <3>2
  <2>2. data[m] <= data[j] BY <1>6, <1>10, <1>12
  <2> QED BY <1>5, <1>8, <1>10, <2>1, <2>2
<1>13. \A j : Parent(j)' = Parent(j) BY <1>1 DEF Parent
<1>14. OrderInv' BY <1>1, <1>11, <1>12, <1>13 DEF OrderInv, Live
<1> QED BY <1>9, <1>14 DEF IndInv

LEMMA SiftEndsInv == ASSUME SiftUpEnds \/ SiftDownEnds, IndInv PROVE IndInv'
<1>1. /\ pc' = "ready" /\ data' = data /\ size' = size /\ i' = i /\ min' = min
      /\ d' = d /\ pc \in {"up", "down"}
  BY DEF SiftUpEnds, SiftDownEnds
<1>2. CAP \in Nat \ {0} /\ size \in 0 .. CAP BY TypeFacts DEF IndInv
<1>3. TypeOK' BY <1>1 DEF IndInv, TypeOK, Live
<1>4. ASSUME NEW j \in Live \ {0} PROVE data[Parent(j)] <= data[j]
  <2>1. CASE SiftUpEnds
    <3>1. pc = "up" /\ (i > 0 => data[Parent(i)] <= data[i])
      BY <2>1 DEF SiftUpEnds, InPlaceAbove
    <3>2. j = i => i > 0 BY <1>2 DEF Live
    <3> QED BY <3>1, <3>2 DEF IndInv, OrderInv
  <2>2. CASE SiftDownEnds
    <3>1. pc = "down" /\ \A c \in Children(i) : data[c] >= data[i]
      BY <2>2 DEF SiftDownEnds, InPlaceBelow
    <3>2. Parent(j) = i => data[j] >= data[Parent(j)] BY <3>1, ChildrenAre DEF IndInv
    <3>3. data[j] \in Int /\ (Parent(j) = i => data[Parent(j)] \in Int)
      BY <1>2, TypeFacts DEF Live, IndInv
    <3> QED BY <3>1, <3>2, <3>3 DEF IndInv, OrderInv
  <2> QED BY <2>1, <2>2
<1>5. \A j : Parent(j)' = Parent(j) BY <1>1 DEF Parent
<1>6. OrderInv' BY <1>1, <1>4, <1>5 DEF OrderInv, Live
<1> QED BY <1>3, <1>6 DEF IndInv

(* Between calls and at every level of a sift only the sifted value is out *)
(* of place (lines 72-139).                                                *)
THEOREM Invariance == Spec => []IndInv
<1>1. IndInv /\ [Next]_vars => IndInv'
  <2> SUFFICES ASSUME IndInv, [Next]_vars PROVE IndInv' OBVIOUS
  <2>1. CASE ExtractFromEmpty
    <3>1. /\ min' = 0 /\ data' = data /\ size' = size /\ pc' = pc /\ i' = i /\ d' = d
      BY <2>1 DEF ExtractFromEmpty
    <3> QED BY <3>1 DEF IndInv, TypeOK, OrderInv, Live, Parent
  <2>2. CASE UNCHANGED vars
    BY <2>2 DEF vars, IndInv, TypeOK, OrderInv, Live, Parent
  <2> QED BY <2>1, <2>2, InsertInv, SiftUpInv, ExtractInv, SiftDownInv, SiftEndsInv
          DEF Next, Sift
<1> QED BY <1>1, InitInv, PTL DEF Spec

(* data[], size and the index of a sift stay in their ranges.              *)
THEOREM TypeCorrect == Spec => []TypeOK
<1>1. IndInv => TypeOK BY DEF IndInv
<1> QED BY <1>1, Invariance, PTL

(* heap_insert and heap_extract_min restore the heap property.             *)
THEOREM HeapProperty == Spec => []HeapOrdered
<1>1. IndInv => HeapOrdered BY AtRest DEF HeapOrdered
<1> QED BY <1>1, Invariance, PTL

(* By following parents: a least index that violated it cannot exist.      *)
LEMMA RootLeast == IndInv => MinAtRoot
<1> SUFFICES ASSUME IndInv, pc = "ready", NEW k \in Live, ~ (data[0] <= data[k])
             PROVE  FALSE
  BY DEF MinAtRoot
<1>1. /\ CAP \in Nat \ {0} /\ size \in 0 .. CAP
      /\ \A j \in 0 .. CAP - 1 : data[j] \in Int
  BY TypeFacts DEF IndInv
<1> DEFINE Bad == {j \in Live : ~ (data[0] <= data[j])}
<1>2. Bad \in SUBSET Nat /\ Bad # {} BY <1>1 DEF Live
<1>3. PICK j \in Bad : \A b \in Bad : j <= b BY <1>2, LeastNumber
<1>4. j \in Live /\ j # 0 /\ j \in Nat /\ j < size BY <1>1 DEF Live
<1>5. Parent(j) \in 0 .. j - 1 BY <1>4, TypeFacts, ParentBefore DEF IndInv
<1>6. Parent(j) \in Live /\ Parent(j) \notin Bad BY <1>1, <1>3, <1>4, <1>5 DEF Live
<1>7. data[0] <= data[Parent(j)] /\ data[Parent(j)] <= data[j]
  BY <1>4, <1>6, AtRest
<1>8. data[0] \in Int /\ data[j] \in Int /\ data[Parent(j)] \in Int
  BY <1>1, <1>4, <1>6 DEF Live
<1>9. ~ (data[0] <= data[j]) BY <1>3
<1> QED BY <1>7, <1>8, <1>9

(* The element heap_extract_min takes, data[0], is a least one.            *)
THEOREM RootIsLeast == Spec => []MinAtRoot
BY RootLeast, Invariance, PTL

(***************************************************************************)
(* The array as a bag.                                                     *)
(***************************************************************************)
(* Where v is among the first n elements of f. *)
Places(f, n, v) == {j \in 0 .. n - 1 : f[j] = v}

LEMMA PlacesFinite ==
  ASSUME NEW f, NEW n \in Nat, NEW v
  PROVE  IsFiniteSet(Places(f, n, v)) /\ Cardinality(Places(f, n, v)) \in Nat
<1> DEFINE S == 0 .. n - 1
           P == Places(f, n, v)
<1>1. IsFiniteSet(S) BY FS_Interval
<1>2. P \in SUBSET S BY DEF Places
<1> HIDE DEF S, P
<1>3. IsFiniteSet(P) BY <1>1, <1>2, FS_Subset
<1>4. Cardinality(P) \in Nat BY <1>3, FS_CardinalityType
<1> QED BY <1>3, <1>4 DEF P

LEMMA SwapKeepsCounts ==
  ASSUME NEW f, NEW g, NEW n \in Nat, NEW a \in 0 .. n - 1, NEW b \in 0 .. n - 1,
         g[a] = f[b], g[b] = f[a],
         \A j \in 0 .. n - 1 : j # a /\ j # b => g[j] = f[j],
         NEW v
  PROVE  Cardinality(Places(g, n, v)) = Cardinality(Places(f, n, v))
<1> DEFINE S == Places(f, n, v)
           T == Places(g, n, v)
           h == [j \in S |-> IF j = a THEN b ELSE IF j = b THEN a ELSE j]
<1>1. \A j \in S : h[j] \in T BY DEF Places
<1>2. \A j \in S : h[j] = IF j = a THEN b ELSE IF j = b THEN a ELSE j OBVIOUS
<1>3. \A j \in T : \E k \in S : h[k] = j
  <2> SUFFICES ASSUME NEW j \in T PROVE \E k \in S : h[k] = j OBVIOUS
  <2> DEFINE k == IF j = a THEN b ELSE IF j = b THEN a ELSE j
  <2>1. k \in S BY DEF Places
  <2>2. (IF k = a THEN b ELSE IF k = b THEN a ELSE k) = j OBVIOUS
  <2> QED BY <1>2, <2>1, <2>2
<1>4. IsFiniteSet(S) BY PlacesFinite
<1>5. \A j \in S, k \in S : h[j] = h[k] => j = k BY <1>2
<1>6. h \in [S -> T] BY <1>1
<1> HIDE DEF S, T, h
<1>7. h \in Bijection(S, T)
  <2>1. h \in Injection(S, T) BY <1>5, <1>6 DEF Injection, IsInjective
  <2>2. h \in Surjection(S, T) BY <1>3, <1>6 DEF Surjection
  <2> QED BY <2>1, <2>2 DEF Bijection
<1>8. ExistsBijection(S, T) BY <1>7 DEF ExistsBijection
<1>9. Cardinality(T) = Cardinality(S) BY <1>4, <1>8, FS_Bijection
<1> QED BY <1>9 DEF S, T

LEMMA CountIs ==
  /\ Count = [v \in Value |-> Cardinality(Places(data, size, v))]
  /\ Count' = [v \in Value |-> Cardinality(Places(data', size', v))]
BY DEF Count, Places, Live

(* A value behind the last is one occurrence more. *)
LEMMA InsertCounts ==
  ASSUME NEW v \in Value, heap_insert(v), IndInv
  PROVE  Count' = [Count EXCEPT ![v] = @ + 1]
<1>1. /\ size < CAP /\ data' = [data EXCEPT ![size] = v] /\ size' = size + 1
  BY DEF heap_insert
<1>2. /\ CAP \in Nat \ {0} /\ size \in 0 .. CAP - 1 /\ data \in [0 .. CAP - 1 -> Value]
  BY <1>1, TypeFacts DEF IndInv
<1>3. /\ data'[size] = v /\ \A j \in 0 .. size - 1 : data'[j] = data[j]
      /\ size \in Nat
  BY <1>1, <1>2
<1> DEFINE f == data'
           n == size
<1>4. f[n] = v /\ n \in Nat /\ \A j \in 0 .. n - 1 : f[j] = data[j] BY <1>3
<1> HIDE DEF f, n
<1>5. \A w : Places(f, n + 1, w) = Places(data, n, w) \cup (IF w = v THEN {n} ELSE {})
  BY <1>4 DEF Places
<1>6. \A w : n \notin Places(data, n, w) BY <1>4 DEF Places
<1>7. Cardinality(Places(f, n + 1, v)) = Cardinality(Places(data, n, v)) + 1
  <2> DEFINE S == Places(data, n, v)
  <2>1. IsFiniteSet(S) BY <1>4, PlacesFinite
  <2>2. n \notin S /\ Places(f, n + 1, v) = S \cup {n} BY <1>5, <1>6
  <2> HIDE DEF S
  <2>3. Cardinality(S \cup {n}) = Cardinality(S) + 1 BY <2>1, <2>2, FS_AddElement
  <2> QED BY <2>2, <2>3 DEF S
<1>8. \A w : w # v => Places(f, n + 1, w) = Places(data, n, w) BY <1>5
<1>9. Count' = [w \in Value |-> Cardinality(Places(f, n + 1, w))]
      /\ Count = [w \in Value |-> Cardinality(Places(data, n, w))]
  BY <1>1, CountIs DEF f, n
<1> QED BY <1>7, <1>8, <1>9

(* Moving the last element to the root is a swap with it and one place less. *)
LEMMA ExtractCounts ==
  ASSUME heap_extract_min, IndInv
  PROVE  /\ data[0] \in Value
         /\ Count' = [Count EXCEPT ![data[0]] = @ - 1]
<1>1. size > 0 /\ size' = size - 1 /\ data' = [data EXCEPT ![0] = data[size - 1]]
  BY DEF heap_extract_min
<1>2. /\ CAP \in Nat \ {0} /\ size \in 1 .. CAP /\ data \in [0 .. CAP - 1 -> Value]
  BY <1>1, TypeFacts DEF IndInv
<1> DEFINE n == size - 1
           f == data'
           g == [data EXCEPT ![0] = data[n], ![n] = data[0]]
<1>3. n \in 0 .. CAP - 1 /\ n \in Nat /\ size = n + 1 BY <1>2
<1>4. /\ g[0] = data[n] /\ g[n] = data[0]
      /\ \A j \in 0 .. size - 1 : j # 0 /\ j # n => g[j] = data[j]
      /\ \A j \in 0 .. n - 1 : g[j] = f[j]
  BY <1>1, <1>2, <1>3
<1>5. data[0] \in Value BY <1>2
<1>6. \A w : Cardinality(Places(g, size, w)) = Cardinality(Places(data, size, w))
  <2> SUFFICES ASSUME NEW w
               PROVE Cardinality(Places(g, size, w)) = Cardinality(Places(data, size, w))
    OBVIOUS
  <2>1. size \in Nat /\ 0 \in 0 .. size - 1 /\ n \in 0 .. size - 1 BY <1>2, <1>3
  <2> HIDE DEF g, n
  <2> QED BY <1>4, <2>1, SwapKeepsCounts
<1> HIDE DEF f, g, n
<1>7. \A w : Places(g, n + 1, w) = Places(f, n, w) \cup (IF w = data[0] THEN {n} ELSE {})
  BY <1>3, <1>4 DEF Places
<1>8. \A w : n \notin Places(f, n, w) BY <1>3 DEF Places
<1>9. Cardinality(Places(g, n + 1, data[0])) = Cardinality(Places(f, n, data[0])) + 1
  <2> DEFINE S == Places(f, n, data[0])
  <2>1. IsFiniteSet(S) BY <1>3, PlacesFinite
  <2>2. n \notin S /\ Places(g, n + 1, data[0]) = S \cup {n} BY <1>7, <1>8
  <2> HIDE DEF S
  <2>3. Cardinality(S \cup {n}) = Cardinality(S) + 1 BY <2>1, <2>2, FS_AddElement
  <2> QED BY <2>2, <2>3 DEF S
<1>10. Cardinality(Places(f, n, data[0])) \in Nat BY <1>3, PlacesFinite
<1>11. \A w : w # data[0] => Places(g, n + 1, w) = Places(f, n, w) BY <1>7
<1>12. /\ Count' = [w \in Value |-> Cardinality(Places(f, n, w))]
       /\ Count = [w \in Value |-> Cardinality(Places(data, n + 1, w))]
  <2>1. size' = n BY <1>1 DEF n
  <2> QED BY <1>3, <2>1, CountIs DEF f
<1>13. /\ Cardinality(Places(f, n, data[0])) = Cardinality(Places(data, n + 1, data[0])) - 1
       /\ \A w : w # data[0] => Cardinality(Places(f, n, w)) = Cardinality(Places(data, n + 1, w))
  BY <1>3, <1>6, <1>9, <1>10, <1>11
<1> QED BY <1>5, <1>12, <1>13

LEMMA SiftCounts ==
  ASSUME SiftUp \/ SiftDown, IndInv PROVE Count' = Count
<1>1. PICK a \in Live, b \in Live :
        data' = [data EXCEPT ![a] = data[b], ![b] = data[a]]
  <2>1. CASE SiftUp
    <3>1. pc = "up" /\ i > 0 /\ data' = [data EXCEPT ![Parent(i)] = data[i], ![i] = data[Parent(i)]]
      BY <2>1, TypeFacts DEF SiftUp, InPlaceAbove, Swap, IndInv
    <3>2. i \in Live /\ i \in Nat \ {0} BY <3>1, TypeFacts DEF IndInv, TypeOK
    <3>3. Parent(i) \in 0 .. i - 1 BY <3>2, TypeFacts, ParentBefore DEF IndInv
    <3>4. size \in Nat BY TypeFacts DEF IndInv
    <3>5. Parent(i) \in Live BY <3>2, <3>3, <3>4 DEF Live
    <3> QED BY <3>1, <3>2, <3>5
  <2>2. CASE SiftDown
    <3> DEFINE m == MinChild
    <3>1. data' = [data EXCEPT ![i] = data[m], ![m] = data[i]] /\ ~ InPlaceBelow
      BY <2>2 DEF SiftDown, Swap
    <3>2. Children(i) # {} BY <3>1 DEF InPlaceBelow
    <3>3. m \in Children(i) BY <3>2, MinChildExists DEF IndInv
    <3> HIDE DEF m
    <3>4. m \in Live \ {0} /\ Parent(m) = i BY <3>3, ChildrenAre DEF IndInv
    <3>5. m \in Nat \ {0} /\ size \in Nat BY <3>4, TypeFacts DEF Live, IndInv
    <3>6. i \in 0 .. m - 1 BY <3>4, <3>5, TypeFacts, ParentBefore DEF IndInv
    <3>7. i \in Live BY <3>4, <3>5, <3>6 DEF Live
    <3> QED BY <3>1, <3>4, <3>7
  <2> QED BY <2>1, <2>2
<1>2. CAP \in Nat \ {0} /\ size \in 0 .. CAP /\ data \in [0 .. CAP - 1 -> Value] /\ size' = size
  BY TypeFacts DEF IndInv, SiftUp, SiftDown
<1>3. a \in 0 .. size - 1 /\ b \in 0 .. size - 1 /\ size \in Nat BY <1>2 DEF Live
<1> DEFINE f == data'
<1>4. /\ f[a] = data[b] /\ f[b] = data[a]
      /\ \A j \in 0 .. size - 1 : j # a /\ j # b => f[j] = data[j]
  BY <1>1, <1>2, <1>3
<1> HIDE DEF f
<1>5. \A w : Cardinality(Places(f, size, w)) = Cardinality(Places(data, size, w))
  BY <1>3, <1>4, SwapKeepsCounts
<1> QED BY <1>2, <1>5, CountIs DEF f

LEMMA QueueStep ==
  IndInv /\ [Next]_vars => [Abstract!Next]_(Abstract!pqVars)
<1> SUFFICES ASSUME IndInv, [Next]_vars PROVE [Abstract!Next]_(Abstract!pqVars) OBVIOUS
<1>0. CAP \in Nat \ {0} /\ size \in 0 .. CAP /\ data \in [0 .. CAP - 1 -> Value]
  BY TypeFacts DEF IndInv
<1>1. ASSUME NEW v \in Value, heap_insert(v) PROVE Abstract!Next
  <2>1. Count' = [Count EXCEPT ![v] = @ + 1] BY <1>1, InsertCounts
  <2>2. pc = "ready" /\ pc' = "up" /\ min' = min BY <1>1 DEF heap_insert
  <2>3. Abstract!Insert(v) BY <2>1, <2>2 DEF Abstract!Insert, Abstract!Called
  <2> QED BY <2>3 DEF Abstract!Next
<1>2. CASE heap_extract_min
  <2>1. data[0] \in Value /\ Count' = [Count EXCEPT ![data[0]] = @ - 1] BY <1>2, ExtractCounts
  <2>2. pc = "ready" /\ pc' = "down" /\ min' = data[0] /\ size > 0 BY <1>2 DEF heap_extract_min
  <2>3. MinAtRoot BY RootLeast
  <2>4. \A w \in Value : Count[w] = Cardinality(Places(data, size, w)) BY CountIs
  <2>5. Count[data[0]] > 0
    <3> DEFINE S == Places(data, size, data[0])
    <3>1. 0 \in S /\ size \in Nat BY <1>0, <2>2 DEF Places
    <3>2. IsFiniteSet(S) /\ Cardinality(S) \in Nat BY <3>1, PlacesFinite
    <3>3. Cardinality(S) # 0 BY <3>1, <3>2, FS_EmptySet
    <3> QED BY <2>1, <2>4, <3>2, <3>3
  <2>6. ASSUME NEW w \in Value, w < data[0] PROVE Count[w] = 0
    <3>1. \A j \in 0 .. size - 1 : data[0] <= data[j] BY <2>2, <2>3 DEF MinAtRoot, Live
    <3>2. w \in Int /\ \A j \in 0 .. size - 1 : data[j] \in Int
      BY <1>0, HeapAssumption
    <3>3. data[0] \in Int BY <1>0, HeapAssumption
    <3>4. Places(data, size, w) = {} BY <2>6, <3>1, <3>2, <3>3 DEF Places
    <3> QED BY <2>4, <3>4, FS_EmptySet
  <2>7. Abstract!Extract(data[0])
    BY <2>1, <2>2, <2>5, <2>6 DEF Abstract!Extract, Abstract!Called
  <2> QED BY <2>1, <2>7 DEF Abstract!Next
<1>3. CASE ExtractFromEmpty
  <2>1. /\ pc = "ready" /\ size = 0 /\ min' = 0 /\ data' = data /\ size' = size /\ pc' = pc
    BY <1>3 DEF ExtractFromEmpty
  <2>2. Count' = Count BY <2>1, CountIs
  <2>3. \A w \in Value : Count[w] = 0
    <3>1. \A w : Places(data, 0, w) = {} BY DEF Places
    <3> QED BY <2>1, <3>1, CountIs, FS_EmptySet
  <2>4. Abstract!ExtractFromEmpty
    BY <2>1, <2>2, <2>3 DEF Abstract!ExtractFromEmpty, Abstract!Called
  <2> QED BY <2>4 DEF Abstract!Next
<1>4. CASE SiftUp \/ SiftDown
  <2>1. Count' = Count BY <1>4, SiftCounts
  <2>2. pc' = pc /\ min' = min BY <1>4 DEF SiftUp, SiftDown
  <2> QED BY <2>1, <2>2 DEF Abstract!pqVars
<1>5. CASE SiftUpEnds \/ SiftDownEnds
  <2>1. pc' = "ready" /\ data' = data /\ size' = size /\ min' = min
    BY <1>5 DEF SiftUpEnds, SiftDownEnds
  <2>2. Count' = Count BY <2>1, CountIs
  <2>3. Abstract!Return BY <2>1, <2>2 DEF Abstract!Return
  <2> QED BY <2>3 DEF Abstract!Next
<1>6. CASE UNCHANGED vars
  <2>1. data' = data /\ size' = size /\ pc' = pc /\ min' = min BY <1>6 DEF vars
  <2>2. Count' = Count BY <2>1, CountIs
  <2> QED BY <2>1, <2>2 DEF Abstract!pqVars
<1> QED BY <1>1, <1>2, <1>3, <1>4, <1>5, <1>6 DEF Next, Sift

(* The array implements the priority queue: the sifts neither lose nor     *)
(* double a value, and every extract returns the least (lines 72-139), for *)
(* every arity, capacity and set of values.                                *)
THEOREM QueueRefinement == Spec => ImplementsQueue
<1>1. Init => Abstract!Init
  <2> SUFFICES ASSUME Init PROVE Abstract!Init OBVIOUS
  <2>1. size = 0 /\ pc = "ready" /\ min = 0 BY DEF Init
  <2>2. \A w : Places(data, 0, w) = {} BY DEF Places
  <2>3. Count = [w \in Value |-> 0] BY <2>1, <2>2, CountIs, FS_EmptySet
  <2> QED BY <2>1, <2>3 DEF Abstract!Init
<1> QED BY <1>1, QueueStep, Invariance, PTL DEF Spec, ImplementsQueue, Abstract!Spec

(***************************************************************************)
(* The stacks of chapter 5, for every size and every heap.  The blocks of  *)
(* the list are numbered from its end, so that block x holds what place    *)
(* x - 1 of the array does.                                                *)
(***************************************************************************)
Lists(A, h) ==
  /\ h \in Nat /\ A \in [1 .. h -> Addr]
  /\ \A x, l \in 1 .. h : A[x] = A[l] => x = l
  /\ used = {A[x] : x \in 1 .. h}
  /\ list_head = IF h = 0 THEN NIL ELSE A[h]
  /\ \A x \in 1 .. h : /\ next[A[x]] = IF x = 1 THEN NIL ELSE A[x - 1]
                       /\ val[A[x]] = arr_stack[x - 1]

StackInv ==
  /\ arr_stack \in [0 .. STACK_SIZE - 1 -> Int] /\ arr_top \in -1 .. STACK_SIZE - 1
  /\ val \in [Addr -> Int] /\ next \in [Addr -> Addr \cup {NIL}]
  /\ arr_out = list_out
  /\ \E A : Lists(A, arr_top + 1)

LEMMA StackSizes ==
  /\ STACK_SIZE \in Nat \ {0} /\ StackValue \subseteq Int /\ IsFiniteSet(Addr) /\ NIL \notin Addr
BY StackAssumption

LEMMA StackStart == StackInit => StackInv
<1> SUFFICES ASSUME StackInit PROVE StackInv OBVIOUS
<1> DEFINE A == [x \in 1 .. 0 |-> NIL]
<1>1. arr_top = -1 /\ list_head = NIL /\ used = {} BY DEF StackInit
<1>2. Lists(A, 0) BY <1>1 DEF Lists
<1>3. arr_top + 1 = 0 BY <1>1
<1>4. \E B : Lists(B, arr_top + 1)
  <2> HIDE DEF A
  <2> QED BY <1>2, <1>3
<1> QED BY <1>4, StackSizes DEF StackInit, StackInv

(* The blocks after a step. *)
WillList(B, m) ==
  /\ m \in Nat /\ B \in [1 .. m -> Addr]
  /\ \A x, l \in 1 .. m : B[x] = B[l] => x = l
  /\ used' = {B[x] : x \in 1 .. m}
  /\ list_head' = IF m = 0 THEN NIL ELSE B[m]
  /\ \A x \in 1 .. m : /\ next'[B[x]] = IF x = 1 THEN NIL ELSE B[x - 1]
                       /\ val'[B[x]] = arr_stack'[x - 1]

LEMMA ListsNext ==
  ASSUME NEW B, NEW m, WillList(B, m), m = arr_top' + 1
  PROVE  \E A : Lists(A, arr_top + 1)'
<1>1. Lists(B, m)' BY DEF Lists, WillList
<1> QED BY <1>1

LEMMA PushStep ==
  ASSUME StackInv, NEW v \in StackValue, arr_push(v), list_push(v) PROVE StackInv'
<1> DEFINE h == arr_top + 1
<1>1. PICK A : Lists(A, h) BY DEF StackInv
<1>2. PICK a \in Addr \ used : /\ used' = used \cup {a}
                               /\ val' = [val EXCEPT ![a] = v]
                               /\ next' = [next EXCEPT ![a] = list_head]
                               /\ list_head' = a /\ list_out' = list_out
  BY DEF list_push
<1>3. /\ arr_top' = h /\ h \in 0 .. STACK_SIZE - 1 /\ arr_out' = arr_out
      /\ arr_stack' = [arr_stack EXCEPT ![h] = v]
  BY StackSizes DEF arr_push, StackInv
<1> DEFINE B == [x \in 1 .. h + 1 |-> IF x = h + 1 THEN a ELSE A[x]]
<1> HIDE DEF h
<1>4. /\ arr_stack \in [0 .. STACK_SIZE - 1 -> Int]
      /\ val \in [Addr -> Int] /\ next \in [Addr -> Addr \cup {NIL}]
  BY DEF StackInv
<1>5. v \in Int /\ list_head \in Addr \cup {NIL}
  <2>1. h # 0 => h \in 1 .. h BY <1>3
  <2> QED BY <1>1, <2>1, StackSizes DEF Lists
<1>6. /\ arr_stack' \in [0 .. STACK_SIZE - 1 -> Int]
      /\ val' \in [Addr -> Int] /\ next' \in [Addr -> Addr \cup {NIL}]
  BY <1>2, <1>3, <1>4, <1>5
<1>7. /\ h \in Nat /\ A \in [1 .. h -> Addr]
      /\ \A x, l \in 1 .. h : A[x] = A[l] => x = l
      /\ used = {A[x] : x \in 1 .. h}
      /\ \A x \in 1 .. h : /\ next[A[x]] = IF x = 1 THEN NIL ELSE A[x - 1]
                           /\ val[A[x]] = arr_stack[x - 1]
  BY <1>1 DEF Lists
<1>8. \A x \in 1 .. h : A[x] \in used /\ A[x] # a /\ A[x] \in Addr /\ x - 1 # h
  BY <1>2, <1>7
<1>9. \A x \in 1 .. h + 1 : B[x] = IF x = h + 1 THEN a ELSE A[x] OBVIOUS
<1>10. \A x \in 1 .. h + 1 : x = h + 1 \/ x \in 1 .. h BY <1>3
<1>11. B \in [1 .. h + 1 -> Addr] BY <1>2, <1>8, <1>10
<1> HIDE DEF B
<1>12. \A x, l \in 1 .. h + 1 : B[x] = B[l] => x = l BY <1>7, <1>8, <1>9, <1>10
<1>13. used' = {B[x] : x \in 1 .. h + 1}
  <2>1. h + 1 \in 1 .. h + 1 /\ \A x \in 1 .. h : x \in 1 .. h + 1 /\ x # h + 1 BY <1>3
  <2> QED BY <1>2, <1>7, <1>9, <1>10, <2>1
<1>14. list_head' = B[h + 1] /\ h + 1 \in Nat /\ h + 1 # 0 BY <1>2, <1>3, <1>9
<1>15. ASSUME NEW x \in 1 .. h + 1
       PROVE  /\ next'[B[x]] = IF x = 1 THEN NIL ELSE B[x - 1]
              /\ val'[B[x]] = arr_stack'[x - 1]
  <2>1. CASE x = h + 1
    <3>1. B[x] = a /\ next'[a] = list_head /\ val'[a] = v BY <1>2, <1>4, <1>9, <2>1
    <3>2. arr_stack'[h] = v /\ x - 1 = h BY <1>3, <1>4, <2>1
    <3>3. list_head = IF h = 0 THEN NIL ELSE A[h] BY <1>1 DEF Lists
    <3>4. h # 0 => B[x - 1] = A[h] BY <1>3, <1>9, <3>2
    <3>5. x = 1 <=> h = 0 BY <1>3, <2>1
    <3> QED BY <3>1, <3>2, <3>3, <3>4, <3>5
  <2>2. CASE x # h + 1
    <3>1. x \in 1 .. h /\ B[x] = A[x] BY <1>9, <1>10, <2>2
    <3>2. next'[A[x]] = next[A[x]] /\ val'[A[x]] = val[A[x]]
      BY <1>2, <1>4, <1>8, <3>1
    <3>3. arr_stack'[x - 1] = arr_stack[x - 1]
      <4>1. x - 1 \in 0 .. STACK_SIZE - 1 /\ x - 1 # h BY <1>3, <3>1, StackSizes
      <4> QED BY <1>3, <1>4, <4>1
    <3>4. x # 1 => B[x - 1] = A[x - 1]
      <4>1. x # 1 => x - 1 \in 1 .. h + 1 /\ x - 1 # h + 1 BY <1>3, <3>1
      <4> QED BY <1>9, <4>1
    <3> QED BY <1>7, <3>1, <3>2, <3>3, <3>4
  <2> QED BY <2>1, <2>2
<1>16. WillList(B, h + 1) /\ h + 1 = arr_top' + 1
  BY <1>3, <1>11, <1>12, <1>13, <1>14, <1>15 DEF WillList
<1>17. \E C : Lists(C, arr_top + 1)' BY <1>16, ListsNext
<1>18. arr_top' \in -1 .. STACK_SIZE - 1 /\ arr_out' = list_out'
  BY <1>2, <1>3 DEF StackInv
<1> QED BY <1>6, <1>17, <1>18 DEF StackInv

LEMMA PopStep == ASSUME StackInv, arr_pop, list_pop PROVE StackInv'
<1> DEFINE h == arr_top + 1
<1>1. PICK A : Lists(A, h) BY DEF StackInv
<1>2. /\ arr_top \in -1 .. STACK_SIZE - 1 /\ h \in 0 .. STACK_SIZE
      /\ arr_stack \in [0 .. STACK_SIZE - 1 -> Int]
      /\ val \in [Addr -> Int] /\ next \in [Addr -> Addr \cup {NIL}]
  BY StackSizes DEF StackInv
<1>3. /\ h \in Nat /\ A \in [1 .. h -> Addr]
      /\ \A x, l \in 1 .. h : A[x] = A[l] => x = l
      /\ used = {A[x] : x \in 1 .. h}
      /\ list_head = IF h = 0 THEN NIL ELSE A[h]
      /\ \A x \in 1 .. h : /\ next[A[x]] = IF x = 1 THEN NIL ELSE A[x - 1]
                           /\ val[A[x]] = arr_stack[x - 1]
  BY <1>1 DEF Lists
<1>4. CASE h = 0
  <2>1. arr_top < 0 /\ list_head = NIL BY <1>2, <1>3, <1>4
  <2>2. /\ arr_out' = 0 /\ list_out' = 0 /\ UNCHANGED <<arr_stack, arr_top, list_head, used, val, next>>
    BY <2>1 DEF arr_pop, list_pop
  <2>3. Lists(A, arr_top + 1)' BY <1>1, <2>2 DEF Lists
  <2> QED BY <1>2, <2>2, <2>3 DEF StackInv
<1>5. CASE h # 0
  <2> DEFINE a == A[h]
             B == [x \in 1 .. h - 1 |-> A[x]]
  <2>1. h \in 1 .. h /\ ~ (arr_top < 0) /\ arr_top = h - 1 BY <1>2, <1>5
  <2> HIDE DEF h
  <2>2. a \in Addr /\ list_head = a /\ a # NIL BY <1>3, <1>5, <2>1, StackSizes
  <2> HIDE DEF a
  <2>3. /\ arr_out' = arr_stack[h - 1] /\ arr_top' = h - 2 /\ arr_stack' = arr_stack
        /\ list_head' = next[a] /\ list_out' = val[a] /\ used' = used \ {a}
        /\ val' = [val EXCEPT ![a] = 0] /\ next' = [next EXCEPT ![a] = NIL]
    <3>1. /\ arr_out' = arr_stack[arr_top] /\ arr_top' = arr_top - 1 /\ arr_stack' = arr_stack
      BY <2>1 DEF arr_pop
    <3>2. /\ list_head' = next[a] /\ list_out' = val[a] /\ used' = used \ {a}
          /\ val' = [val EXCEPT ![a] = 0] /\ next' = [next EXCEPT ![a] = NIL]
      BY <2>2 DEF list_pop, free
    <3>3. arr_top - 1 = h - 2 BY <1>2, <2>1
    <3> QED BY <2>1, <3>1, <3>2, <3>3
  <2>4. \A x \in 1 .. h - 1 : /\ x \in 1 .. h /\ x # h /\ A[x] # a /\ A[x] \in Addr /\ B[x] = A[x]
    BY <1>2, <1>3, <2>1 DEF a
  <2>5. B \in [1 .. h - 1 -> Addr] BY <2>4
  <2> HIDE DEF B
  <2>6. \A x, l \in 1 .. h - 1 : B[x] = B[l] => x = l BY <1>3, <2>4
  <2>7. used' = {B[x] : x \in 1 .. h - 1}
    <3>1. \A x \in 1 .. h : x = h \/ x \in 1 .. h - 1 BY <1>2
    <3> QED BY <1>3, <2>3, <2>4, <3>1 DEF a
  <2>8. next[a] = IF h = 1 THEN NIL ELSE A[h - 1] BY <1>3, <2>1 DEF a
  <2>9. list_head' = IF h - 1 = 0 THEN NIL ELSE B[h - 1]
    <3>1. h # 1 => h - 1 \in 1 .. h - 1 BY <1>2, <2>1
    <3>2. h = 1 <=> h - 1 = 0 BY <1>2
    <3> QED BY <2>3, <2>4, <2>8, <3>1, <3>2
  <2>10. ASSUME NEW x \in 1 .. h - 1
         PROVE  /\ next'[B[x]] = IF x = 1 THEN NIL ELSE B[x - 1]
                /\ val'[B[x]] = arr_stack'[x - 1]
    <3>1. B[x] = A[x] /\ next'[A[x]] = next[A[x]] /\ val'[A[x]] = val[A[x]] /\ x \in 1 .. h
      BY <1>2, <2>3, <2>4
    <3>2. x # 1 => B[x - 1] = A[x - 1]
      <4>1. x # 1 => x - 1 \in 1 .. h - 1 BY <1>2
      <4> QED BY <2>4, <4>1
    <3> QED BY <1>3, <2>3, <3>1, <3>2
  <2>11. h - 1 \in Nat BY <1>2, <2>1
  <2>12. h - 1 = arr_top' + 1 /\ arr_top' \in -1 .. STACK_SIZE - 1
    BY <1>2, <2>1, <2>3, StackSizes
  <2>13. WillList(B, h - 1) BY <2>5, <2>6, <2>7, <2>9, <2>10, <2>11 DEF WillList
  <2>14. \E C : Lists(C, arr_top + 1)' BY <2>12, <2>13, ListsNext
  <2>15. arr_out' = list_out' BY <1>3, <2>1, <2>3 DEF a
  <2>16. /\ val' \in [Addr -> Int] /\ next' \in [Addr -> Addr \cup {NIL}]
    BY <1>2, <2>2, <2>3
  <2> QED BY <1>2, <2>3, <2>12, <2>14, <2>15, <2>16 DEF StackInv
<1> QED BY <1>4, <1>5

LEMMA StackStep == StackInv /\ [StackNext]_stackVars => StackInv'
<1> SUFFICES ASSUME StackInv, [StackNext]_stackVars PROVE StackInv' OBVIOUS
<1>1. CASE Push BY <1>1, PushStep DEF Push
<1>2. CASE Pop BY <1>2, PopStep DEF Pop
<1>3. CASE PushFails \/ UNCHANGED stackVars
  <2>1. UNCHANGED <<arr_stack, arr_top, arr_out, list_head, used, val, next, list_out>>
    BY <1>3 DEF PushFails, stackVars, arrVars, listVars
  <2>2. PICK A : Lists(A, arr_top + 1) BY DEF StackInv
  <2>3. Lists(A, arr_top + 1)' BY <2>1, <2>2 DEF Lists
  <2> QED BY <2>1, <2>3 DEF StackInv
<1> QED BY <1>1, <1>2, <1>3 DEF StackNext

(* The walk from list_head meets the blocks from the last to the first.    *)
LEMMA WalkIs ==
  ASSUME NEW A, NEW h, Lists(A, h)
  PROVE  /\ h <= Cardinality(Addr) /\ Cardinality(Addr) \in Nat
         /\ NodeAt = [m \in 0 .. Cardinality(Addr) |-> IF m < h THEN A[h - m] ELSE NIL]
<1> DEFINE C == Cardinality(Addr)
           Rule(f, m) == IF m = 0 THEN list_head ELSE IF f[m - 1] = NIL THEN NIL ELSE next[f[m - 1]]
           w == [m \in 0 .. C |-> IF m < h THEN A[h - m] ELSE NIL]
<1>1. /\ h \in Nat /\ A \in [1 .. h -> Addr]
      /\ \A x, l \in 1 .. h : A[x] = A[l] => x = l
      /\ list_head = IF h = 0 THEN NIL ELSE A[h]
      /\ \A x \in 1 .. h : next[A[x]] = IF x = 1 THEN NIL ELSE A[x - 1]
  BY DEF Lists
<1>2. h <= C /\ C \in Nat
  <2>1. A \in Injection(1 .. h, Addr) BY <1>1 DEF Injection, IsInjective
  <2>2. Cardinality(1 .. h) <= C BY <2>1, StackSizes, FS_Injection
  <2>3. Cardinality(1 .. h) = h BY <1>1, FS_Interval
  <2> QED BY <2>2, <2>3, StackSizes, FS_CardinalityType
<1> HIDE DEF C
<1>3. \A m \in 0 .. C : w[m] = IF m < h THEN A[h - m] ELSE NIL OBVIOUS
<1>4. ASSUME NEW m \in 0 .. C PROVE w[m] = Rule(w, m)
  <2>1. CASE m = 0 BY <1>1, <1>2, <1>3, <2>1
  <2>2. CASE m # 0 /\ m - 1 < h
    <3> DEFINE x == h - (m - 1)
    <3>1. m - 1 \in 0 .. C /\ x \in 1 .. h /\ x - 1 = h - m /\ (x = 1 <=> ~ (m < h))
      BY <1>1, <1>2, <2>2
    <3>2. w[m - 1] = A[x] /\ A[x] # NIL BY <1>1, <1>3, <2>2, <3>1, StackSizes
    <3>3. next[A[x]] = IF x = 1 THEN NIL ELSE A[x - 1] BY <1>1, <3>1
    <3> HIDE DEF w, x
    <3> QED BY <1>3, <2>2, <3>1, <3>2, <3>3
  <2>3. CASE m # 0 /\ ~ (m - 1 < h)
    <3>1. m - 1 \in 0 .. C /\ ~ (m < h) BY <1>1, <1>2, <2>3
    <3>2. w[m - 1] = NIL /\ w[m] = NIL BY <1>3, <2>3, <3>1
    <3> HIDE DEF w
    <3> QED BY <2>3, <3>2
  <2> QED BY <2>1, <2>2, <2>3
<1>5. w = [m \in 0 .. C |-> Rule(w, m)]
  <2>1. w = [m \in 0 .. C |-> w[m]] OBVIOUS
  <2> HIDE DEF Rule, w
  <2> QED BY <1>4, <2>1
<1>6. NodeAt = CHOOSE f : f = [m \in 0 .. C |-> Rule(f, m)] BY DEF NodeAt, C
<1> DEFINE G == NodeAt
<1> HIDE DEF Rule, w
<1>7. G = [m \in 0 .. C |-> Rule(G, m)] BY <1>5, <1>6, Zenon
<1> HIDE DEF G
<1>8. \A m \in 0 .. C : G[m] = Rule(G, m) BY <1>7
<1> DEFINE T == {m \in 0 .. C : G[m] # w[m]}
<1>9. T = {}
  <2> SUFFICES ASSUME T # {} PROVE FALSE OBVIOUS
  <2>1. T \in SUBSET Nat BY <1>2
  <2>2. PICK m \in T : \A l \in T : m <= l BY <2>1, LeastNumber
  <2>3. m \in 0 .. C /\ G[m] # w[m] OBVIOUS
  <2>4. Rule(G, m) = Rule(w, m)
    <3>1. CASE m = 0 BY <3>1 DEF Rule
    <3>2. CASE m # 0
      <4>1. m - 1 \in 0 .. C /\ ~ (m <= m - 1) BY <1>2, <2>3, <3>2
      <4>2. G[m - 1] = w[m - 1] BY <2>2, <4>1
      <4> QED BY <4>2 DEF Rule
    <3> QED BY <3>1, <3>2
  <2> QED BY <1>4, <1>8, <2>3, <2>4 DEF Rule
<1>10. G = w
  <2>1. \A m \in 0 .. C : G[m] = w[m] BY <1>9
  <2>2. G = [m \in 0 .. C |-> G[m]] BY <1>7
  <2>3. w = [m \in 0 .. C |-> w[m]] BY DEF w
  <2> HIDE DEF w, T
  <2> QED BY <2>1, <2>2, <2>3
<1> QED BY <1>2, <1>10 DEF G, w, C

(* What the list holds is what the array holds. *)
LEMMA SameItems == StackInv => HeapIsTheList /\ ArrItems = ListItems /\ arr_out = list_out
<1> SUFFICES ASSUME StackInv PROVE HeapIsTheList /\ ArrItems = ListItems /\ arr_out = list_out
  OBVIOUS
<1> DEFINE h == arr_top + 1
           C == Cardinality(Addr)
           W == NodeAt
<1>1. PICK A : Lists(A, h) BY DEF StackInv
<1>2. h <= C /\ C \in Nat /\ W = [m \in 0 .. C |-> IF m < h THEN A[h - m] ELSE NIL]
  BY <1>1, WalkIs
<1>3. /\ h \in Nat /\ A \in [1 .. h -> Addr]
      /\ used = {A[x] : x \in 1 .. h}
      /\ \A x \in 1 .. h : val[A[x]] = arr_stack[x - 1]
  BY <1>1 DEF Lists
<1> HIDE DEF h, C
<1>4. \A m \in 0 .. C : W[m] = IF m < h THEN A[h - m] ELSE NIL
  <2> HIDE DEF W
  <2> QED BY <1>2
<1>5. DOMAIN W = 0 .. C BY <1>2
<1>6. \A x \in 1 .. h : h - x \in 0 .. C /\ W[h - x] = A[x] /\ A[x] \in Addr /\ A[x] # NIL
  <2> HIDE DEF W
  <2> SUFFICES ASSUME NEW x \in 1 .. h
               PROVE  h - x \in 0 .. C /\ W[h - x] = A[x] /\ A[x] \in Addr /\ A[x] # NIL
    OBVIOUS
  <2>1. h - x \in 0 .. C /\ h - x < h /\ h - (h - x) = x BY <1>2, <1>3
  <2>2. A[x] \in Addr /\ A[x] # NIL BY <1>3, StackSizes
  <2> QED BY <1>4, <2>1, <2>2
<1>7. \A m \in 0 .. C : W[m] # NIL => h - m \in 1 .. h /\ W[m] = A[h - m] /\ m \in 0 .. h - 1
  <2> HIDE DEF W
  <2> QED BY <1>2, <1>3, <1>4
<1>8. Length = h
  <2>1. {m \in 0 .. C : W[m] # NIL} = 0 .. h - 1
    <3>1. \A m \in 0 .. h - 1 : h - m \in 1 .. h /\ h - (h - m) = m BY <1>3
    <3>2. \A m \in 0 .. h - 1 : m \in 0 .. C /\ W[m] # NIL BY <1>6, <3>1
    <3> HIDE DEF W
    <3> QED BY <1>7, <3>2
  <2>2. Cardinality(0 .. h - 1) = h
    <3>1. 0 \in Int /\ h - 1 \in Int /\ (IF 0 > h - 1 THEN 0 ELSE (h - 1) - 0 + 1) = h BY <1>3
    <3>2. Cardinality(0 .. h - 1) = IF 0 > h - 1 THEN 0 ELSE (h - 1) - 0 + 1 BY <3>1, FS_Interval
    <3> QED BY <3>1, <3>2
  <2>3. Length = Cardinality({m \in 0 .. C : W[m] # NIL}) BY <1>5 DEF Length
  <2> QED BY <2>1, <2>2, <2>3
<1>9. ArrItems = ListItems
  <2>1. \A s \in 1 .. h : val[W[h - s]] = arr_stack[s - 1] BY <1>3, <1>6
  <2>2. ArrItems = [s \in 1 .. h |-> arr_stack[s - 1]] BY DEF ArrItems, h
  <2>3. ListItems = [s \in 1 .. h |-> val[W[h - s]]] BY <1>8 DEF ListItems
  <2> HIDE DEF W
  <2> QED BY <2>1, <2>2, <2>3
<1>10. HeapIsTheList
  <2>1. \A a \in used : \E m \in 0 .. C : W[m] = a /\ a # NIL BY <1>3, <1>6
  <2>2. \A m \in 0 .. C : W[m] # NIL => W[m] \in used BY <1>3, <1>7
  <2>3. used = {W[m] : m \in 0 .. C} \ {NIL}
    <3> HIDE DEF W
    <3> QED BY <2>1, <2>2
  <2> QED BY <1>5, <2>3 DEF HeapIsTheList
<1> QED BY <1>9, <1>10 DEF StackInv

LEMMA ArrayInit == StackInit => ArrayStack!Init
<1> SUFFICES ASSUME StackInit PROVE ArrayStack!Init OBVIOUS
<1>1. arr_top + 1 = 0 /\ arr_out = 0 BY DEF StackInit
<1>2. ArrItems = <<>> BY <1>1 DEF ArrItems
<1> QED BY <1>1, <1>2 DEF ArrayStack!Init

LEMMA ArrayStep ==
  StackInv /\ [StackNext]_stackVars =>
    [ArrayStack!Push \/ ArrayStack!Pop \/ ArrayStack!PopEmpty]_<<ArrItems, arr_out>>
<1> SUFFICES ASSUME StackInv, [StackNext]_stackVars
             PROVE  [ArrayStack!Push \/ ArrayStack!Pop \/ ArrayStack!PopEmpty]_<<ArrItems, arr_out>>
  OBVIOUS
<1> DEFINE h == arr_top + 1
<1>1. /\ arr_top \in -1 .. STACK_SIZE - 1 /\ h \in 0 .. STACK_SIZE
      /\ arr_stack \in [0 .. STACK_SIZE - 1 -> Int]
  BY StackSizes DEF StackInv
<1>2. ArrItems = [s \in 1 .. h |-> arr_stack[s - 1]] BY DEF ArrItems
<1>3. ArrItems \in Seq(Int) /\ Len(ArrItems) = h
  <2>1. \A s \in 1 .. h : arr_stack[s - 1] \in Int BY <1>1, StackSizes
  <2> QED BY <1>1, <1>2, <2>1
<1>4. CASE Push
  <2>1. PICK v \in StackValue : arr_push(v) BY <1>4 DEF Push
  <2>2. /\ arr_top < STACK_SIZE - 1 /\ arr_top' = h /\ arr_out' = arr_out
        /\ arr_stack' = [arr_stack EXCEPT ![h] = v]
    BY <2>1 DEF arr_push
  <2>3. ArrItems' = [s \in 1 .. h + 1 |-> arr_stack'[s - 1]] BY <2>2 DEF ArrItems
  <2> HIDE DEF h
  <2>4. h < STACK_SIZE /\ STACK_SIZE \in Nat BY <1>1, <2>2, StackSizes DEF h
  <2>5. v \in Int BY StackSizes
  <2> DEFINE new == Append(ArrItems, v)
  <2>6. new \in Seq(Int) /\ Len(new) = h + 1 /\ new[h + 1] = v
        /\ \A s \in 1 .. h : new[s] = ArrItems[s]
    BY <1>3, <2>5, AppendFacts
  <2> HIDE DEF new
  <2>7. ASSUME NEW s \in 1 .. h + 1 PROVE arr_stack'[s - 1] = new[s]
    <3>1. CASE s = h + 1
      <4>1. s - 1 = h /\ h \in 0 .. STACK_SIZE - 1 BY <1>1, <2>4, <3>1
      <4> QED BY <1>1, <2>2, <2>6, <3>1, <4>1
    <3>2. CASE s # h + 1
      <4>1. s \in 1 .. h /\ s - 1 # h /\ s - 1 \in 0 .. STACK_SIZE - 1 BY <1>1, <2>4, <3>2
      <4>2. arr_stack'[s - 1] = arr_stack[s - 1] BY <1>1, <2>2, <4>1
      <4>3. ArrItems[s] = arr_stack[s - 1] BY <1>2, <4>1
      <4> QED BY <2>6, <4>1, <4>2, <4>3
    <3> QED BY <3>1, <3>2
  <2>8. ArrItems' = Append(ArrItems, v)
    <3>1. new = [s \in 1 .. h + 1 |-> new[s]] BY <2>6
    <3> QED BY <2>3, <2>7, <3>1 DEF new
  <2>9. ArrayStack!Push BY <1>3, <2>2, <2>4, <2>8 DEF ArrayStack!Push
  <2> QED BY <2>9
<1>5. CASE Pop /\ h = 0
  <2>1. arr_top < 0 BY <1>1, <1>5
  <2>2. arr_out' = 0 /\ arr_top' = arr_top /\ arr_stack' = arr_stack
    BY <1>5, <2>1 DEF Pop, arr_pop
  <2>3. ArrItems' = ArrItems BY <2>2 DEF ArrItems
  <2>4. ArrItems = <<>> BY <1>3, <1>5
  <2>5. ArrayStack!PopEmpty BY <2>2, <2>3, <2>4 DEF ArrayStack!PopEmpty
  <2> QED BY <2>5
<1>6. CASE Pop /\ h # 0
  <2>1. ~ (arr_top < 0) /\ arr_top = h - 1 BY <1>1, <1>6
  <2>2. arr_out' = arr_stack[h - 1] /\ arr_top' + 1 = h - 1 /\ arr_stack' = arr_stack
    <3>1. arr_out' = arr_stack[arr_top] /\ arr_top' = arr_top - 1 /\ arr_stack' = arr_stack
      BY <1>6, <2>1 DEF Pop, arr_pop
    <3> QED BY <1>1, <2>1, <3>1
  <2>3. ArrItems' = [s \in 1 .. h - 1 |-> arr_stack[s - 1]] BY <2>2 DEF ArrItems
  <2> HIDE DEF h
  <2>4. h \in 1 .. h /\ ArrItems # <<>> BY <1>1, <1>3, <1>6
  <2>5. arr_out' = Last(ArrItems) BY <1>2, <1>3, <2>2, <2>4 DEF Last
  <2>6. Front(ArrItems) = [s \in 1 .. h - 1 |-> ArrItems[s]]
    <3>1. SubSeq(ArrItems, 1, h - 1) = [s \in 1 .. h - 1 |-> ArrItems[s]]
      BY <1>1, <1>3, <1>6
    <3> QED BY <1>3, <3>1 DEF Front
  <2>7. \A s \in 1 .. h - 1 : ArrItems[s] = arr_stack[s - 1]
    <3>1. \A s \in 1 .. h - 1 : s \in 1 .. h BY <1>1
    <3> QED BY <1>2, <3>1
  <2>8. ArrItems' = Front(ArrItems) BY <2>3, <2>6, <2>7
  <2>9. ArrayStack!Pop BY <2>4, <2>5, <2>8 DEF ArrayStack!Pop, ArrayStack!Last, ArrayStack!Front, Last, Front
  <2> QED BY <2>9
<1>7. CASE PushFails \/ UNCHANGED stackVars
  <2>1. UNCHANGED <<arr_stack, arr_top, arr_out>>
    BY <1>7 DEF PushFails, stackVars, arrVars
  <2>2. ArrItems' = ArrItems BY <2>1 DEF ArrItems
  <2> QED BY <2>1, <2>2
<1> QED BY <1>4, <1>5, <1>6, <1>7 DEF StackNext

(* The list is the same stack, as it holds and returns the same.           *)
LEMMA ListInit == StackInit => ListStack!Init
<1> SUFFICES ASSUME StackInit PROVE ListStack!Init OBVIOUS
<1>1. ArrItems = ListItems /\ arr_out = list_out BY StackStart, SameItems
<1>2. ArrItems = <<>> /\ arr_out = 0 BY ArrayInit DEF ArrayStack!Init
<1> QED BY <1>1, <1>2 DEF ListStack!Init

LEMMA ListStep ==
  StackInv /\ [StackNext]_stackVars =>
    [ListStack!Push \/ ListStack!Pop \/ ListStack!PopEmpty]_<<ListItems, list_out>>
<1> SUFFICES ASSUME StackInv, [StackNext]_stackVars
             PROVE  [ListStack!Push \/ ListStack!Pop \/ ListStack!PopEmpty]_<<ListItems, list_out>>
  OBVIOUS
<1>1. ArrItems = ListItems /\ arr_out = list_out BY SameItems
<1>2. StackInv' BY StackStep
<1>3. (ArrItems = ListItems /\ arr_out = list_out)' BY <1>2, SameItems, PTL
<1>4. [ArrayStack!Push \/ ArrayStack!Pop \/ ArrayStack!PopEmpty]_<<ArrItems, arr_out>>
  BY ArrayStep
<1>5. ASSUME ArrayStack!Push PROVE ListStack!Push
  BY <1>1, <1>3, <1>5 DEF ArrayStack!Push, ListStack!Push
<1>6. ASSUME ArrayStack!Pop PROVE ListStack!Pop
  BY <1>1, <1>3, <1>6 DEF ArrayStack!Pop, ListStack!Pop, ArrayStack!Last, ArrayStack!Front,
      ListStack!Last, ListStack!Front
<1>7. ASSUME ArrayStack!PopEmpty PROVE ListStack!PopEmpty
  BY <1>1, <1>3, <1>7 DEF ArrayStack!PopEmpty, ListStack!PopEmpty
<1>8. ASSUME UNCHANGED <<ArrItems, arr_out>> PROVE UNCHANGED <<ListItems, list_out>>
  BY <1>1, <1>3, <1>8
<1> QED BY <1>4, <1>5, <1>6, <1>7, <1>8

(* Both implementations are the same stack, and the nodes in use are those *)
(* of the list: no call leaks one or leaves one dangling (lines 6-107).    *)
THEOREM StacksAgree == StackSpec => BothAreStacks
<1>1. StackInit => StackInv BY StackStart
<1>2. StackInv /\ [StackNext]_stackVars => StackInv' BY StackStep
<1>3. StackSpec => []StackInv BY <1>1, <1>2, PTL DEF StackSpec
<1>4. StackSpec => ArrayStack!Spec BY <1>3, ArrayInit, ArrayStep, PTL DEF StackSpec, ArrayStack!Spec
<1>5. StackSpec => ListStack!Spec BY <1>3, ListInit, ListStep, PTL DEF StackSpec, ListStack!Spec
<1>6. StackSpec => [](HeapIsTheList /\ ArrItems = ListItems /\ arr_out = list_out)
  BY <1>3, SameItems, PTL
<1> QED BY <1>4, <1>5, <1>6 DEF BothAreStacks
=============================================================================
