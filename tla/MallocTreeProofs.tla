-------------------------- MODULE MallocTreeProofs --------------------------
(***************************************************************************)
(* The malloc device tree, for every heap and all numbers of devices,      *)
(* properties and parses.  Its memory is determined by the blocks that     *)
(* malloc returned, numbered by device m and by l: 0 for the device itself *)
(* and l for its property number l - 1.  linked_list_parse adds numbers at *)
(* the end, linked_list_free takes them away there.                        *)
(***************************************************************************)
EXTENDS MallocTree, FiniteSetTheorems, CommonTheorems

Numbering == [Nat \X Nat -> Pointer]

(* The blocks of n devices, the newest with p properties. *)
Live(n, p) == {x \in (0 .. n - 1) \X (0 .. MAX_PROPS) : x[1] = n - 1 => x[2] <= p}

(* No two of them are the same block, and no other block is in use. *)
Allocated(A, n, p) ==
  /\ used = {A[x] : x \in Live(n, p)}
  /\ \A x \in Live(n, p), y \in Live(n, p) : A[x] = A[y] => x = y

(* Every block leads to the one that was linked before it. *)
Linked(A, n, p) ==
  /\ \A m \in 0 .. n - 1 : /\ next[A[<<m, 0>>]] = IF m = 0 THEN NULL ELSE A[<<m - 1, 0>>]
                           /\ name[A[<<m, 0>>]] = m
  /\ \A x \in Live(n, p) : x[2] > 0 =>
       /\ next[A[x]] = IF x[2] = 1 THEN NULL ELSE A[<<x[1], x[2] - 1>>]
       /\ name[A[x]] = x[2] - 1

(* A device leads to its last property, unless these are being freed; no   *)
(* other block has a props field.                                          *)
PropsLinked(A, n, p) ==
  /\ \A m \in 0 .. n - 2 : props[A[<<m, 0>>]] = A[<<m, MAX_PROPS>>]
  /\ n > 0 /\ pc # "free_prop" =>
       props[A[<<n - 1, 0>>]] = IF p = 0 THEN NULL ELSE A[<<n - 1, p>>]
  /\ \A a \in Addr : (\A m \in 0 .. n - 1 : a # A[<<m, 0>>]) => props[a] = NULL

Newest(A, n) == IF n = 0 THEN NULL ELSE A[<<n - 1, 0>>]

(* What the control state says. *)
Position(A, n, p) ==
  /\ n \in 0 .. MAX_NODES /\ p \in 0 .. MAX_PROPS
  /\ pc = "begin" => n = 0
  /\ pc = "node" => n = i
  /\ pc = "prop" => n = i + 1 /\ p = j /\ node = A[<<n - 1, 0>>]
  /\ pc \in {"node", "prop", "exited"} => head = Newest(A, n)
  /\ pc \in {"begin", "node", "free_node"} => p = MAX_PROPS
  /\ pc = "free_node" => node = Newest(A, n)
  /\ pc = "free_prop" => /\ n > 0 /\ node = A[<<n - 1, 0>>]
                         /\ prop = IF p = 0 THEN NULL ELSE A[<<n - 1, p>>]

Holds(A, n, p) ==
  /\ Allocated(A, n, p) /\ Linked(A, n, p) /\ PropsLinked(A, n, p) /\ Position(A, n, p)

HeapInv ==
  /\ TypeOK
  /\ pc = "prop" => i < MAX_NODES
  /\ pc # "begin" => parses < PARSES
  /\ \E A \in Numbering, n \in Nat, p \in Nat : Holds(A, n, p)

LEMMA Limits ==
  /\ MAX_NODES \in Nat \ {0} /\ MAX_PROPS \in Nat \ {0} /\ PARSES \in Nat \ {0}
  /\ NULL \notin Addr
BY MallocAssumption

LEMMA LiveFacts ==
  ASSUME NEW n \in Nat, NEW p \in 0 .. MAX_PROPS
  PROVE  /\ Live(n, p) \subseteq Nat \X Nat
         /\ \A m \in Nat, l \in Nat :
              <<m, l>> \in Live(n, p) <=> m < n /\ l <= MAX_PROPS /\ (m = n - 1 => l <= p)
         /\ \A x \in Live(n, p) : x = <<x[1], x[2]>> /\ x[1] \in Nat /\ x[2] \in Nat
BY Limits DEF Live

(* One block more or less at the end. *)
LEMMA LiveNode ==
  ASSUME NEW n \in Nat
  PROVE  /\ Live(n + 1, 0) = Live(n, MAX_PROPS) \cup {<<n, 0>>}
         /\ <<n, 0>> \notin Live(n, MAX_PROPS)
BY Limits DEF Live

LEMMA LiveProp ==
  ASSUME NEW n \in Nat \ {0}, NEW p \in 0 .. MAX_PROPS - 1
  PROVE  /\ Live(n, p + 1) = Live(n, p) \cup {<<n - 1, p + 1>>}
         /\ <<n - 1, p + 1>> \notin Live(n, p)
BY Limits DEF Live

LEMMA HeapStart == Init => HeapInv
<1> SUFFICES ASSUME Init PROVE HeapInv OBVIOUS
<1> USE Limits
<1>1. /\ used = {} /\ name = [a \in Addr |-> 0] /\ props = [a \in Addr |-> NULL]
      /\ next = [a \in Addr |-> NULL]
      /\ head = NULL /\ node = NULL /\ prop = NULL
      /\ pc = "begin" /\ i = 0 /\ j = 0 /\ parses = 0
  BY DEF Init
<1>2. TypeOK BY <1>1 DEF TypeOK, Pointer
<1> DEFINE A == [x \in Nat \X Nat |-> NULL]
<1>3. A \in Numbering BY DEF Numbering, Pointer
<1>4. Live(0, MAX_PROPS) = {} BY DEF Live
<1>5. Allocated(A, 0, MAX_PROPS) BY <1>1, <1>4 DEF Allocated
<1>6. Linked(A, 0, MAX_PROPS) BY <1>4 DEF Linked
<1>7. PropsLinked(A, 0, MAX_PROPS) BY <1>1 DEF PropsLinked
<1>8. Position(A, 0, MAX_PROPS) BY <1>1 DEF Position
<1> HIDE DEF A
<1>9. Holds(A, 0, MAX_PROPS) BY <1>5, <1>6, <1>7, <1>8 DEF Holds
<1> QED BY <1>1, <1>2, <1>3, <1>9 DEF HeapInv

(* A block that was not in use gets the next number. *)
LEMMA Extended ==
  ASSUME NEW A \in Numbering, NEW n \in Nat, NEW p \in 0 .. MAX_PROPS, Allocated(A, n, p),
         NEW a \in Addr, a \notin used, NEW z \in Nat \X Nat, z \notin Live(n, p),
         NEW m \in Nat, NEW q \in 0 .. MAX_PROPS, Live(m, q) = Live(n, p) \cup {z},
         used' = used \cup {a}
  PROVE  LET B == [A EXCEPT ![z] = a]
         IN /\ B \in Numbering /\ Allocated(B, m, q)'
            /\ B[z] = a
            /\ \A x \in Live(n, p) : B[x] = A[x] /\ A[x] # a /\ A[x] \in used
<1> DEFINE B == [A EXCEPT ![z] = a]
<1>1. B \in Numbering BY DEF Numbering, Pointer
<1>2. /\ used = {A[x] : x \in Live(n, p)}
      /\ \A x \in Live(n, p), y \in Live(n, p) : A[x] = A[y] => x = y
  BY DEF Allocated
<1>3. Live(n, p) \subseteq Nat \X Nat BY LiveFacts
<1>4. B[z] = a /\ \A x \in Live(n, p) : B[x] = A[x] BY <1>3 DEF Numbering
<1> HIDE DEF B
<1>5. \A x \in Live(n, p) : A[x] \in used /\ A[x] # a BY <1>2
<1>6. used' = {B[x] : x \in Live(m, q)} BY <1>2, <1>4
<1>7. \A x \in Live(m, q), y \in Live(m, q) : B[x] = B[y] => x = y BY <1>2, <1>4, <1>5
<1>8. Allocated(B, m, q)' BY <1>6, <1>7 DEF Allocated
<1> QED BY <1>1, <1>4, <1>5, <1>8 DEF B

(* The block with the last number is freed. *)
LEMMA Shrunk ==
  ASSUME NEW A \in Numbering, NEW n \in Nat, NEW p \in 0 .. MAX_PROPS, Allocated(A, n, p),
         NEW z, NEW m \in Nat, NEW q \in 0 .. MAX_PROPS,
         z \notin Live(m, q), Live(n, p) = Live(m, q) \cup {z},
         used' = used \ {A[z]}
  PROVE  /\ Allocated(A, m, q)'
         /\ \A x \in Live(m, q) : A[x] # A[z] /\ A[x] \in used
<1>1. /\ used = {A[x] : x \in Live(n, p)}
      /\ \A x \in Live(n, p), y \in Live(n, p) : A[x] = A[y] => x = y
  BY DEF Allocated
<1>2. \A x \in Live(m, q) : A[x] # A[z] /\ A[x] \in used BY <1>1
<1>3. used' = {A[x] : x \in Live(m, q)} BY <1>1, <1>2
<1>4. \A x \in Live(m, q), y \in Live(m, q) : A[x] = A[y] => x = y BY <1>1
<1>5. Allocated(A, m, q)' BY <1>3, <1>4 DEF Allocated
<1> QED BY <1>2, <1>5

LEMMA ParseNodeKeeps ==
  ASSUME TypeOK, NEW a \in Addr, ParseNode(a),
         NEW A \in Numbering, NEW n \in Nat, NEW p \in Nat, Holds(A, n, p)
  PROVE  \E B \in Numbering : Holds(B, n + 1, 0)' /\ p = MAX_PROPS /\ n = i
<1> USE Limits
<1>1. /\ pc = "node" /\ i < MAX_NODES /\ a \notin used /\ used' = used \cup {a}
      /\ name' = [name EXCEPT ![a] = i]
      /\ props' = [props EXCEPT ![a] = NULL]
      /\ next' = [next EXCEPT ![a] = head]
      /\ head' = a /\ node' = a /\ j' = 0 /\ pc' = "prop" /\ prop' = prop /\ i' = i
  BY DEF ParseNode, malloc
<1>2. /\ n \in 0 .. MAX_NODES /\ p = MAX_PROPS /\ n = i /\ head = Newest(A, n)
      /\ Allocated(A, n, p) /\ Linked(A, n, p) /\ PropsLinked(A, n, p)
  BY <1>1 DEF Holds, Position
<1> DEFINE z == <<n, 0>>
           B == [A EXCEPT ![z] = a]
<1>3. Live(n + 1, 0) = Live(n, p) \cup {z} /\ z \notin Live(n, p) BY <1>2, LiveNode
<1>4. /\ B \in Numbering /\ Allocated(B, n + 1, 0)' /\ B[z] = a
      /\ \A x \in Live(n, p) : B[x] = A[x] /\ A[x] # a /\ A[x] \in used
  BY <1>1, <1>2, <1>3, Extended, SMTT(30)
<1>5. used \subseteq Addr BY DEF TypeOK
<1> HIDE DEF B
<1>6. /\ next'[a] = head /\ name'[a] = i /\ props'[a] = NULL
      /\ \A b \in Addr : b # a => /\ next'[b] = next[b] /\ name'[b] = name[b]
                                  /\ props'[b] = props[b]
  BY <1>1 DEF TypeOK
<1>7. /\ \A m \in 0 .. n - 1 : <<m, 0>> \in Live(n, p)
      /\ \A m \in 0 .. n - 1, l \in 0 .. MAX_PROPS : <<m, l>> \in Live(n, p)
  BY <1>2 DEF Live
<1>8. Linked(B, n + 1, 0)'
  <2>1. ASSUME NEW m \in 0 .. n
        PROVE  /\ next'[B[<<m, 0>>]] = IF m = 0 THEN NULL ELSE B[<<m - 1, 0>>]
               /\ name'[B[<<m, 0>>]] = m
    <3>1. CASE m = n
      <4>1. n > 0 => B[<<n - 1, 0>>] = A[<<n - 1, 0>>] BY <1>4, <1>7
      <4> QED BY <1>2, <1>4, <1>6, <3>1, <4>1 DEF Newest
    <3>2. CASE m # n
      <4>1. m \in 0 .. n - 1 BY <3>2
      <4>2. /\ B[<<m, 0>>] = A[<<m, 0>>] /\ A[<<m, 0>>] # a /\ A[<<m, 0>>] \in Addr
            /\ m > 0 => B[<<m - 1, 0>>] = A[<<m - 1, 0>>]
        BY <1>4, <1>5, <1>7, <4>1
      <4> QED BY <1>2, <1>6, <4>1, <4>2 DEF Linked
    <3> QED BY <3>1, <3>2
  <2>2. ASSUME NEW x \in Live(n + 1, 0), x[2] > 0
        PROVE  /\ next'[B[x]] = IF x[2] = 1 THEN NULL ELSE B[<<x[1], x[2] - 1>>]
               /\ name'[B[x]] = x[2] - 1
    <3>1. x \in Live(n, p) /\ x = <<x[1], x[2]>> /\ x[1] \in 0 .. n - 1 /\ x[2] \in 1 .. MAX_PROPS
      BY <1>2, <1>3, <2>2 DEF Live
    <3>2. /\ B[x] = A[x] /\ A[x] # a /\ A[x] \in Addr
          /\ B[<<x[1], x[2] - 1>>] = A[<<x[1], x[2] - 1>>]
      BY <1>4, <1>5, <1>7, <3>1
    <3> QED BY <1>2, <1>6, <2>2, <3>1, <3>2 DEF Linked
  <2>3. n + 1 - 1 = n OBVIOUS
  <2> QED BY <2>1, <2>2, <2>3 DEF Linked
<1>9. PropsLinked(B, n + 1, 0)'
  <2>1. ASSUME NEW m \in 0 .. n - 1 PROVE props'[B[<<m, 0>>]] = B[<<m, MAX_PROPS>>]
    <3>1. /\ B[<<m, 0>>] = A[<<m, 0>>] /\ A[<<m, 0>>] # a /\ A[<<m, 0>>] \in Addr
          /\ B[<<m, MAX_PROPS>>] = A[<<m, MAX_PROPS>>]
      BY <1>4, <1>5, <1>7
    <3>2. props[A[<<m, 0>>]] = A[<<m, MAX_PROPS>>]
      <4>1. CASE m = n - 1 BY <1>1, <1>2, <4>1 DEF PropsLinked
      <4>2. CASE m # n - 1 BY <1>2, <4>2 DEF PropsLinked
      <4> QED BY <4>1, <4>2
    <3> QED BY <1>6, <3>1, <3>2
  <2>2. props'[B[<<n, 0>>]] = NULL BY <1>4, <1>6
  <2>3. n + 1 - 1 = n /\ n + 1 - 2 = n - 1 OBVIOUS
  <2>4. ASSUME NEW b \in Addr, \A m \in 0 .. n : b # B[<<m, 0>>] PROVE props'[b] = NULL
    <3>1. b # a BY <1>4, <2>4
    <3>2. ASSUME NEW m \in 0 .. n - 1 PROVE b # A[<<m, 0>>]
      <4>1. m \in 0 .. n /\ B[<<m, 0>>] = A[<<m, 0>>] BY <1>4, <1>7
      <4> QED BY <2>4, <4>1
    <3> QED BY <1>2, <1>6, <3>1, <3>2 DEF PropsLinked
  <2> QED BY <2>1, <2>2, <2>3, <2>4 DEF PropsLinked
<1>10. Position(B, n + 1, 0)' BY <1>1, <1>2, <1>4 DEF Position, Newest
<1> QED BY <1>2, <1>4, <1>8, <1>9, <1>10 DEF Holds

LEMMA ParsePropKeeps ==
  ASSUME TypeOK, pc = "prop" => i < MAX_NODES, NEW a \in Addr, ParseProp(a),
         NEW A \in Numbering, NEW n \in Nat, NEW p \in Nat, Holds(A, n, p)
  PROVE  \E B \in Numbering : Holds(B, n, p + 1)' /\ n > 0 /\ p < MAX_PROPS
<1> USE Limits
<1>1. /\ pc = "prop" /\ j < MAX_PROPS /\ a \notin used /\ used' = used \cup {a}
      /\ name' = [name EXCEPT ![a] = j]
      /\ next' = [next EXCEPT ![a] = props[node]]
      /\ props' = [props EXCEPT ![node] = a]
      /\ j' = j + 1 /\ head' = head /\ node' = node /\ prop' = prop /\ pc' = pc /\ i' = i
  BY DEF ParseProp, malloc, MoreProps, locals
<1>2. /\ n \in 0 .. MAX_NODES /\ p \in 0 .. MAX_PROPS /\ n = i + 1 /\ p = j
      /\ node = A[<<n - 1, 0>>] /\ head = Newest(A, n)
      /\ Allocated(A, n, p) /\ Linked(A, n, p) /\ PropsLinked(A, n, p)
  BY <1>1 DEF Holds, Position
<1>3. n \in Nat \ {0} /\ p \in 0 .. MAX_PROPS - 1 /\ i \in Nat /\ n - 1 \in Nat
  BY <1>1, <1>2 DEF TypeOK
<1> DEFINE z == <<n - 1, p + 1>>
           B == [A EXCEPT ![z] = a]
<1>4. Live(n, p + 1) = Live(n, p) \cup {z} /\ z \notin Live(n, p) BY <1>3, LiveProp
<1>5. /\ B \in Numbering /\ Allocated(B, n, p + 1)' /\ B[z] = a
      /\ \A x \in Live(n, p) : B[x] = A[x] /\ A[x] # a /\ A[x] \in used
  <2>1. p + 1 \in 0 .. MAX_PROPS /\ z \in Nat \X Nat /\ n \in Nat BY <1>3
  <2> HIDE DEF z
  <2> QED BY <1>1, <1>2, <1>4, <2>1, Extended
<1>6. used \subseteq Addr BY DEF TypeOK
<1>7. /\ \A m \in 0 .. n - 1 : <<m, 0>> \in Live(n, p)
      /\ \A m \in 0 .. n - 2, l \in 0 .. MAX_PROPS : <<m, l>> \in Live(n, p)
      /\ \A l \in 0 .. p : <<n - 1, l>> \in Live(n, p)
  BY <1>2, <1>3 DEF Live
<1> HIDE DEF B
<1>8. node \in Addr /\ node # a BY <1>2, <1>3, <1>5, <1>6, <1>7
<1>9. /\ next'[a] = props[node] /\ name'[a] = j /\ props'[node] = a
      /\ \A b \in Addr : b # a => next'[b] = next[b] /\ name'[b] = name[b]
      /\ \A b \in Addr : b # node => props'[b] = props[b]
  BY <1>1, <1>8 DEF TypeOK
<1>10. Linked(B, n, p + 1)'
  <2>1. ASSUME NEW m \in 0 .. n - 1
        PROVE  /\ next'[B[<<m, 0>>]] = IF m = 0 THEN NULL ELSE B[<<m - 1, 0>>]
               /\ name'[B[<<m, 0>>]] = m
    <3>1. /\ B[<<m, 0>>] = A[<<m, 0>>] /\ A[<<m, 0>>] # a /\ A[<<m, 0>>] \in Addr
          /\ m > 0 => B[<<m - 1, 0>>] = A[<<m - 1, 0>>]
      BY <1>5, <1>6, <1>7
    <3> QED BY <1>2, <1>9, <3>1 DEF Linked
  <2>2. ASSUME NEW x \in Live(n, p + 1), x[2] > 0
        PROVE  /\ next'[B[x]] = IF x[2] = 1 THEN NULL ELSE B[<<x[1], x[2] - 1>>]
               /\ name'[B[x]] = x[2] - 1
    <3>1. CASE x = z
      <4>1. x[1] = n - 1 /\ x[2] = p + 1 BY <3>1
      <4>2. props[node] = IF p = 0 THEN NULL ELSE A[<<n - 1, p>>]
        BY <1>1, <1>2, <1>3 DEF PropsLinked
      <4>3. B[<<n - 1, p>>] = A[<<n - 1, p>>] BY <1>3, <1>5, <1>7
      <4> QED BY <1>2, <1>3, <1>5, <1>9, <3>1, <4>1, <4>2, <4>3
    <3>2. CASE x # z
      <4>1. x \in Live(n, p) BY <1>4, <3>2
      <4>2. x = <<x[1], x[2]>> /\ x[1] \in 0 .. n - 1 /\ x[2] \in 1 .. MAX_PROPS
            /\ (x[1] = n - 1 => x[2] <= p)
        BY <1>2, <2>2, <4>1 DEF Live
      <4>3. <<x[1], x[2] - 1>> \in Live(n, p) BY <1>2, <4>2 DEF Live
      <4>4. /\ B[x] = A[x] /\ A[x] # a /\ A[x] \in Addr
            /\ B[<<x[1], x[2] - 1>>] = A[<<x[1], x[2] - 1>>]
        BY <1>5, <1>6, <4>1, <4>3
      <4> QED BY <1>2, <1>9, <2>2, <4>1, <4>4 DEF Linked
    <3> QED BY <3>1, <3>2
  <2> QED BY <2>1, <2>2 DEF Linked
<1>11. PropsLinked(B, n, p + 1)'
  <2>1. ASSUME NEW m \in 0 .. n - 2 PROVE props'[B[<<m, 0>>]] = B[<<m, MAX_PROPS>>]
    <3>1. /\ B[<<m, 0>>] = A[<<m, 0>>] /\ A[<<m, 0>>] \in Addr
          /\ B[<<m, MAX_PROPS>>] = A[<<m, MAX_PROPS>>]
      BY <1>3, <1>5, <1>6, <1>7
    <3>2. A[<<m, 0>>] # node
      <4>1. <<m, 0>> \in Live(n, p) /\ <<n - 1, 0>> \in Live(n, p) /\ <<m, 0>> # <<n - 1, 0>>
        BY <1>3, <1>7
      <4> QED BY <1>2, <4>1 DEF Allocated
    <3> QED BY <1>2, <1>9, <3>1, <3>2 DEF PropsLinked
  <2>2. props'[B[<<n - 1, 0>>]] = B[<<n - 1, p + 1>>]
    <3>1. B[<<n - 1, 0>>] = node BY <1>2, <1>3, <1>5, <1>7
    <3> QED BY <1>5, <1>9, <3>1
  <2>3. ASSUME NEW b \in Addr, \A m \in 0 .. n - 1 : b # B[<<m, 0>>] PROVE props'[b] = NULL
    <3>1. \A m \in 0 .. n - 1 : b # A[<<m, 0>>] BY <1>5, <1>7, <2>3
    <3>2. b # node BY <1>2, <1>3, <3>1
    <3> QED BY <1>2, <1>9, <3>1, <3>2 DEF PropsLinked
  <2> QED BY <1>3, <2>1, <2>2, <2>3 DEF PropsLinked
<1>12. Position(B, n, p + 1)'
  <2>1. B[<<n - 1, 0>>] = A[<<n - 1, 0>>] BY <1>3, <1>5, <1>7
  <2> QED BY <1>1, <1>2, <1>3, <2>1 DEF Position, Newest
<1> QED BY <1>3, <1>5, <1>10, <1>11, <1>12 DEF Holds

(* The calls of free: what they leave, and what the freed block held.      *)
LEMMA FreePropKeeps ==
  ASSUME TypeOK, FreeProp,
         NEW A \in Numbering, NEW n \in Nat, NEW p \in Nat, Holds(A, n, p)
  PROVE  p > 0 /\ Holds(A, n, p - 1)'
<1> USE Limits
<1>1. /\ pc = "free_prop" /\ prop # NULL /\ used' = used \ {prop}
      /\ name' = [name EXCEPT ![prop] = 0]
      /\ props' = [props EXCEPT ![prop] = NULL]
      /\ next' = [next EXCEPT ![prop] = NULL]
      /\ prop' = next[prop] /\ head' = head /\ node' = node /\ pc' = pc
  BY DEF FreeProp, free
<1>2. /\ n \in 1 .. MAX_NODES /\ p \in 1 .. MAX_PROPS
      /\ node = A[<<n - 1, 0>>] /\ prop = A[<<n - 1, p>>]
      /\ Allocated(A, n, p) /\ Linked(A, n, p) /\ PropsLinked(A, n, p)
  BY <1>1 DEF Holds, Position
<1> DEFINE z == <<n - 1, p>>
           r == p - 1
<1>3. n \in Nat \ {0} /\ r \in 0 .. MAX_PROPS - 1 /\ p = r + 1 BY <1>2
<1>4. Live(n, p) = Live(n, r) \cup {z} /\ z \notin Live(n, r)
  <2> HIDE DEF r
  <2> QED BY <1>3, LiveProp
<1>5. r \in 0 .. MAX_PROPS BY <1>3
<1>6. Allocated(A, n, r)' /\ \A x \in Live(n, r) : A[x] # A[z] /\ A[x] \in used
  <2>1. n \in Nat /\ p \in 0 .. MAX_PROPS /\ used' = used \ {A[z]} BY <1>1, <1>2
  <2> HIDE DEF z, r
  <2> QED BY <1>2, <1>4, <1>5, <2>1, Shrunk
<1>7. used \subseteq Addr BY DEF TypeOK
<1>8. \A b \in Addr : b # prop => /\ next'[b] = next[b] /\ name'[b] = name[b]
                                 /\ props'[b] = props[b]
  BY <1>1 DEF TypeOK
<1>9. /\ \A m \in 0 .. n - 1 : <<m, 0>> \in Live(n, r)
      /\ \A m \in 0 .. n - 2, l \in 0 .. MAX_PROPS : <<m, l>> \in Live(n, r)
  BY <1>3 DEF Live
<1>10. \A x \in Live(n, r) : A[x] # prop /\ A[x] \in Addr BY <1>2, <1>6, <1>7
<1>11. Linked(A, n, r)'
  <2>1. ASSUME NEW m \in 0 .. n - 1
        PROVE  /\ next'[A[<<m, 0>>]] = IF m = 0 THEN NULL ELSE A[<<m - 1, 0>>]
               /\ name'[A[<<m, 0>>]] = m
    BY <1>2, <1>8, <1>9, <1>10 DEF Linked
  <2>2. ASSUME NEW x \in Live(n, r), x[2] > 0
        PROVE  /\ next'[A[x]] = IF x[2] = 1 THEN NULL ELSE A[<<x[1], x[2] - 1>>]
               /\ name'[A[x]] = x[2] - 1
    <3>1. x \in Live(n, p) BY <1>4
    <3> QED BY <1>2, <1>8, <1>10, <2>2, <3>1 DEF Linked
  <2> QED BY <2>1, <2>2 DEF Linked
<1>12. PropsLinked(A, n, r)'
  <2>1. ASSUME NEW m \in 0 .. n - 2 PROVE props'[A[<<m, 0>>]] = A[<<m, MAX_PROPS>>]
    <3>1. <<m, 0>> \in Live(n, r) BY <1>3, <1>9
    <3> QED BY <1>2, <1>8, <1>10, <3>1 DEF PropsLinked
  <2>2. ASSUME NEW b \in Addr, \A m \in 0 .. n - 1 : b # A[<<m, 0>>] PROVE props'[b] = NULL
    <3>1. props[b] = NULL BY <1>2, <2>2 DEF PropsLinked
    <3>2. props'[b] = IF b = prop THEN NULL ELSE props[b] BY <1>1 DEF TypeOK
    <3> QED BY <3>1, <3>2
  <2> QED BY <1>1, <2>1, <2>2 DEF PropsLinked
<1>13. prop' = IF r = 0 THEN NULL ELSE A[<<n - 1, r>>]
  <2>1. z \in Live(n, p) /\ z[1] = n - 1 /\ z[2] = p BY <1>4
  <2>2. next[A[z]] = IF p = 1 THEN NULL ELSE A[<<n - 1, p - 1>>] BY <1>2, <2>1 DEF Linked
  <2> QED BY <1>1, <1>2, <2>2
<1>14. Position(A, n, r)' BY <1>1, <1>2, <1>3, <1>13 DEF Position
<1> QED BY <1>2, <1>6, <1>11, <1>12, <1>14 DEF Holds

LEMMA FreeNodeKeeps ==
  ASSUME TypeOK, FreeNode,
         NEW A \in Numbering, NEW n \in Nat, NEW p \in Nat, Holds(A, n, p)
  PROVE  n > 0 /\ Holds(A, n - 1, MAX_PROPS)'
<1> USE Limits
<1>1. /\ pc = "free_prop" /\ prop = NULL /\ used' = used \ {node}
      /\ name' = [name EXCEPT ![node] = 0]
      /\ props' = [props EXCEPT ![node] = NULL]
      /\ next' = [next EXCEPT ![node] = NULL]
      /\ node' = next[node] /\ prop' = prop /\ head' = head /\ pc' = "free_node"
  BY DEF FreeNode, free
<1>2. /\ n \in 1 .. MAX_NODES /\ p \in 0 .. MAX_PROPS /\ node = A[<<n - 1, 0>>]
      /\ prop = IF p = 0 THEN NULL ELSE A[<<n - 1, p>>]
      /\ Allocated(A, n, p) /\ Linked(A, n, p) /\ PropsLinked(A, n, p)
  BY <1>1 DEF Holds, Position
<1>3. used \subseteq Addr BY DEF TypeOK
<1>4. p = 0
  <2> SUFFICES ASSUME p # 0 PROVE FALSE OBVIOUS
  <2>1. <<n - 1, p>> \in Live(n, p) BY <1>2 DEF Live
  <2>2. A[<<n - 1, p>>] \in Addr BY <1>2, <1>3, <2>1 DEF Allocated
  <2> QED BY <1>1, <1>2, <2>2
<1> DEFINE r == n - 1
           z == <<r, 0>>
<1>5. r \in Nat /\ n = r + 1 /\ r \in 0 .. MAX_NODES BY <1>2
<1>6. Live(n, p) = Live(r, MAX_PROPS) \cup {z} /\ z \notin Live(r, MAX_PROPS)
  <2> HIDE DEF r
  <2> QED BY <1>4, <1>5, LiveNode
<1>7. MAX_PROPS \in 0 .. MAX_PROPS /\ node = A[z] BY <1>2
<1>8. /\ Allocated(A, r, MAX_PROPS)'
      /\ \A x \in Live(r, MAX_PROPS) : A[x] # A[z] /\ A[x] \in used
  BY <1>1, <1>2, <1>5, <1>6, <1>7, Shrunk
<1>9. \A b \in Addr : b # node => /\ next'[b] = next[b] /\ name'[b] = name[b]
                                 /\ props'[b] = props[b]
  BY <1>1 DEF TypeOK
<1>10. \A x \in Live(r, MAX_PROPS) : A[x] # node /\ A[x] \in Addr BY <1>3, <1>7, <1>8
<1>11. \A m \in 0 .. r - 1 : <<m, 0>> \in Live(r, MAX_PROPS) BY <1>5 DEF Live
<1>12. Linked(A, r, MAX_PROPS)'
  <2>1. ASSUME NEW m \in 0 .. r - 1
        PROVE  /\ next'[A[<<m, 0>>]] = IF m = 0 THEN NULL ELSE A[<<m - 1, 0>>]
               /\ name'[A[<<m, 0>>]] = m
    <3>1. m \in 0 .. n - 1 BY <1>5
    <3> QED BY <1>2, <1>9, <1>10, <1>11, <3>1 DEF Linked
  <2>2. ASSUME NEW x \in Live(r, MAX_PROPS), x[2] > 0
        PROVE  /\ next'[A[x]] = IF x[2] = 1 THEN NULL ELSE A[<<x[1], x[2] - 1>>]
               /\ name'[A[x]] = x[2] - 1
    <3>1. x \in Live(n, p) BY <1>6
    <3> QED BY <1>2, <1>9, <1>10, <2>2, <3>1 DEF Linked
  <2> QED BY <2>1, <2>2 DEF Linked
<1>13. ASSUME NEW m \in 0 .. r - 1 PROVE props'[A[<<m, 0>>]] = A[<<m, MAX_PROPS>>]
  <2>1. m \in 0 .. n - 2 BY <1>5
  <2> QED BY <1>2, <1>9, <1>10, <1>11, <2>1 DEF PropsLinked
<1>14. PropsLinked(A, r, MAX_PROPS)'
  <2>1. \A m \in 0 .. r - 2 : m \in 0 .. r - 1 BY <1>5
  <2>2. r > 0 => r - 1 \in 0 .. r - 1 BY <1>5
  <2>3. ASSUME NEW b \in Addr, \A m \in 0 .. r - 1 : b # A[<<m, 0>>] PROVE props'[b] = NULL
    <3>1. props'[b] = IF b = node THEN NULL ELSE props[b] BY <1>1 DEF TypeOK
    <3>2. ASSUME b # node PROVE props[b] = NULL
      <4>1. ASSUME NEW m \in 0 .. n - 1 PROVE b # A[<<m, 0>>]
        <5>1. CASE m = r BY <1>7, <3>2, <5>1
        <5>2. CASE m # r
          <6>1. m \in 0 .. r - 1 BY <1>5, <5>2
          <6> QED BY <2>3, <6>1
        <5> QED BY <5>1, <5>2
      <4> QED BY <1>2, <4>1 DEF PropsLinked
    <3> QED BY <3>1, <3>2
  <2> QED BY <1>13, <2>1, <2>2, <2>3 DEF PropsLinked
<1>15. node' = Newest(A, r)
  <2>1. r \in 0 .. n - 1 BY <1>5
  <2> QED BY <1>1, <1>2, <1>7, <2>1 DEF Linked, Newest
<1>16. Position(A, r, MAX_PROPS)' BY <1>1, <1>5, <1>15 DEF Position
<1> QED BY <1>2, <1>8, <1>12, <1>14, <1>16 DEF Holds

LEMMA MemoryKept ==
  ASSUME UNCHANGED memory, pc' = "free_prop" \/ pc # "free_prop",
         NEW A, NEW n, NEW p, Holds(A, n, p)
  PROVE  Allocated(A, n, p)' /\ Linked(A, n, p)' /\ PropsLinked(A, n, p)'
<1>1. /\ used' = used /\ name' = name /\ props' = props /\ next' = next
      /\ Allocated(A, n, p) /\ Linked(A, n, p) /\ PropsLinked(A, n, p)
  BY DEF memory, Holds
<1>2. Allocated(A, n, p)' BY <1>1 DEF Allocated
<1>3. Linked(A, n, p)' BY <1>1 DEF Linked
<1>4. PropsLinked(A, n, p)' BY <1>1 DEF PropsLinked
<1> QED BY <1>2, <1>3, <1>4

(* The pointers to the newest device. *)
LEMMA NewestFacts ==
  ASSUME TypeOK, NEW A, NEW n \in Nat, NEW p \in 0 .. MAX_PROPS, Allocated(A, n, p)
  PROVE  /\ Newest(A, n) = NULL <=> n = 0
         /\ n > 0 => A[<<n - 1, 0>>] \in used
<1>1. n > 0 => <<n - 1, 0>> \in Live(n, p) BY Limits DEF Live
<1>2. n > 0 => A[<<n - 1, 0>>] \in used BY <1>1 DEF Allocated
<1>3. used \subseteq Addr BY DEF TypeOK
<1> QED BY <1>2, <1>3, Limits DEF Newest

(* The steps seen from the list: a device or a property is linked, the     *)
(* complete list is given up, or nothing changes.                          *)
Parsing == pc \in {"node", "prop", "exited"}

Move(n, p, m, q) ==
  \/ Parsing /\ Parsing' /\ m = n + 1 /\ q = 0 /\ p = MAX_PROPS /\ n < MAX_NODES
  \/ Parsing /\ Parsing' /\ m = n /\ q = p + 1 /\ p < MAX_PROPS /\ n > 0
  \/ Parsing /\ ~ Parsing' /\ n = MAX_NODES /\ p = MAX_PROPS
  \/ Parsing /\ Parsing' /\ m = n /\ q = p
  \/ ~ Parsing /\ Parsing' /\ m = 0 /\ q = MAX_PROPS
  \/ ~ Parsing /\ ~ Parsing'

LEMMA TypeStep == HeapInv /\ [Next]_vars => TypeOK'
<1> SUFFICES ASSUME HeapInv, [Next]_vars PROVE TypeOK' OBVIOUS
<1> USE Limits
<1>1. PICK A \in Numbering, n \in Nat, p \in Nat : Holds(A, n, p) BY DEF HeapInv
<1>2. /\ used \subseteq Addr
      /\ name \in [Addr -> Nat] /\ props \in [Addr -> Pointer] /\ next \in [Addr -> Pointer]
      /\ head \in Pointer /\ node \in Pointer /\ prop \in Pointer
      /\ pc \in {"begin", "node", "prop", "free_node", "free_prop", "exited"}
      /\ i \in 0 .. MAX_NODES /\ j \in 0 .. MAX_PROPS /\ parses \in 0 .. PARSES
      /\ (pc = "prop" => i < MAX_NODES) /\ (pc # "begin" => parses < PARSES)
  BY DEF HeapInv, TypeOK
<1>3. pc \in {"prop", "free_prop"} => node \in Addr
  <2> SUFFICES ASSUME pc \in {"prop", "free_prop"} PROVE node \in Addr OBVIOUS
  <2>1. n > 0 /\ p \in 0 .. MAX_PROPS /\ node = A[<<n - 1, 0>>] /\ Allocated(A, n, p)
    BY <1>1, <1>2 DEF Holds, Position
  <2> QED BY <1>2, <2>1, NewestFacts DEF HeapInv
<1>4. CASE Begin
  BY <1>2, <1>4 DEF Begin, TypeOK, memory, locals, Pointer
<1>5. CASE \E a \in Addr : ParseNode(a)
  BY <1>2, <1>5 DEF ParseNode, malloc, TypeOK, Pointer
<1>6. CASE \E a \in Addr : ParseProp(a)
  BY <1>2, <1>3, <1>6 DEF ParseProp, MoreProps, malloc, TypeOK, Pointer, locals
<1>7. CASE MallocFails BY <1>2, <1>7 DEF MallocFails, TypeOK, memory, locals
<1>8. CASE NodeDone BY <1>2, <1>8 DEF NodeDone, TypeOK, memory, locals
<1>9. CASE ParseDone BY <1>2, <1>9 DEF ParseDone, TypeOK, memory
<1>10. CASE FirstProp BY <1>2, <1>10 DEF FirstProp, TypeOK, memory, Pointer
<1>11. CASE FreeProp BY <1>2, <1>11 DEF FreeProp, free, TypeOK, Pointer
<1>12. CASE FreeNode BY <1>2, <1>3, <1>12 DEF FreeNode, free, TypeOK, Pointer
<1>13. CASE FreeDone BY <1>2, <1>13 DEF FreeDone, TypeOK, memory, locals
<1>14. CASE UNCHANGED vars BY <1>2, <1>14 DEF vars, TypeOK, memory, locals
<1> QED BY <1>4, <1>5, <1>6, <1>7, <1>8, <1>9, <1>10, <1>11, <1>12, <1>13, <1>14
        DEF Next, Stopped

LEMMA BoundsStep ==
  ASSUME HeapInv, [Next]_vars
  PROVE  (pc = "prop" => i < MAX_NODES)' /\ (pc # "begin" => parses < PARSES)'
<1> USE Limits
<1>1. (pc = "prop" => i < MAX_NODES) /\ (pc # "begin" => parses < PARSES) BY DEF HeapInv
<1>2. CASE Begin BY <1>2 DEF Begin
<1>3. CASE \E a \in Addr : ParseNode(a) \/ ParseProp(a)
  BY <1>1, <1>3 DEF ParseNode, ParseProp
<1>4. CASE MallocFails \/ NodeDone \/ ParseDone \/ FirstProp
  BY <1>1, <1>4 DEF MallocFails, NodeDone, ParseDone, FirstProp
<1>5. CASE FreeProp \/ FreeNode \/ FreeDone BY <1>1, <1>5 DEF FreeProp, FreeNode, FreeDone
<1>6. CASE UNCHANGED vars BY <1>1, <1>6 DEF vars
<1> QED BY <1>2, <1>3, <1>4, <1>5, <1>6 DEF Next, Stopped

LEMMA HeapMove ==
  ASSUME HeapInv, [Next]_vars,
         NEW A \in Numbering, NEW n \in Nat, NEW p \in Nat, Holds(A, n, p)
  PROVE  \E B \in Numbering, m \in Nat, q \in Nat : Holds(B, m, q)' /\ Move(n, p, m, q)
<1> DEFINE Goal ==
      \E B \in Numbering, m \in Nat, q \in Nat : Holds(B, m, q)' /\ Move(n, p, m, q)
<1> USE Limits
<1>1. TypeOK /\ (pc = "prop" => i < MAX_NODES) BY DEF HeapInv
<1>2. /\ n \in 0 .. MAX_NODES /\ p \in 0 .. MAX_PROPS
      /\ Allocated(A, n, p) /\ PropsLinked(A, n, p) /\ Position(A, n, p)
  BY DEF Holds, Position
<1>3. ASSUME NEW a \in Addr, ParseNode(a) PROVE Goal
  <2>1. PICK B \in Numbering : Holds(B, n + 1, 0)' /\ p = MAX_PROPS /\ n = i
    BY <1>1, <1>3, ParseNodeKeeps
  <2>2. Move(n, p, n + 1, 0) BY <1>3, <2>1 DEF Move, Parsing, ParseNode
  <2> QED BY <2>1, <2>2
<1>4. ASSUME NEW a \in Addr, ParseProp(a) PROVE Goal
  <2>1. PICK B \in Numbering : Holds(B, n, p + 1)' /\ n > 0 /\ p < MAX_PROPS
    BY <1>1, <1>4, ParsePropKeeps
  <2>2. Move(n, p, n, p + 1) BY <1>4, <2>1 DEF Move, Parsing, ParseProp
  <2> QED BY <2>1, <2>2
<1>5. ASSUME FreeProp PROVE Goal
  <2>1. p > 0 /\ Holds(A, n, p - 1)' BY <1>1, <1>5, FreePropKeeps
  <2>2. Move(n, p, n, p - 1) BY <1>5 DEF Move, Parsing, FreeProp
  <2>3. p - 1 \in Nat BY <2>1
  <2> QED BY <2>1, <2>2, <2>3
<1>6. ASSUME FreeNode PROVE Goal
  <2>1. n > 0 /\ Holds(A, n - 1, MAX_PROPS)' BY <1>1, <1>6, FreeNodeKeeps
  <2>2. Move(n, p, n - 1, MAX_PROPS) BY <1>6 DEF Move, Parsing, FreeNode
  <2>3. n - 1 \in Nat BY <2>1
  <2> QED BY <2>1, <2>2, <2>3
<1>7. ASSUME Begin PROVE Goal
  <2>1. pc = "begin" /\ pc' = "node" /\ head' = NULL /\ i' = 0 /\ UNCHANGED memory
    BY <1>7 DEF Begin
  <2>2. n = 0 /\ p = MAX_PROPS BY <1>2, <2>1 DEF Position
  <2>3. Position(A, n, p)' BY <2>1, <2>2 DEF Position, Newest
  <2>4. Holds(A, n, p)' BY <2>1, <2>3, MemoryKept DEF Holds
  <2>5. Move(n, p, n, p) BY <2>1, <2>2 DEF Move, Parsing
  <2> QED BY <2>4, <2>5
<1>8. ASSUME MallocFails PROVE Goal
  <2>1. /\ pc \in {"node", "prop"} /\ pc' = "exited" /\ head' = head /\ UNCHANGED memory
    BY <1>8 DEF MallocFails
  <2>2. Position(A, n, p)' BY <1>2, <2>1 DEF Position, Newest
  <2>3. Holds(A, n, p)' BY <2>1, <2>2, MemoryKept DEF Holds
  <2>4. Move(n, p, n, p) BY <2>1 DEF Move, Parsing
  <2> QED BY <2>3, <2>4
<1>9. ASSUME NodeDone PROVE Goal
  <2>1. /\ pc = "prop" /\ ~ (j < MAX_PROPS) /\ i' = i + 1 /\ pc' = "node" /\ head' = head
        /\ UNCHANGED memory
    BY <1>9 DEF NodeDone, MoreProps
  <2>2. p = MAX_PROPS /\ n = i + 1 BY <1>2, <2>1 DEF Position
  <2>3. Position(A, n, p)' BY <1>2, <2>1, <2>2 DEF Position, Newest
  <2>4. Holds(A, n, p)' BY <2>1, <2>3, MemoryKept DEF Holds
  <2>5. Move(n, p, n, p) BY <2>1 DEF Move, Parsing
  <2> QED BY <2>4, <2>5
<1>10. ASSUME ParseDone PROVE Goal
  <2>1. /\ pc = "node" /\ i = MAX_NODES /\ node' = head /\ pc' = "free_node"
        /\ UNCHANGED memory
    BY <1>10 DEF ParseDone
  <2>2. p = MAX_PROPS /\ n = MAX_NODES /\ head = Newest(A, n) BY <1>2, <2>1 DEF Position
  <2>3. Position(A, n, p)' BY <1>2, <2>1, <2>2 DEF Position, Newest
  <2>4. Holds(A, n, p)' BY <2>1, <2>3, MemoryKept DEF Holds
  <2>5. Move(n, p, n, p) BY <2>1, <2>2 DEF Move, Parsing
  <2> QED BY <2>4, <2>5
<1>11. ASSUME FirstProp PROVE Goal
  <2>1. /\ pc = "free_node" /\ node # NULL /\ prop' = props[node] /\ pc' = "free_prop"
        /\ node' = node /\ UNCHANGED memory
    BY <1>11 DEF FirstProp
  <2>2. p = MAX_PROPS /\ node = Newest(A, n) BY <1>2, <2>1 DEF Position
  <2>3. n > 0
    <3>1. Newest(A, n) = NULL <=> n = 0 BY <1>1, <1>2, NewestFacts
    <3> QED BY <2>1, <2>2, <3>1
  <2>4. node = A[<<n - 1, 0>>] BY <2>2, <2>3 DEF Newest
  <2>5. prop' = A[<<n - 1, p>>] BY <1>2, <2>1, <2>2, <2>3, <2>4 DEF PropsLinked
  <2>6. Position(A, n, p)' BY <1>2, <2>1, <2>2, <2>3, <2>4, <2>5 DEF Position
  <2>7. Holds(A, n, p)' BY <2>1, <2>6, MemoryKept DEF Holds
  <2>8. Move(n, p, n, p) BY <2>1 DEF Move, Parsing
  <2> QED BY <2>7, <2>8
<1>12. ASSUME FreeDone PROVE Goal
  <2>1. pc = "free_node" /\ node = NULL /\ pc' = "begin" /\ UNCHANGED memory
    BY <1>12 DEF FreeDone
  <2>2. p = MAX_PROPS /\ node = Newest(A, n) BY <1>2, <2>1 DEF Position
  <2>3. n = 0 BY <1>1, <1>2, <2>1, <2>2, NewestFacts
  <2>4. Position(A, n, p)' BY <2>1, <2>2, <2>3 DEF Position
  <2>5. Holds(A, n, p)' BY <2>1, <2>4, MemoryKept DEF Holds
  <2>6. Move(n, p, n, p) BY <2>1 DEF Move, Parsing
  <2> QED BY <2>5, <2>6
<1>13. ASSUME UNCHANGED vars PROVE Goal
  <2>1. /\ pc' = pc /\ head' = head /\ node' = node /\ prop' = prop /\ i' = i /\ j' = j
        /\ UNCHANGED memory
    BY <1>13 DEF vars, locals
  <2>2. Position(A, n, p)' BY <1>2, <2>1 DEF Position, Newest
  <2>3. PropsLinked(A, n, p)' BY <1>2, <2>1 DEF PropsLinked, memory
  <2>4. Allocated(A, n, p)' BY <1>2, <2>1 DEF Allocated, memory
  <2>5. Linked(A, n, p)' BY <2>1 DEF Holds, Linked, memory
  <2>6. Move(n, p, n, p) BY <2>1 DEF Move, Parsing
  <2> QED BY <2>2, <2>3, <2>4, <2>5, <2>6 DEF Holds
<1> HIDE DEF Goal
<1>14. Goal
  BY <1>3, <1>4, <1>5, <1>6, <1>7, <1>8, <1>9, <1>10, <1>11, <1>12, <1>13 DEF Next, Stopped
<1> QED BY <1>14 DEF Goal

LEMMA HeapStep == HeapInv /\ [Next]_vars => HeapInv'
<1> SUFFICES ASSUME HeapInv, [Next]_vars PROVE HeapInv' OBVIOUS
<1>1. PICK A \in Numbering, n \in Nat, p \in Nat : Holds(A, n, p) BY DEF HeapInv
<1>2. PICK B \in Numbering, m \in Nat, q \in Nat : Holds(B, m, q)' BY <1>1, HeapMove
<1> QED BY <1>2, TypeStep, BoundsStep DEF HeapInv

LEMMA Invariance == Spec => []HeapInv
BY HeapStart, HeapStep, PTL DEF Spec

(* No pointer that will still be followed leads to a freed block (lines    *)
(* 104-105), whatever malloc returns and however often the tree is built.  *)
THEOREM NeverDangling == Spec => []NoDangling
<1>1. HeapInv => NoDangling
  <2> SUFFICES ASSUME HeapInv PROVE NoDangling OBVIOUS
  <2> USE Limits
  <2>1. PICK A \in Numbering, n \in Nat, p \in Nat : Holds(A, n, p) BY DEF HeapInv
  <2>2. /\ n \in 0 .. MAX_NODES /\ p \in 0 .. MAX_PROPS /\ TypeOK
        /\ Allocated(A, n, p) /\ Linked(A, n, p) /\ PropsLinked(A, n, p) /\ Position(A, n, p)
    BY <2>1 DEF HeapInv, Holds, Position
  <2> DEFINE safe == used \cup {NULL}
  <2>3. \A x \in Live(n, p) : A[x] \in used BY <2>2 DEF Allocated
  <2>4. /\ \A m \in 0 .. n - 1 : <<m, 0>> \in Live(n, p)
        /\ \A m \in 0 .. n - 2, l \in 0 .. MAX_PROPS : <<m, l>> \in Live(n, p)
        /\ n > 0 => \A l \in 0 .. p : <<n - 1, l>> \in Live(n, p)
    BY <2>2 DEF Live
  <2>5. ASSUME NEW a \in used
        PROVE  /\ next[a] \in safe
               /\ props[a] \in safe \/ (pc = "free_prop" /\ a = node)
    <3>1. PICK x \in Live(n, p) : a = A[x] BY <2>2 DEF Allocated
    <3>2. /\ x = <<x[1], x[2]>> /\ x[1] \in 0 .. n - 1 /\ x[2] \in 0 .. MAX_PROPS
          /\ x[1] = n - 1 => x[2] <= p
      BY <2>2 DEF Live
    <3>3. CASE x[2] = 0
      <4> DEFINE m == x[1]
      <4>1. m \in 0 .. n - 1 /\ a = A[<<m, 0>>] BY <3>1, <3>2, <3>3
      <4> HIDE DEF m
      <4>2. next[a] = IF m = 0 THEN NULL ELSE A[<<m - 1, 0>>] BY <2>2, <4>1 DEF Linked
      <4>3. m # 0 => A[<<m - 1, 0>>] \in used BY <2>2, <2>3, <2>4, <4>1
      <4>4. CASE m = n - 1
        <5>1. CASE pc = "free_prop" BY <2>2, <4>1, <4>2, <4>3, <4>4, <5>1 DEF Position
        <5>2. CASE pc # "free_prop"
          <6>1. props[a] = IF p = 0 THEN NULL ELSE A[<<n - 1, p>>]
            BY <2>2, <4>1, <4>4, <5>2 DEF PropsLinked
          <6>2. A[<<n - 1, p>>] \in used BY <2>2, <2>3, <2>4, <4>1
          <6> QED BY <4>2, <4>3, <6>1, <6>2
        <5> QED BY <5>1, <5>2
      <4>5. CASE m # n - 1
        <5>1. m \in 0 .. n - 2 BY <2>2, <4>1, <4>5
        <5>2. props[a] = A[<<m, MAX_PROPS>>] BY <2>2, <4>1, <5>1 DEF PropsLinked
        <5>3. A[<<m, MAX_PROPS>>] \in used BY <2>3, <2>4, <5>1
        <5> QED BY <4>2, <4>3, <5>2, <5>3
      <4> QED BY <4>4, <4>5
    <3>4. CASE x[2] > 0
      <4>1. next[a] = IF x[2] = 1 THEN NULL ELSE A[<<x[1], x[2] - 1>>]
        BY <2>2, <3>1, <3>4 DEF Linked
      <4>2. <<x[1], x[2] - 1>> \in Live(n, p) BY <2>2, <3>2, <3>4 DEF Live
      <4>3. ASSUME NEW m \in 0 .. n - 1 PROVE a # A[<<m, 0>>]
        <5>1. <<m, 0>> \in Live(n, p) /\ <<m, 0>> # x BY <2>4, <3>4
        <5> QED BY <2>2, <3>1, <5>1 DEF Allocated
      <4>4. props[a] = NULL BY <2>2, <4>3 DEF PropsLinked, TypeOK
      <4> QED BY <2>3, <4>1, <4>2, <4>4
    <3> QED BY <3>2, <3>3, <3>4
  <2>6. n > 0 => A[<<n - 1, 0>>] \in used /\ A[<<n - 1, p>>] \in used BY <2>2, <2>3, <2>4
  <2>7. pc \in {"prop", "free_prop"} => node \in used BY <2>2, <2>6 DEF Position, TypeOK
  <2>8. pc = "free_node" => node \in safe BY <2>2, <2>6 DEF Position, Newest
  <2>9. pc = "free_prop" => prop \in safe BY <2>2, <2>6 DEF Position
  <2> QED BY <2>5, <2>7, <2>8, <2>9 DEF NoDangling
<1> QED BY <1>1, Invariance, PTL

(* Each iteration of the benchmark gives back every block it was given     *)
(* (lines 107-122).                                                        *)
THEOREM NeverLeaks == Spec => []NothingLeaked
<1>1. HeapInv => NothingLeaked
  <2> SUFFICES ASSUME HeapInv, pc = "begin" PROVE used = {} BY DEF NothingLeaked
  <2>1. PICK A \in Numbering, n \in Nat, p \in Nat : Holds(A, n, p) BY DEF HeapInv
  <2>2. n = 0 /\ Allocated(A, n, p) BY <2>1 DEF Holds, Position
  <2>3. Live(n, p) = {} BY <2>2 DEF Live
  <2> QED BY <2>2, <2>3 DEF Allocated
<1> QED BY <1>1, Invariance, PTL

(***************************************************************************)
(* The refinement.  What ListFrom collects is the list that a chain of     *)
(* blocks forms; the fields are parameters here, so that the facts apply   *)
(* before and after a step.                                                *)
(***************************************************************************)
CollectsUpTo(f, N, nx) ==
  f = [m \in 0 .. N |->
        [b \in Pointer |-> IF m = 0 \/ b = NULL THEN <<>> ELSE <<b>> \o f[m - 1][nx[b]]]]

Collected(nx, a) ==
  LET from == CHOOSE f : CollectsUpTo(f, Cardinality(Addr), nx)
  IN from[Cardinality(Addr)][a]

LEMMA ListFromIsCollected ==
  \A a : ListFrom(a) = Collected(next, a)
BY DEF ListFrom, Collected, CollectsUpTo

LEMMA ListFromIsCollectedNext ==
  \A a : ListFrom(a)' = Collected(next', a)
BY DEF ListFrom, Collected, CollectsUpTo

(* The recursion defines something. *)
LEMMA CollectionExists ==
  ASSUME NEW N \in Nat, NEW nx
  PROVE  \E f : CollectsUpTo(f, N, nx)
<1> DEFINE T == {n \in Nat : ~ \E f : CollectsUpTo(f, n, nx)}
<1>1. SUFFICES ASSUME T # {} PROVE FALSE OBVIOUS
<1>2. PICK n \in T : \A y \in T : n <= y
  <2>1. T \in SUBSET Nat OBVIOUS
  <2> HIDE DEF T
  <2> QED BY <1>1, <2>1, LeastNumber
<1>3. n \in Nat /\ ~ \E f : CollectsUpTo(f, n, nx) OBVIOUS
<1>4. n # 0
  <2> DEFINE f == [m \in 0 .. 0 |-> [b \in Pointer |-> <<>>]]
  <2>1. CollectsUpTo(f, 0, nx) BY DEF CollectsUpTo
  <2> QED BY <1>3, <2>1
<1>5. PICK f : CollectsUpTo(f, n - 1, nx)
  <2>1. n - 1 \in Nat /\ n - 1 \notin T BY <1>2, <1>3, <1>4
  <2> QED BY <2>1
<1> DEFINE e == [b \in Pointer |-> IF b = NULL THEN <<>> ELSE <<b>> \o f[n - 1][nx[b]]]
           g == [m \in 0 .. n |-> IF m = n THEN e ELSE f[m]]
<1>6. ASSUME NEW m \in 0 .. n
      PROVE  g[m] = [b \in Pointer |->
                      IF m = 0 \/ b = NULL THEN <<>> ELSE <<b>> \o g[m - 1][nx[b]]]
  <2>1. CASE m = n
    <3>1. n - 1 \in 0 .. n /\ n - 1 # n BY <1>3, <1>4
    <3>2. g[n - 1] = f[n - 1] BY <3>1
    <3> HIDE DEF e
    <3>3. g[m] = e BY <1>3, <2>1
    <3> HIDE DEF g
    <3> QED BY <1>4, <2>1, <3>2, <3>3 DEF e
  <2>2. CASE m # n
    <3>1. m \in 0 .. n - 1 /\ (m # 0 => m - 1 \in 0 .. n - 1) BY <1>3, <2>2
    <3>2. f[m] = [b \in Pointer |->
                   IF m = 0 \/ b = NULL THEN <<>> ELSE <<b>> \o f[m - 1][nx[b]]]
      BY <1>5, <3>1 DEF CollectsUpTo
    <3>3. g[m] = f[m] /\ (m # 0 => g[m - 1] = f[m - 1]) BY <1>3, <2>2, <3>1
    <3> HIDE DEF g
    <3> QED BY <3>2, <3>3
  <2> QED BY <2>1, <2>2
<1>7. g = [m \in 0 .. n |-> g[m]] OBVIOUS
<1> HIDE DEF g
<1>8. CollectsUpTo(g, n, nx) BY <1>6, <1>7 DEF CollectsUpTo
<1> QED BY <1>3, <1>8

First(s) == IF s = <<>> THEN NULL ELSE s[1]

(* Collecting follows a chain to its end. *)
LEMMA ChainCollected ==
  ASSUME NEW nx \in [Addr -> Pointer], NEW s \in Seq(Addr), Len(s) <= Cardinality(Addr),
         \A k \in 1 .. Len(s) : nx[s[k]] = IF k < Len(s) THEN s[k + 1] ELSE NULL
  PROVE  Collected(nx, First(s)) = s
<1> DEFINE N == Cardinality(Addr)
           L == Len(s)
<1>1. N \in Nat /\ NULL \notin Addr BY MallocAssumption, FS_CardinalityType
<1> HIDE DEF N
<1>2. PICK f : CollectsUpTo(f, N, nx) /\ Collected(nx, First(s)) = f[N][First(s)]
  BY <1>1, CollectionExists DEF Collected, N
<1>3. L \in Nat /\ L <= N /\ \A k \in 1 .. L : s[k] \in Addr
  BY DEF N
<1> DEFINE At(k) == IF k <= L THEN s[k] ELSE NULL
           Suffix(k) == [x \in 1 .. L + 1 - k |-> s[k + x - 1]]
           Right(m) == \A k \in 1 .. L + 1 : L + 1 - k <= m => f[m][At(k)] = Suffix(k)
           T == {m \in 0 .. N : ~ Right(m)}
<1>4. \A k \in 1 .. L : nx[s[k]] = At(k + 1) BY <1>3
<1>5. \A k \in 1 .. L + 1 : At(k) \in Pointer BY <1>3 DEF Pointer
<1>6. Suffix(L + 1) = <<>> BY <1>3
<1>7. \A k \in 1 .. L : <<s[k]>> \o Suffix(k + 1) = Suffix(k)
  <2> SUFFICES ASSUME NEW k \in 1 .. L PROVE <<s[k]>> \o Suffix(k + 1) = Suffix(k) OBVIOUS
  <2> DEFINE u == Suffix(k + 1)
             v == Suffix(k)
  <2>1. /\ u \in Seq(Addr) /\ Len(u) = L - k
        /\ \A x \in 1 .. L - k : u[x] = s[k + x]
    BY <1>3
  <2>2. /\ v \in Seq(Addr) /\ Len(v) = L + 1 - k
        /\ \A x \in 1 .. L + 1 - k : v[x] = s[k + x - 1]
    BY <1>3
  <2> HIDE DEF u, v
  <2>3. s[k] \in Addr BY <1>3
  <2>4. /\ <<s[k]>> \o u \in Seq(Addr) /\ Len(<<s[k]>> \o u) = L + 1 - k
        /\ (<<s[k]>> \o u)[1] = s[k]
        /\ \A x \in 2 .. L + 1 - k : (<<s[k]>> \o u)[x] = u[x - 1]
    <3>1. Len(u) + 1 = L + 1 - k BY <1>3, <2>1
    <3>2. /\ <<s[k]>> \o u \in Seq(Addr) /\ Len(<<s[k]>> \o u) = Len(u) + 1
          /\ (<<s[k]>> \o u)[1] = s[k]
          /\ \A x \in 2 .. Len(u) + 1 : (<<s[k]>> \o u)[x] = u[x - 1]
      <4> DEFINE e == s[k]
      <4>1. e \in Addr /\ u \in Seq(Addr) BY <2>1, <2>3
      <4> HIDE DEF e
      <4>2. /\ <<e>> \o u \in Seq(Addr) /\ Len(<<e>> \o u) = Len(u) + 1
            /\ (<<e>> \o u)[1] = e
            /\ \A x \in 2 .. Len(u) + 1 : (<<e>> \o u)[x] = u[x - 1]
        BY ONLY <4>1, PushFacts
      <4> QED BY <4>2 DEF e
    <3> QED BY <3>1, <3>2
  <2>5. ASSUME NEW x \in 1 .. L + 1 - k PROVE (<<s[k]>> \o u)[x] = v[x]
    <3>1. CASE x = 1 BY <1>3, <2>2, <2>4, <3>1
    <3>2. CASE x # 1
      <4>1. x \in 2 .. L + 1 - k /\ x - 1 \in 1 .. L - k /\ k + (x - 1) = k + x - 1
        BY <1>3, <3>2
      <4>2. u[x - 1] = s[k + x - 1] BY <2>1, <4>1
      <4> QED BY <2>2, <2>4, <4>1, <4>2
    <3> QED BY <3>1, <3>2
  <2>6. <<s[k]>> \o u = v BY <2>2, <2>4, <2>5, SeqEqual
  <2> QED BY <2>6 DEF u, v
<1>8. \A m \in 0 .. N, b \in Pointer :
        f[m][b] = IF m = 0 \/ b = NULL THEN <<>> ELSE <<b>> \o f[m - 1][nx[b]]
  <2> SUFFICES ASSUME NEW m \in 0 .. N, NEW b \in Pointer
               PROVE  f[m][b] = IF m = 0 \/ b = NULL THEN <<>> ELSE <<b>> \o f[m - 1][nx[b]]
    OBVIOUS
  <2> DEFINE G(y) == [c \in Pointer |->
                       IF y = 0 \/ c = NULL THEN <<>> ELSE <<c>> \o f[y - 1][nx[c]]]
  <2>1. f = [y \in 0 .. N |-> G(y)] BY <1>2 DEF CollectsUpTo
  <2>2. f[m] = G(m)
    <3> HIDE DEF G
    <3> QED BY <2>1
  <2>3. G(m)[b] = IF m = 0 \/ b = NULL THEN <<>> ELSE <<b>> \o f[m - 1][nx[b]] OBVIOUS
  <2> HIDE DEF G
  <2> QED BY <2>2, <2>3
<1> HIDE DEF L
<1>9. ASSUME NEW m \in 0 .. N, m > 0 => Right(m - 1) PROVE Right(m)
  <2> SUFFICES ASSUME NEW k \in 1 .. L + 1, L + 1 - k <= m PROVE f[m][At(k)] = Suffix(k)
    OBVIOUS
  <2>1. CASE k = L + 1
    <3>1. At(k) = NULL BY <1>3, <2>1
    <3>2. NULL \in Pointer BY DEF Pointer
    <3>3. f[m][NULL] = <<>> BY <1>8, <3>2
    <3> HIDE DEF At, Suffix
    <3> QED BY <1>6, <2>1, <3>1, <3>3
  <2>2. CASE k # L + 1
    <3>1. k \in 1 .. L /\ m > 0 /\ m - 1 \in 0 .. N /\ k + 1 \in 1 .. L + 1
          /\ L + 1 - (k + 1) <= m - 1
      BY <1>1, <1>3, <2>2
    <3>2. At(k) = s[k] /\ s[k] \in Addr /\ s[k] # NULL /\ s[k] \in Pointer
      BY <1>1, <1>3, <3>1 DEF Pointer
    <3>3. f[m - 1][At(k + 1)] = Suffix(k + 1) BY <1>9, <3>1
    <3> HIDE DEF At, Suffix
    <3>4. f[m][s[k]] = <<s[k]>> \o f[m - 1][nx[s[k]]]
      <4> DEFINE b == s[k]
      <4>1. b \in Pointer /\ b # NULL /\ m # 0 BY <3>1, <3>2
      <4> HIDE DEF b
      <4>2. f[m][b] = <<b>> \o f[m - 1][nx[b]] BY <1>8, <4>1
      <4> QED BY <4>2 DEF b
    <3> QED BY <1>4, <1>7, <3>1, <3>2, <3>3, <3>4
  <2> QED BY <2>1, <2>2
<1>10. Right(N)
  <2> SUFFICES ASSUME ~ Right(N) PROVE FALSE OBVIOUS
  <2> HIDE DEF Right
  <2>1. N \in T /\ T \in SUBSET Nat BY <1>1
  <2> HIDE DEF T
  <2>2. PICK m \in T : \A y \in T : m <= y BY <2>1, LeastNumber
  <2>3. m \in 0 .. N /\ ~ Right(m) BY <2>2 DEF T
  <2>4. m > 0 => m - 1 \in 0 .. N /\ m - 1 \notin T BY <1>1, <2>2, <2>3
  <2>5. m > 0 => Right(m - 1) BY <2>4 DEF T
  <2> QED BY <1>9, <2>3, <2>5
<1>11. f[N][At(1)] = Suffix(1) BY <1>3, <1>10
<1>12. At(1) = First(s) BY <1>3 DEF First, L
<1>13. Suffix(1) = s
  <2>1. Suffix(1) = [x \in 1 .. L |-> s[x]] BY <1>3
  <2> HIDE DEF Suffix
  <2> QED BY <2>1 DEF L
<1> HIDE DEF At, Suffix
<1> QED BY <1>2, <1>11, <1>12, <1>13

(* No list of different blocks is longer than the heap is large. *)
LEMMA DistinctFits ==
  ASSUME NEW s \in Seq(Addr),
         \A k \in 1 .. Len(s), l \in 1 .. Len(s) : s[k] = s[l] => k = l
  PROVE  Len(s) <= Cardinality(Addr)
<1> DEFINE L == Len(s)
<1>1. L \in Nat /\ s \in [1 .. L -> Addr] OBVIOUS
<1>2. s \in Injection(1 .. L, Addr) BY <1>1 DEF Injection, IsInjective
<1>3. Cardinality(1 .. L) <= Cardinality(Addr) BY <1>2, MallocAssumption, FS_Injection
<1>4. Cardinality(1 .. L) = L BY <1>1, FS_Interval
<1> QED BY <1>3, <1>4

NodesOf(A, n) == [k \in 1 .. n |-> A[<<n - k, 0>>]]
PropsOf(A, m, q) == [l \in 1 .. q |-> A[<<m, q + 1 - l>>]]

NumbersIn(nm, list) == [k \in DOMAIN list |-> nm[list[k]]]
DevicesIn(nx, nm, pr, h) ==
  LET list == Collected(nx, h)
  IN [k \in DOMAIN list |->
       [name |-> nm[list[k]], props |-> NumbersIn(nm, Collected(nx, pr[list[k]]))]]

(* The numbered blocks, when linked, are the list of n devices.            *)
InMemory(nx, nm, pr, A, n, p) ==
  /\ nx \in [Addr -> Pointer]
  /\ \A x \in Live(n, p) : A[x] \in Addr
  /\ \A x \in Live(n, p), y \in Live(n, p) : A[x] = A[y] => x = y
  /\ \A m \in 0 .. n - 1 : /\ nx[A[<<m, 0>>]] = IF m = 0 THEN NULL ELSE A[<<m - 1, 0>>]
                           /\ nm[A[<<m, 0>>]] = m
  /\ \A x \in Live(n, p) : x[2] > 0 =>
       /\ nx[A[x]] = IF x[2] = 1 THEN NULL ELSE A[<<x[1], x[2] - 1>>]
       /\ nm[A[x]] = x[2] - 1
  /\ \A m \in 0 .. n - 2 : pr[A[<<m, 0>>]] = A[<<m, MAX_PROPS>>]
  /\ n > 0 => pr[A[<<n - 1, 0>>]] = IF p = 0 THEN NULL ELSE A[<<n - 1, p>>]

LEMMA ListInMemory ==
  ASSUME NEW nx, NEW nm, NEW pr, NEW A, NEW n \in Nat, NEW p \in 0 .. MAX_PROPS,
         InMemory(nx, nm, pr, A, n, p)
  PROVE  DevicesIn(nx, nm, pr, Newest(A, n)) = Listed(n, p, MAX_PROPS)
<1> USE Limits
<1> USE DEF InMemory
<1> DEFINE Count(m) == IF m = n - 1 THEN p ELSE MAX_PROPS
<1>1. \A m \in 0 .. n - 1 : Count(m) \in Nat /\ \A l \in 0 .. Count(m) : <<m, l>> \in Live(n, p)
  BY DEF Live
<1>2. Collected(nx, Newest(A, n)) = NodesOf(A, n)
  <2> DEFINE s == NodesOf(A, n)
  <2>1. ASSUME NEW k \in 1 .. n PROVE s[k] = A[<<n - k, 0>>] /\ <<n - k, 0>> \in Live(n, p)
    <3>1. n - k \in 0 .. n - 1 OBVIOUS
    <3> QED BY <1>1, <3>1 DEF NodesOf
  <2>2. s \in Seq(Addr) /\ Len(s) = n
    <3>1. \A k \in 1 .. n : A[<<n - k, 0>>] \in Addr BY <2>1
    <3> QED BY <3>1 DEF NodesOf
  <2> HIDE DEF s
  <2>3. ASSUME NEW k \in 1 .. n, NEW l \in 1 .. n, s[k] = s[l] PROVE k = l
    <3> DEFINE x == <<n - k, 0>>
               y == <<n - l, 0>>
    <3>1. A[x] = A[y] /\ x \in Live(n, p) /\ y \in Live(n, p) BY <2>1, <2>3
    <3>2. x = y
      <4> HIDE DEF x, y
      <4> QED BY <3>1
    <3> QED BY <3>2
  <2>4. Len(s) <= Cardinality(Addr) BY <2>2, <2>3, DistinctFits
  <2>5. ASSUME NEW k \in 1 .. n PROVE nx[s[k]] = IF k < n THEN s[k + 1] ELSE NULL
    <3> DEFINE m == n - k
    <3>1. m \in 0 .. n - 1 /\ (k < n <=> m # 0) OBVIOUS
    <3>2. nx[s[k]] = IF m = 0 THEN NULL ELSE A[<<m - 1, 0>>] BY <2>1, <3>1
    <3>3. k < n => s[k + 1] = A[<<m - 1, 0>>] BY <2>1
    <3> QED BY <3>1, <3>2, <3>3
  <2>6. First(s) = Newest(A, n)
    <3>1. s = <<>> <=> n = 0 BY <2>2
    <3>2. n > 0 => s[1] = A[<<n - 1, 0>>] BY <2>1
    <3> QED BY <3>1, <3>2 DEF First, Newest
  <2>7. Collected(nx, First(s)) = s BY <2>2, <2>4, <2>5, ChainCollected
  <2> QED BY <2>6, <2>7 DEF s
<1>3. ASSUME NEW m \in 0 .. n - 1
      PROVE  NumbersIn(nm, Collected(nx, pr[A[<<m, 0>>]])) = Countdown(Count(m))
  <2> DEFINE q == Count(m)
             s == PropsOf(A, m, q)
  <2>1. q \in Nat /\ \A l \in 0 .. q : <<m, l>> \in Live(n, p) BY <1>1
  <2>2. pr[A[<<m, 0>>]] = IF q = 0 THEN NULL ELSE A[<<m, q>>]
    <3>1. CASE m = n - 1 BY <3>1
    <3>2. CASE m # n - 1
      <4>1. m \in 0 .. n - 2 /\ q = MAX_PROPS BY <3>2
      <4> QED BY <4>1
    <3> QED BY <3>1, <3>2
  <2> HIDE DEF q, Count
  <2>3. ASSUME NEW l \in 1 .. q PROVE s[l] = A[<<m, q + 1 - l>>] /\ <<m, q + 1 - l>> \in Live(n, p)
    <3>1. q + 1 - l \in 0 .. q BY <2>1
    <3>2. <<m, q + 1 - l>> \in Live(n, p) BY <2>1, <3>1
    <3>3. s[l] = A[<<m, q + 1 - l>>] BY DEF PropsOf
    <3> QED BY <3>2, <3>3
  <2>4. s \in Seq(Addr) /\ Len(s) = q
    <3>1. s = [l \in 1 .. q |-> s[l]] /\ q \in Nat BY <2>1 DEF PropsOf
    <3>2. \A l \in 1 .. q : s[l] \in Addr BY <2>3
    <3> HIDE DEF s
    <3> QED BY <3>1, <3>2, SeqIs, SMTT(30)
  <2> HIDE DEF s
  <2>5. ASSUME NEW k \in 1 .. q, NEW l \in 1 .. q, s[k] = s[l] PROVE k = l
    <3> DEFINE x == <<m, q + 1 - k>>
               y == <<m, q + 1 - l>>
    <3>1. A[x] = A[y] /\ x \in Live(n, p) /\ y \in Live(n, p) BY <2>3, <2>5
    <3>2. x = y
      <4> HIDE DEF x, y
      <4> QED BY <3>1
    <3> QED BY <2>1, <3>2
  <2>6. Len(s) <= Cardinality(Addr) BY <2>4, <2>5, DistinctFits
  <2>7. ASSUME NEW l \in 1 .. q
        PROVE  /\ nx[s[l]] = IF l < q THEN s[l + 1] ELSE NULL
               /\ nm[s[l]] = q - l
    <3> DEFINE x == <<m, q + 1 - l>>
    <3>1. x \in Live(n, p) /\ x[1] = m /\ x[2] = q + 1 - l /\ x[2] > 0 /\ (l < q <=> x[2] # 1)
      BY <2>1, <2>3
    <3>2. /\ nx[A[x]] = IF x[2] = 1 THEN NULL ELSE A[<<m, x[2] - 1>>]
          /\ nm[A[x]] = x[2] - 1
      BY <3>1
    <3>3. l < q => s[l + 1] = A[<<m, q + 1 - (l + 1)>>] BY <2>1, <2>3
    <3>4. q + 1 - (l + 1) = x[2] - 1 /\ x[2] - 1 = q - l BY <2>1, <3>1
    <3>5. s[l] = A[x] BY <2>3
    <3> HIDE DEF x
    <3> QED BY <3>1, <3>2, <3>3, <3>4, <3>5
  <2>8. First(s) = pr[A[<<m, 0>>]]
    <3>1. s = <<>> <=> q = 0 BY <2>1, <2>4
    <3>2. q > 0 => s[1] = A[<<m, q>>] BY <2>1, <2>3
    <3> QED BY <2>1, <2>2, <3>1, <3>2 DEF First
  <2>9. Collected(nx, First(s)) = s BY <2>4, <2>6, <2>7, ChainCollected
  <2>10. NumbersIn(nm, s) = Countdown(q)
    <3>1. DOMAIN s = 1 .. q BY <2>4
    <3> QED BY <2>7, <3>1 DEF NumbersIn, Countdown
  <2> QED BY <2>8, <2>9, <2>10 DEF q
<1>4. DOMAIN NodesOf(A, n) = 1 .. n /\ \A k \in 1 .. n : NodesOf(A, n)[k] = A[<<n - k, 0>>]
  BY DEF NodesOf
<1>5. ASSUME NEW k \in 1 .. n
      PROVE  [name |-> nm[A[<<n - k, 0>>]],
              props |-> NumbersIn(nm, Collected(nx, pr[A[<<n - k, 0>>]]))]
               = Plain(n - k, IF k = 1 THEN p ELSE MAX_PROPS)
  <2> DEFINE m == n - k
  <2>1. m \in 0 .. n - 1 /\ (m = n - 1 <=> k = 1) OBVIOUS
  <2>2. Count(m) = IF k = 1 THEN p ELSE MAX_PROPS BY <2>1
  <2> HIDE DEF m, Count
  <2>3. nm[A[<<m, 0>>]] = m /\ NumbersIn(nm, Collected(nx, pr[A[<<m, 0>>]])) = Countdown(Count(m))
    BY <1>3, <2>1
  <2>4. [name |-> nm[A[<<m, 0>>]], props |-> NumbersIn(nm, Collected(nx, pr[A[<<m, 0>>]]))]
          = Plain(m, IF k = 1 THEN p ELSE MAX_PROPS)
    BY <2>2, <2>3 DEF Plain
  <2> QED BY <2>4 DEF m
<1> DEFINE list == NodesOf(A, n)
<1>6. DOMAIN list = 1 .. n BY <1>4
<1>7. \A k \in 1 .. n :
        [name |-> nm[list[k]], props |-> NumbersIn(nm, Collected(nx, pr[list[k]]))]
          = Plain(n - k, IF k = 1 THEN p ELSE MAX_PROPS)
  BY <1>4, <1>5
<1> HIDE DEF list
<1>8. [k \in DOMAIN list |->
        [name |-> nm[list[k]], props |-> NumbersIn(nm, Collected(nx, pr[list[k]]))]]
        = Listed(n, p, MAX_PROPS)
  BY <1>6, <1>7 DEF Listed
<1>9. DevicesIn(nx, nm, pr, Newest(A, n))
        = [k \in DOMAIN list |->
            [name |-> nm[list[k]], props |-> NumbersIn(nm, Collected(nx, pr[list[k]]))]]
  BY <1>2 DEF DevicesIn, list
<1> QED BY <1>8, <1>9

LEMMA DevicesAreListed ==
  ASSUME TypeOK, Parsing,
         NEW A \in Numbering, NEW n \in Nat, NEW p \in Nat, Holds(A, n, p)
  PROVE  Devices = Listed(n, p, MAX_PROPS)
<1>1. /\ p \in 0 .. MAX_PROPS /\ head = Newest(A, n) /\ pc # "free_prop"
      /\ Allocated(A, n, p) /\ Linked(A, n, p) /\ PropsLinked(A, n, p)
  BY DEF Holds, Position, Parsing
<1>2. next \in [Addr -> Pointer] /\ used \subseteq Addr BY DEF TypeOK
<1>3. /\ \A x \in Live(n, p) : A[x] \in Addr
      /\ \A x \in Live(n, p), y \in Live(n, p) : A[x] = A[y] => x = y
  BY <1>1, <1>2 DEF Allocated
<1>4. /\ \A m \in 0 .. n - 1 : /\ next[A[<<m, 0>>]] = IF m = 0 THEN NULL ELSE A[<<m - 1, 0>>]
                               /\ name[A[<<m, 0>>]] = m
      /\ \A x \in Live(n, p) : x[2] > 0 =>
           /\ next[A[x]] = IF x[2] = 1 THEN NULL ELSE A[<<x[1], x[2] - 1>>]
           /\ name[A[x]] = x[2] - 1
  BY <1>1 DEF Linked
<1>5. /\ \A m \in 0 .. n - 2 : props[A[<<m, 0>>]] = A[<<m, MAX_PROPS>>]
      /\ n > 0 => props[A[<<n - 1, 0>>]] = IF p = 0 THEN NULL ELSE A[<<n - 1, p>>]
  BY <1>1 DEF PropsLinked
<1>6. DevicesIn(next, name, props, Newest(A, n)) = Listed(n, p, MAX_PROPS)
  <2>1. InMemory(next, name, props, A, n, p)
    BY <1>2, <1>3, <1>4, <1>5 DEF InMemory
  <2> QED BY <1>1, <2>1, ListInMemory
<1>7. Devices = DevicesIn(next, name, props, head)
  BY ListFromIsCollected DEF Devices, DevicesIn, Numbers, NumbersIn
<1> QED BY <1>1, <1>6, <1>7

(* The same after a step. *)
LEMMA DevicesAreListedNext ==
  ASSUME TypeOK', Parsing',
         NEW A \in Numbering, NEW n \in Nat, NEW p \in Nat, Holds(A, n, p)'
  PROVE  Devices' = Listed(n, p, MAX_PROPS)
<1>1. /\ p \in 0 .. MAX_PROPS /\ head' = Newest(A, n) /\ pc' # "free_prop"
      /\ Allocated(A, n, p)' /\ Linked(A, n, p)' /\ PropsLinked(A, n, p)'
  BY DEF Holds, Position, Parsing
<1>2. next' \in [Addr -> Pointer] /\ used' \subseteq Addr BY DEF TypeOK
<1>3. /\ \A x \in Live(n, p) : A[x] \in Addr
      /\ \A x \in Live(n, p), y \in Live(n, p) : A[x] = A[y] => x = y
  BY <1>1, <1>2 DEF Allocated
<1>4. /\ \A m \in 0 .. n - 1 : /\ next'[A[<<m, 0>>]] = IF m = 0 THEN NULL ELSE A[<<m - 1, 0>>]
                               /\ name'[A[<<m, 0>>]] = m
      /\ \A x \in Live(n, p) : x[2] > 0 =>
           /\ next'[A[x]] = IF x[2] = 1 THEN NULL ELSE A[<<x[1], x[2] - 1>>]
           /\ name'[A[x]] = x[2] - 1
  BY <1>1 DEF Linked
<1>5. /\ \A m \in 0 .. n - 2 : props'[A[<<m, 0>>]] = A[<<m, MAX_PROPS>>]
      /\ n > 0 => props'[A[<<n - 1, 0>>]] = IF p = 0 THEN NULL ELSE A[<<n - 1, p>>]
  BY <1>1 DEF PropsLinked
<1>6. DevicesIn(next', name', props', Newest(A, n)) = Listed(n, p, MAX_PROPS)
  <2>1. InMemory(next', name', props', A, n, p)
    BY <1>2, <1>3, <1>4, <1>5 DEF InMemory
  <2> QED BY <1>1, <2>1, ListInMemory
<1>7. Devices' = DevicesIn(next', name', props', head')
  BY ListFromIsCollectedNext DEF Devices, DevicesIn, Numbers, NumbersIn
<1> QED BY <1>1, <1>6, <1>7

LEMMA InitImplements == Init => List!Init
BY Limits DEF Init, List!Init

LEMMA StepImplements == HeapInv /\ HeapInv' /\ [Next]_vars => [List!Next]_(List!listVars)
<1> SUFFICES ASSUME HeapInv, HeapInv', [Next]_vars PROVE [List!Next]_(List!listVars)
  OBVIOUS
<1> DEFINE devices == IF pc \in {"node", "prop", "exited"} THEN Devices ELSE <<>>
<1>1. PICK A \in Numbering, n \in Nat, p \in Nat : Holds(A, n, p) BY DEF HeapInv
<1>2. PICK B \in Numbering, m \in Nat, q \in Nat : Holds(B, m, q)' /\ Move(n, p, m, q)
  BY <1>1, HeapMove
<1>3. /\ devices = IF Parsing THEN Listed(n, p, MAX_PROPS) ELSE <<>>
      /\ devices' = IF Parsing' THEN Listed(m, q, MAX_PROPS) ELSE <<>>
  <2>1. Parsing => Devices = Listed(n, p, MAX_PROPS) BY <1>1, DevicesAreListed DEF HeapInv
  <2>2. Parsing' => Devices' = Listed(m, q, MAX_PROPS) BY <1>2, DevicesAreListedNext DEF HeapInv
  <2> QED BY <2>1, <2>2 DEF Parsing
<1>4. n \in 0 .. MAX_NODES /\ p \in 0 .. MAX_PROPS BY <1>1 DEF Holds, Position
<1>5. /\ Len(Listed(n, p, MAX_PROPS)) = n /\ (Listed(n, p, MAX_PROPS) = <<>> <=> n = 0)
      /\ n > 0 => Len(Listed(n, p, MAX_PROPS)[1].props) = p
  <2>1. /\ Len(Listed(n, p, MAX_PROPS)) = n /\ (Listed(n, p, MAX_PROPS) = <<>> <=> n = 0)
        /\ n > 0 => Listed(n, p, MAX_PROPS)[1].props = Countdown(p)
    <3>1. MAX_PROPS \in Nat BY Limits
    <3> QED BY <3>1, ListedFacts
  <2>2. Len(Countdown(p)) = p BY CountdownFacts
  <2> QED BY <2>1, <2>2
<1>6. Listed(0, MAX_PROPS, MAX_PROPS) = <<>> BY Limits, ListedFacts
<1> HIDE DEF devices
<1> USE Limits
<1>7. /\ (/\ Len(devices) < MAX_NODES /\ (devices # <<>> => List!Full(devices[1]))
          /\ devices' = <<[name |-> Len(devices), props |-> <<>>]>> \o devices)
          => List!AddDevice
      /\ (/\ devices # <<>> /\ ~ List!Full(devices[1])
          /\ devices' = [devices EXCEPT ![1].props = <<Len(@)>> \o @]) => List!AddProperty
      /\ (Len(devices) = MAX_NODES /\ List!Full(devices[1]) /\ devices' = <<>>) => List!Discard
      /\ devices' = devices => UNCHANGED List!listVars
  <2>1. (/\ Len(devices) < MAX_NODES /\ (devices # <<>> => List!Full(devices[1]))
         /\ devices' = <<[name |-> Len(devices), props |-> <<>>]>> \o devices)
         => List!AddDevice
    BY DEF devices, List!AddDevice
  <2>2. (/\ devices # <<>> /\ ~ List!Full(devices[1])
         /\ devices' = [devices EXCEPT ![1].props = <<Len(@)>> \o @]) => List!AddProperty
    BY DEF devices, List!AddProperty
  <2>3. (Len(devices) = MAX_NODES /\ List!Full(devices[1]) /\ devices' = <<>>) => List!Discard
    BY DEF devices, List!Discard, List!Complete
  <2>4. devices' = devices => UNCHANGED List!listVars BY DEF devices, List!listVars
  <2> QED BY <2>1, <2>2, <2>3, <2>4
<1>8. CASE Parsing /\ Parsing' /\ m = n + 1 /\ q = 0 /\ p = MAX_PROPS /\ n < MAX_NODES
  <2>1. devices' = <<[name |-> n, props |-> <<>>]>> \o devices BY <1>3, <1>8, ListedDevice
  <2>2. devices # <<>> => List!Full(devices[1]) BY <1>3, <1>4, <1>5, <1>8 DEF List!Full
  <2>3. Len(devices) = n BY <1>3, <1>5, <1>8
  <2>4. List!AddDevice BY <1>7, <1>8, <2>1, <2>2, <2>3
  <2> QED BY <2>4 DEF List!Next
<1>9. CASE Parsing /\ Parsing' /\ m = n /\ q = p + 1 /\ p < MAX_PROPS /\ n > 0
  <2>1. devices' = [devices EXCEPT ![1].props = <<Len(@)>> \o @]
    <3>1. n \in Nat \ {0} BY <1>9
    <3>2. [Listed(n, p, MAX_PROPS) EXCEPT ![1].props = <<Len(@)>> \o @] = Listed(n, p + 1, MAX_PROPS)
      BY <3>1, ListedProperty
    <3> QED BY <1>3, <1>9, <3>2
  <2>2. devices # <<>> /\ ~ List!Full(devices[1]) BY <1>3, <1>5, <1>9 DEF List!Full
  <2> QED BY <1>7, <2>1, <2>2 DEF List!Next
<1>10. CASE Parsing /\ ~ Parsing' /\ n = MAX_NODES /\ p = MAX_PROPS
  BY <1>3, <1>5, <1>7, <1>10 DEF List!Next, List!Full
<1>11. CASE Parsing /\ Parsing' /\ m = n /\ q = p BY <1>3, <1>7, <1>11
<1>12. CASE ~ Parsing /\ Parsing' /\ m = 0 /\ q = MAX_PROPS BY <1>3, <1>6, <1>7, <1>12
<1>13. CASE ~ Parsing /\ ~ Parsing' BY <1>3, <1>7, <1>13
<1> QED BY <1>2, <1>8, <1>9, <1>10, <1>11, <1>12, <1>13 DEF Move

(* linked_list_parse links every device with its properties, in the order  *)
(* of the loops, and gives the list up only when it is complete (lines     *)
(* 72-122): wherever malloc finds the blocks, and when it finds none.      *)
THEOREM MallocParseRefinement == Spec => ImplementsDeviceList
<1>1. HeapInv /\ HeapInv' /\ [Next]_vars => [List!Next]_(List!listVars) BY StepImplements
<1> QED BY <1>1, Invariance, InitImplements, PTL DEF Spec, ImplementsDeviceList, List!Spec
=============================================================================
