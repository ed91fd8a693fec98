-------------------------- MODULE DeviceTreeProofs --------------------------
(***************************************************************************)
(* The bump allocator hands out sound blocks for every arena, as long as   *)
(* the requests are narrower than the mask ~7u, and the parser that uses   *)
(* it builds a device list in consecutive blocks of it.                    *)
(***************************************************************************)
EXTENDS DeviceTree, CommonTheorems

(* What the program's use of arena_alloc guarantees: rounding a request up *)
(* neither leaves the unsigned int nor makes the sum of line 151 wrap.     *)
Fitting ==
  /\ \A sz \in Requests : sz + 7 < UINT
  /\ ARENA_BYTES + UINT <= SIZE

Block == [at : 0 .. ARENA_BYTES, size : Requests]

(* Inductive: the offset is aligned, and the blocks lie below it in order. *)
ArenaInv ==
  /\ arena_offset \in 0 .. ARENA_BYTES /\ arena_offset % 8 = 0
  /\ ptr \in {NULL} \cup 0 .. ARENA_BYTES
  /\ blocks \in Seq(Block)
  /\ BlocksAreSound

(* Rounding up: (sz + 7u) & ~7u is the next multiple of 8 (lines 136-148). *)
THEOREM AlignedIsNextMultiple ==
  ASSUME Fitting, NEW sz \in Requests
  PROVE  Aligned(sz) \in sz .. sz + 7 /\ Aligned(sz) % 8 = 0 /\ Aligned(sz) < UINT
<1> DEFINE x == sz + 7
<1>1. x \in Nat /\ x < UINT /\ UINT \in Nat \ {0} /\ sz \in Nat
  BY ArenaAssumption DEF Fitting
<1>2. x % UINT = x BY <1>1, SmallModulo
<1>3. Aligned(sz) = x - (x % 8) BY <1>2 DEF Aligned
<1> HIDE DEF x
<1>4. x % 8 \in 0 .. 7 /\ (x - (x % 8)) % 8 = 0 BY <1>1
<1>5. x = sz + 7 BY DEF x
<1> QED BY <1>1, <1>3, <1>4, <1>5

(* A granted request moves the offset by its aligned size, inside the arena. *)
LEMMA BumpFacts ==
  ASSUME Fitting, ArenaInv, NEW sz \in Requests, Bump(sz)
  PROVE  /\ arena_offset' = arena_offset + Aligned(sz)
         /\ arena_offset' \in 0 .. ARENA_BYTES /\ arena_offset' % 8 = 0
         /\ arena_offset + sz <= arena_offset'
<1> DEFINE a == Aligned(sz)
           s == arena_offset + a
<1>1. a \in sz .. sz + 7 /\ a % 8 = 0 /\ a < UINT /\ sz \in Nat
  BY AlignedIsNextMultiple, ArenaAssumption
<1>2. arena_offset \in 0 .. ARENA_BYTES /\ arena_offset % 8 = 0 BY DEF ArenaInv
<1>3. ARENA_BYTES \in Nat /\ UINT \in Nat \ {0} /\ SIZE \in Nat /\ ARENA_BYTES + UINT <= SIZE
  BY ArenaAssumption DEF Fitting
<1>4. arena_offset' = s % SIZE /\ ~ (s % SIZE > ARENA_BYTES) BY DEF Bump, Exceeds
<1> HIDE DEF a
<1>5. s \in 0 .. SIZE - 1 /\ SIZE \in Nat \ {0} BY <1>1, <1>2, <1>3
<1> HIDE DEF s
<1>6. s % SIZE = s BY <1>5, SmallModulo
<1>7. s = arena_offset + a BY DEF s
<1>8. s <= ARENA_BYTES BY <1>3, <1>4, <1>5, <1>6
<1>9. s % 8 = 0 BY <1>1, <1>2, <1>7
<1>10. arena_offset + sz <= s BY <1>1, <1>2, <1>7
<1> QED BY <1>4, <1>5, <1>6, <1>7, <1>8, <1>9, <1>10 DEF a

LEMMA BumpKeeps ==
  ASSUME Fitting, ArenaInv, NEW sz \in Requests, Bump(sz)
  PROVE  ArenaInv'
<1> DEFINE b == [at |-> arena_offset, size |-> sz]
<1>1. /\ arena_offset \in 0 .. ARENA_BYTES /\ arena_offset % 8 = 0
      /\ ARENA_BYTES \in Nat /\ sz \in Nat
  BY ArenaAssumption DEF ArenaInv
<1>2. /\ arena_offset' \in 0 .. ARENA_BYTES /\ arena_offset' % 8 = 0
      /\ arena_offset + sz <= arena_offset'
  BY BumpFacts
<1>3. ptr' = arena_offset /\ blocks' = Append(blocks, b) BY DEF Bump
<1>4. blocks \in Seq(Block) /\ b \in Block BY <1>1 DEF ArenaInv, Block
<1>5. /\ blocks' \in Seq(Block) /\ Len(blocks') = Len(blocks) + 1 /\ Len(blocks) \in Nat
      /\ \A k \in 1 .. Len(blocks) : blocks'[k] = blocks[k]
      /\ blocks'[Len(blocks) + 1] = b
  BY <1>3, <1>4
<1>6. \A k \in 1 .. Len(blocks) : blocks[k].at \in Nat /\ blocks[k].size \in Nat
  <2>1. Requests \subseteq Nat BY ArenaAssumption
  <2>2. \A k \in 1 .. Len(blocks) : blocks[k] \in Block BY <1>4
  <2>3. \A c \in Block : c.at \in 0 .. ARENA_BYTES /\ c.size \in Requests BY DEF Block
  <2>4. ASSUME NEW k \in 1 .. Len(blocks) PROVE blocks[k].at \in Nat /\ blocks[k].size \in Nat
    <3>1. blocks[k].at \in 0 .. ARENA_BYTES /\ blocks[k].size \in Requests BY <2>2, <2>3
    <3>2. 0 .. ARENA_BYTES \subseteq Nat BY <1>1
    <3> QED BY <2>1, <3>1, <3>2
  <2> QED BY <2>4
<1>7. b.at = arena_offset /\ b.size = sz OBVIOUS
<1>8. /\ \A k \in 1 .. Len(blocks) :
           blocks[k].at % 8 = 0 /\ blocks[k].at + blocks[k].size <= arena_offset
      /\ \A k \in 1 .. Len(blocks), l \in 1 .. Len(blocks) :
           k < l => blocks[k].at + blocks[k].size <= blocks[l].at
  BY DEF ArenaInv, BlocksAreSound
<1> HIDE DEF b
<1>9. ASSUME NEW k \in 1 .. Len(blocks')
      PROVE  /\ blocks'[k].at % 8 = 0
             /\ blocks'[k].at + blocks'[k].size <= arena_offset'
  <2>1. CASE k = Len(blocks) + 1 BY <1>1, <1>2, <1>5, <1>7, <2>1
  <2>2. CASE k # Len(blocks) + 1
    <3>1. k \in 1 .. Len(blocks) BY <1>5, <2>2
    <3> QED BY <1>1, <1>2, <1>5, <1>6, <1>8, <3>1
  <2> QED BY <2>1, <2>2
<1>10. ASSUME NEW k \in 1 .. Len(blocks'), NEW l \in 1 .. Len(blocks'), k < l
       PROVE  blocks'[k].at + blocks'[k].size <= blocks'[l].at
  <2>1. k \in 1 .. Len(blocks) BY <1>5, <1>10
  <2>2. CASE l = Len(blocks) + 1 BY <1>1, <1>5, <1>6, <1>7, <1>8, <2>1, <2>2
  <2>3. CASE l # Len(blocks) + 1
    <3>1. l \in 1 .. Len(blocks) BY <1>5, <2>3
    <3> QED BY <1>5, <1>8, <1>10, <2>1, <3>1
  <2> QED BY <2>2, <2>3
<1>11. BlocksAreSound' BY <1>1, <1>2, <1>9, <1>10 DEF BlocksAreSound
<1> QED BY <1>1, <1>2, <1>3, <1>5, <1>11 DEF ArenaInv

LEMMA ArenaStart == ArenaInit => ArenaInv
<1> SUFFICES ASSUME ArenaInit PROVE ArenaInv OBVIOUS
<1>1. arena_offset = 0 /\ ptr = NULL /\ blocks = <<>> BY DEF ArenaInit
<1>2. BlocksAreSound BY <1>1 DEF BlocksAreSound
<1> QED BY <1>1, <1>2, ArenaAssumption DEF ArenaInv

LEMMA ArenaStep ==
  Fitting => (ArenaInv /\ [AnyClient]_arenaVars => ArenaInv')
<1> SUFFICES ASSUME Fitting, ArenaInv, [AnyClient]_arenaVars PROVE ArenaInv' OBVIOUS
<1>1. CASE \E sz \in Requests : arena_alloc(sz)
  <2>1. PICK sz \in Requests : arena_alloc(sz) BY <1>1
  <2>2. CASE Bump(sz) BY <2>2, BumpKeeps
  <2>3. CASE Refuse(sz) BY <2>3 DEF Refuse, ArenaInv, BlocksAreSound
  <2> QED BY <2>1, <2>2, <2>3 DEF arena_alloc
<1>2. CASE arena_reset
  <2>1. arena_offset' = 0 /\ blocks' = <<>> /\ ptr' = ptr BY <1>2 DEF arena_reset
  <2>2. BlocksAreSound' BY <2>1 DEF BlocksAreSound
  <2> QED BY <2>1, <2>2, ArenaAssumption DEF ArenaInv
<1>3. CASE UNCHANGED arenaVars BY <1>3 DEF arenaVars, ArenaInv, BlocksAreSound
<1> QED BY <1>1, <1>2, <1>3 DEF AnyClient

LEMMA ArenaInvariance == ASSUME Fitting PROVE ArenaSpec => []ArenaInv
<1>1. Fitting OBVIOUS
<1>2. ArenaInit => ArenaInv BY ArenaStart
<1>3. ArenaInv /\ [AnyClient]_arenaVars => ArenaInv' BY <1>1, ArenaStep
<1> QED BY <1>2, <1>3, PTL DEF ArenaSpec

(* For every arena and every sequence of fitting requests, what            *)
(* arena_alloc hands out is aligned, inside the arena and disjoint from    *)
(* all it handed out since the last reset (lines 146-159).                 *)
THEOREM SoundBlocks == ASSUME Fitting PROVE ArenaSpec => []BlocksAreSound
<1>1. ArenaInv => BlocksAreSound BY DEF ArenaInv
<1>2. ArenaSpec => []ArenaInv BY ArenaInvariance
<1> QED BY <1>1, <1>2, PTL

(* Line 140 holds for fitting requests: one that exceeds the arena is      *)
(* refused.  Only requests as wide as the mask break it.                   *)
THEOREM ExcessRefused == ASSUME Fitting PROVE ArenaSpec => ExcessIsRefused
<1> DEFINE Granted ==
             \A sz \in Requests :
               blocks' = Append(blocks, [at |-> arena_offset, size |-> sz])
                 => arena_offset + sz <= ARENA_BYTES
<1>1. ASSUME ArenaInv, [AnyClient]_arenaVars PROVE [Granted]_arenaVars
  <2> SUFFICES ASSUME AnyClient, NEW sz \in Requests,
                      blocks' = Append(blocks, [at |-> arena_offset, size |-> sz])
               PROVE  arena_offset + sz <= ARENA_BYTES
    BY <1>1
  <2> DEFINE b == [at |-> arena_offset, size |-> sz]
  <2>1. blocks \in Seq(Block) /\ b \in Block BY <1>1 DEF ArenaInv, Block
  <2>2. Len(blocks') = Len(blocks) + 1 /\ Len(blocks) \in Nat /\ blocks'[Len(blocks) + 1] = b
    BY <2>1
  <2>3. blocks' # blocks /\ blocks' # <<>> BY <2>1, <2>2
  <2>4. PICK sz2 \in Requests : Bump(sz2)
    BY <2>3 DEF AnyClient, arena_alloc, Refuse, arena_reset
  <2> DEFINE c == [at |-> arena_offset, size |-> sz2]
  <2>5. c \in Block /\ blocks' = Append(blocks, c) BY <1>1, <2>4 DEF ArenaInv, Block, Bump
  <2>6. blocks'[Len(blocks) + 1] = c BY <2>1, <2>5
  <2>7. sz = sz2 BY <2>2, <2>6
  <2>8. arena_offset + sz2 <= arena_offset' /\ arena_offset' \in 0 .. ARENA_BYTES
    BY <1>1, <2>4, BumpFacts
  <2> QED BY <1>1, <2>7, <2>8, ArenaAssumption DEF ArenaInv
<1>2. ArenaSpec => []ArenaInv BY ArenaInvariance
<1>3. ArenaSpec => [][AnyClient]_arenaVars BY DEF ArenaSpec
<1> QED BY <1>1, <1>2, <1>3, PTL DEF ExcessIsRefused

(***************************************************************************)
(* arena_parse.  Its list is determined by the number of its devices and   *)
(* of the properties of the newest: Built(m, p), which ends in the arena   *)
(* where the bytes of so many devices end.  The sizes are those of C       *)
(* structs that hold pointers, multiples of 8.                             *)
(***************************************************************************)
AlignedSizes == NODE_BYTES % 8 = 0 /\ PROP_BYTES % 8 = 0

DeviceBytes == NODE_BYTES + MAX_PROPS * PROP_BYTES

(* Where property number p of device number m begins. *)
Offset(m, p) == m * DeviceBytes + NODE_BYTES + p * PROP_BYTES

(* Where a property is refused, so is a device.  This is not so for every  *)
(* arena: a device is smaller than a property.                             *)
CutOnce ==
  \A m \in Nat, p \in 0 .. MAX_PROPS - 1 :
    Offset(m, p) <= ARENA_BYTES /\ Offset(m, p) + PROP_BYTES > ARENA_BYTES
      => Offset(m, p) + NODE_BYTES > ARENA_BYTES

(* The program's sizes (LP64) and its 64 KB arena satisfy both.            *)
THEOREM ProgramSizes ==
  ASSUME ARENA_BYTES = 65536, NODE_BYTES = 48, PROP_BYTES = 72, MAX_PROPS = 16
  PROVE  AlignedSizes /\ CutOnce
<1>1. AlignedSizes BY DEF AlignedSizes
<1>2. \A m \in Nat, p \in Nat : Offset(m, p) = 1200 * m + 48 + 72 * p
  BY DEF Offset, DeviceBytes
<1>3. ASSUME NEW m \in Nat, NEW p \in 0 .. 15,
             Offset(m, p) <= 65536, Offset(m, p) + 72 > 65536
      PROVE  Offset(m, p) + 48 > 65536
  <2>1. Offset(m, p) = 1200 * m + 48 + 72 * p BY <1>2
  <2>2. m = 54 BY <1>3, <2>1
  <2>3. p = 9 BY <1>3, <2>1, <2>2
  <2> QED BY <2>1, <2>2, <2>3
<1>4. CutOnce BY <1>3 DEF CutOnce
<1> QED BY <1>1, <1>4

PropsOf(m, p) == [l \in 1 .. p |-> [at |-> Offset(m, p - l), name |-> p - l]]
Device(m, p) == [at |-> m * DeviceBytes, name |-> m, props |-> PropsOf(m, p)]
Built(n, p) ==
  [k \in 1 .. n |-> Device(n - k, IF k = 1 THEN p ELSE MAX_PROPS)]

(* What the control state says of a list of n devices, the newest with p   *)
(* properties; before the first device p is MAX_PROPS.                     *)
Position(n, p) ==
  /\ n \in 0 .. max_nodes /\ p \in 0 .. MAX_PROPS /\ (n = 0 => p = MAX_PROPS)
  /\ head = Built(n, p)
  /\ pc # "reset" => arena_offset = Offset(n - 1, p)
  /\ pc = "prop" => ~ failed /\ n = i + 1 /\ j = p
  /\ pc = "node" => i = n /\ (failed <=> p < MAX_PROPS)
  /\ pc \in {"node", "return"} /\ p < MAX_PROPS =>
       failed /\ Offset(n - 1, p) + PROP_BYTES > ARENA_BYTES
  /\ pc = "return" /\ p = MAX_PROPS /\ n < max_nodes =>
       failed /\ Offset(n - 1, p) + NODE_BYTES > ARENA_BYTES
  /\ pc = "reset" => failed \/ (n = max_nodes /\ p = MAX_PROPS) \/ n = 0

ParseInv ==
  /\ max_nodes \in NodeCounts /\ failed \in BOOLEAN
  /\ pc \in {"reset", "node", "prop", "return"}
  /\ i \in 0 .. max_nodes /\ j \in 0 .. MAX_PROPS /\ parses \in 0 .. PARSES
  /\ pc = "prop" => i < max_nodes
  /\ pc # "reset" => parses < PARSES
  /\ \E n \in Nat, p \in Nat : Position(n, p)

LEMMA Sizes ==
  /\ NODE_BYTES \in Nat /\ PROP_BYTES \in Nat /\ NODE_BYTES \in Requests /\ PROP_BYTES \in Requests
  /\ MAX_PROPS \in Nat \ {0} /\ DeviceBytes \in Nat /\ ARENA_BYTES \in Nat
<1>1. NODE_BYTES \in Requests /\ PROP_BYTES \in Requests /\ Requests \subseteq Nat
  BY DeviceTreeAssumption, ArenaAssumption
<1> QED BY <1>1, DeviceTreeAssumption, ArenaAssumption DEF DeviceBytes

LEMMA OffsetFacts ==
  ASSUME NEW n \in Int, NEW p \in Int
  PROVE  /\ Offset(n, p) \in Int /\ n * DeviceBytes \in Int
         /\ Offset(n, p + 1) = Offset(n, p) + PROP_BYTES
         /\ Offset(n, 0) = n * DeviceBytes + NODE_BYTES
         /\ Offset(n - 1, MAX_PROPS) = n * DeviceBytes
<1>1. (n - 1) * DeviceBytes = n * DeviceBytes - DeviceBytes BY Sizes
<1> QED BY <1>1, Sizes DEF Offset, DeviceBytes

LEMMA NextOffset ==
  ASSUME NEW n \in Nat, NEW p \in Nat
  PROVE  /\ Offset(n - 1, p) \in Int
         /\ Offset(n - 1, p + 1) = Offset(n - 1, p) + PROP_BYTES
         /\ Offset(n - 1, MAX_PROPS) = n * DeviceBytes
         /\ Offset(n, 0) = Offset(n - 1, MAX_PROPS) + NODE_BYTES
<1> DEFINE m == n - 1
<1>1. n \in Int /\ m \in Int /\ p \in Int OBVIOUS
<1>2. Offset(m, p) \in Int /\ Offset(m, p + 1) = Offset(m, p) + PROP_BYTES
  <2> HIDE DEF m
  <2> QED BY <1>1, OffsetFacts
<1>3. Offset(n - 1, MAX_PROPS) = n * DeviceBytes /\ Offset(n, 0) = n * DeviceBytes + NODE_BYTES
  BY <1>1, OffsetFacts
<1> QED BY <1>2, <1>3

(* What arena_alloc does with the two sizes of the parser.                 *)
LEMMA AllocFacts ==
  ASSUME Fitting, AlignedSizes, ArenaInv, NEW sz \in {NODE_BYTES, PROP_BYTES},
         arena_alloc(sz)
  PROVE  /\ ptr' # NULL => /\ ptr' = arena_offset /\ arena_offset' = arena_offset + sz
                           /\ arena_offset' <= ARENA_BYTES
         /\ ptr' = NULL => arena_offset' = arena_offset /\ arena_offset + sz > ARENA_BYTES
<1>1. sz \in Requests /\ sz \in Nat /\ sz % 8 = 0 BY Sizes DEF AlignedSizes
<1>2. Aligned(sz) = sz /\ sz < UINT
  <2>1. Aligned(sz) \in sz .. sz + 7 /\ Aligned(sz) % 8 = 0 /\ Aligned(sz) < UINT
    BY <1>1, AlignedIsNextMultiple
  <2> QED BY <1>1, <2>1
<1>3. arena_offset \in 0 .. ARENA_BYTES /\ ARENA_BYTES \in Nat BY ArenaAssumption DEF ArenaInv
<1>4. CASE Bump(sz)
  <2>1. ptr' = arena_offset BY <1>4 DEF Bump
  <2>2. arena_offset' = arena_offset + sz /\ arena_offset' \in 0 .. ARENA_BYTES
    BY <1>1, <1>2, <1>4, BumpFacts
  <2> QED BY <1>3, <2>1, <2>2 DEF NULL
<1>5. CASE Refuse(sz)
  <2>1. ptr' = NULL /\ arena_offset' = arena_offset /\ Exceeds(sz) BY <1>5 DEF Refuse
  <2>2. arena_offset + sz \in 0 .. SIZE - 1 /\ SIZE \in Nat \ {0}
    BY <1>1, <1>2, <1>3, ArenaAssumption DEF Fitting
  <2>3. (arena_offset + sz) % SIZE = arena_offset + sz BY <2>2, SmallModulo
  <2> QED BY <1>2, <2>1, <2>3 DEF Exceeds
<1> QED BY <1>4, <1>5 DEF arena_alloc

Property == [at : Int, name : Int]
DeviceType == [at : Int, name : Int, props : Seq(Property)]

LEMMA PropsFacts ==
  ASSUME NEW m \in Int, NEW p \in Nat
  PROVE  /\ PropsOf(m, p) \in Seq(Property) /\ Len(PropsOf(m, p)) = p
         /\ \A l \in 1 .. p : PropsOf(m, p)[l] = [at |-> Offset(m, p - l), name |-> p - l]
<1>1. \A l \in 1 .. p : [at |-> Offset(m, p - l), name |-> p - l] \in Property
  BY OffsetFacts DEF Property
<1> QED BY <1>1 DEF PropsOf

LEMMA BuiltFacts ==
  ASSUME NEW n \in Nat, NEW p \in Nat
  PROVE  /\ Built(n, p) \in Seq(DeviceType) /\ Len(Built(n, p)) = n
         /\ \A k \in 1 .. n :
              Built(n, p)[k] = Device(n - k, IF k = 1 THEN p ELSE MAX_PROPS)
<1>1. \A m \in Int, q \in Nat : Device(m, q) \in DeviceType
  <2> SUFFICES ASSUME NEW m \in Int, NEW q \in Nat PROVE Device(m, q) \in DeviceType OBVIOUS
  <2>1. PropsOf(m, q) \in Seq(Property) /\ m * DeviceBytes \in Int BY PropsFacts, OffsetFacts
  <2> QED BY <2>1 DEF Device, DeviceType
<1>2. \A k \in 1 .. n : Device(n - k, IF k = 1 THEN p ELSE MAX_PROPS) \in DeviceType
  BY <1>1, Sizes
<1> QED BY <1>2 DEF Built

(* Linking a property or a device in front of the list.                    *)
LEMMA PropLinked ==
  ASSUME NEW m \in Int, NEW p \in Nat
  PROVE  <<[at |-> Offset(m, p), name |-> p]>> \o PropsOf(m, p) = PropsOf(m, p + 1)
<1> DEFINE a == [at |-> Offset(m, p), name |-> p]
<1>1. a \in Property BY OffsetFacts DEF Property
<1>2. /\ PropsOf(m, p) \in Seq(Property) /\ Len(PropsOf(m, p)) = p
      /\ \A l \in 1 .. p : PropsOf(m, p)[l] = [at |-> Offset(m, p - l), name |-> p - l]
  BY PropsFacts
<1>3. /\ PropsOf(m, p + 1) \in Seq(Property) /\ Len(PropsOf(m, p + 1)) = p + 1
      /\ \A l \in 1 .. p + 1 :
           PropsOf(m, p + 1)[l] = [at |-> Offset(m, p + 1 - l), name |-> p + 1 - l]
  BY PropsFacts
<1>4. PropsOf(m, p + 1)[1] = a BY <1>3
<1>5. ASSUME NEW l \in 2 .. p + 1 PROVE PropsOf(m, p + 1)[l] = PropsOf(m, p)[l - 1]
  BY <1>2, <1>3
<1> HIDE DEF a
<1>6. /\ <<a>> \o PropsOf(m, p) \in Seq(Property) /\ Len(<<a>> \o PropsOf(m, p)) = p + 1
      /\ (<<a>> \o PropsOf(m, p))[1] = a
      /\ \A l \in 2 .. p + 1 : (<<a>> \o PropsOf(m, p))[l] = PropsOf(m, p)[l - 1]
  BY <1>1, <1>2
<1>7. \A l \in 1 .. p + 1 : (<<a>> \o PropsOf(m, p))[l] = PropsOf(m, p + 1)[l]
  BY <1>4, <1>5, <1>6
<1>8. <<a>> \o PropsOf(m, p) = PropsOf(m, p + 1) BY <1>3, <1>6, <1>7, SeqEqual
<1> QED BY <1>8 DEF a

LEMMA PropAdded ==
  ASSUME NEW n \in Nat \ {0}, NEW p \in Nat
  PROVE  [Built(n, p) EXCEPT ![1].props = <<[at |-> Offset(n - 1, p), name |-> p]>> \o @]
           = Built(n, p + 1)
<1>1. Built(n, p)[1] = Device(n - 1, p) /\ Built(n, p + 1)[1] = Device(n - 1, p + 1)
  BY BuiltFacts
<1>2. \A k \in 2 .. n : Built(n, p + 1)[k] = Built(n, p)[k] BY BuiltFacts
<1> DEFINE q == <<[at |-> Offset(n - 1, p), name |-> p]>> \o PropsOf(n - 1, p)
<1>3. q = PropsOf(n - 1, p + 1) BY PropLinked
<1> HIDE DEF q
<1>4. [Device(n - 1, p) EXCEPT !.props = q] = Device(n - 1, p + 1) BY <1>3 DEF Device
<1>5. /\ Built(n, p) = [k \in 1 .. n |-> Built(n, p)[k]]
      /\ Built(n, p + 1) = [k \in 1 .. n |-> Built(n, p + 1)[k]]
  BY DEF Built
<1>6. [Built(n, p) EXCEPT ![1] = Device(n - 1, p + 1)] = Built(n, p + 1)
  <2> DEFINE F == Built(n, p)
             G == Built(n, p + 1)
             d == Device(n - 1, p + 1)
  <2>1. F = [k \in 1 .. n |-> F[k]] /\ G = [k \in 1 .. n |-> G[k]] BY <1>5
  <2>2. G[1] = d /\ \A k \in 2 .. n : G[k] = F[k] BY <1>1, <1>2
  <2> HIDE DEF F, G, d
  <2>3. [F EXCEPT ![1] = d] = [k \in 1 .. n |-> IF k = 1 THEN d ELSE F[k]] BY <2>1
  <2>4. \A k \in 1 .. n : (IF k = 1 THEN d ELSE F[k]) = G[k] BY <2>2
  <2>5. [F EXCEPT ![1] = d] = G BY <2>1, <2>3, <2>4
  <2> QED BY <2>5 DEF F, G, d
<1>7. Built(n, p)[1].props = PropsOf(n - 1, p) BY <1>1 DEF Device
<1>8. [Built(n, p) EXCEPT ![1].props = <<[at |-> Offset(n - 1, p), name |-> p]>> \o @]
        = [Built(n, p) EXCEPT ![1] = [Device(n - 1, p) EXCEPT !.props = q]]
  BY <1>1, <1>7 DEF q
<1> QED BY <1>4, <1>6, <1>8

LEMMA DeviceAdded ==
  ASSUME NEW n \in Nat
  PROVE  <<[at |-> Offset(n - 1, MAX_PROPS), name |-> n, props |-> <<>>]>>
           \o Built(n, MAX_PROPS) = Built(n + 1, 0)
<1> DEFINE a == [at |-> Offset(n - 1, MAX_PROPS), name |-> n, props |-> <<>>]
<1>1. PropsOf(n, 0) = <<>> BY PropsFacts
<1>2. a = Device(n, 0) BY <1>1, OffsetFacts DEF Device
<1>3. a \in DeviceType BY OffsetFacts DEF DeviceType
<1>4. /\ Built(n, MAX_PROPS) \in Seq(DeviceType) /\ Len(Built(n, MAX_PROPS)) = n
      /\ \A k \in 1 .. n : Built(n, MAX_PROPS)[k] = Device(n - k, MAX_PROPS)
  BY BuiltFacts, Sizes
<1>5. /\ Built(n + 1, 0) \in Seq(DeviceType) /\ Len(Built(n + 1, 0)) = n + 1
      /\ \A k \in 1 .. n + 1 :
           Built(n + 1, 0)[k] = Device(n + 1 - k, IF k = 1 THEN 0 ELSE MAX_PROPS)
  BY BuiltFacts
<1> HIDE DEF a
<1>6. /\ <<a>> \o Built(n, MAX_PROPS) \in Seq(DeviceType)
      /\ Len(<<a>> \o Built(n, MAX_PROPS)) = n + 1
      /\ (<<a>> \o Built(n, MAX_PROPS))[1] = a
      /\ \A k \in 2 .. n + 1 :
           (<<a>> \o Built(n, MAX_PROPS))[k] = Built(n, MAX_PROPS)[k - 1]
  BY <1>3, <1>4
<1>7. ASSUME NEW k \in 1 .. n + 1
      PROVE  (<<a>> \o Built(n, MAX_PROPS))[k] = Built(n + 1, 0)[k]
  <2>1. CASE k = 1 BY <1>2, <1>5, <1>6, <2>1
  <2>2. CASE k # 1
    <3>1. k - 1 \in 1 .. n /\ n - (k - 1) = n + 1 - k BY <2>2
    <3>2. Built(n, MAX_PROPS)[k - 1] = Device(n + 1 - k, MAX_PROPS) BY <1>4, <3>1
    <3> QED BY <1>5, <1>6, <2>2, <3>2
  <2> QED BY <2>1, <2>2
<1>8. <<a>> \o Built(n, MAX_PROPS) = Built(n + 1, 0) BY <1>5, <1>6, <1>7, SeqEqual
<1> QED BY <1>8 DEF a

LEMMA ParseStart == Init => ParseInv
<1> SUFFICES ASSUME Init PROVE ParseInv OBVIOUS
<1>1. /\ max_nodes \in NodeCounts /\ max_nodes \in Nat /\ head = <<>> /\ pc = "reset"
      /\ i = 0 /\ j = 0 /\ parses = 0 /\ failed = FALSE
  BY DeviceTreeAssumption DEF Init
<1>2. head = Built(0, MAX_PROPS) BY <1>1, BuiltFacts, Sizes
<1>3. Position(0, MAX_PROPS) BY <1>1, <1>2, Sizes DEF Position
<1>4. 0 \in 0 .. max_nodes /\ 0 \in 0 .. MAX_PROPS /\ 0 \in 0 .. PARSES
  BY <1>1, DeviceTreeAssumption
<1> QED BY <1>1, <1>3, <1>4, Sizes DEF ParseInv

(* The steps of the parser, seen from the list: it is given up, it gets a  *)
(* device or a property, or it stays and is perhaps cut off.               *)
Move(n, p, m, q) ==
  /\ max_nodes' = max_nodes
  /\ \/ /\ m = 0 /\ q = MAX_PROPS /\ ~ failed'
        /\ failed \/ (n = max_nodes /\ p = MAX_PROPS) \/ n = 0
     \/ m = n + 1 /\ q = 0 /\ ~ failed /\ ~ failed' /\ p = MAX_PROPS /\ n < max_nodes
     \/ m = n /\ q = p + 1 /\ ~ failed /\ ~ failed' /\ p < MAX_PROPS /\ n > 0
     \/ m = n /\ q = p /\ (failed' = TRUE \/ failed' = failed)

LEMMA ParseMove ==
  ASSUME Fitting, AlignedSizes, CutOnce, ArenaInv, ParseInv, [Next]_vars,
         NEW n \in Nat, NEW p \in Nat, Position(n, p)
  PROVE  ParseInv' /\ \E m \in Nat, q \in Nat : Position(m, q)' /\ Move(n, p, m, q)
<1> USE Sizes
<1>1. /\ max_nodes \in NodeCounts /\ max_nodes \in Nat \ {0} /\ failed \in BOOLEAN
      /\ pc \in {"reset", "node", "prop", "return"}
      /\ i \in 0 .. max_nodes /\ j \in 0 .. MAX_PROPS /\ parses \in 0 .. PARSES
      /\ PARSES \in Nat /\ (pc # "reset" => parses < PARSES)
      /\ pc = "prop" => i < max_nodes
  BY DeviceTreeAssumption DEF ParseInv
<1>2. Position(n, p) OBVIOUS
<1>3. /\ n \in 0 .. max_nodes /\ p \in 0 .. MAX_PROPS /\ (n = 0 => p = MAX_PROPS)
      /\ head = Built(n, p)
  BY <1>2 DEF Position
<1>4. /\ Offset(n - 1, p) \in Int
      /\ Offset(n - 1, p + 1) = Offset(n - 1, p) + PROP_BYTES
      /\ Offset(n - 1, MAX_PROPS) = n * DeviceBytes
      /\ Offset(n, 0) = Offset(n - 1, MAX_PROPS) + NODE_BYTES
  BY NextOffset
<1>5. CASE Begin
  <2>0. pc = "reset" BY <1>5 DEF Begin
  <2>1. /\ arena_offset' = 0 /\ head' = <<>> /\ i' = 0 /\ failed' = FALSE /\ pc' = "node"
        /\ max_nodes' = max_nodes /\ j' = j /\ parses' = parses /\ parses < PARSES
    BY <1>5 DEF Begin, arena_reset
  <2>2. head' = Built(0, MAX_PROPS) BY <2>1, BuiltFacts
  <2>3. Offset(0 - 1, MAX_PROPS) = 0 BY OffsetFacts
  <2>4. Position(0, MAX_PROPS)' BY <1>1, <2>1, <2>2, <2>3 DEF Position
  <2>5. 0 \in 0 .. max_nodes BY <1>1
  <2>6. failed \/ (n = max_nodes /\ p = MAX_PROPS) \/ n = 0
    BY <1>2, <2>0 DEF Position
  <2>7. Move(n, p, 0, MAX_PROPS) BY <1>1, <1>2, <1>3, <2>1, <2>6 DEF Move
  <2>8. ParseInv' BY <1>1, <2>1, <2>4, <2>5 DEF ParseInv
  <2> QED BY <2>4, <2>7, <2>8
<1>6. CASE AllocNode
  <2>1. /\ pc = "node" /\ i < max_nodes /\ ptr' # NULL /\ arena_alloc(NODE_BYTES)
        /\ head' = <<[at |-> ptr', name |-> i, props |-> <<>>]>> \o head
        /\ j' = 0 /\ pc' = "prop"
        /\ max_nodes' = max_nodes /\ i' = i /\ parses' = parses /\ failed' = failed
    BY <1>6 DEF AllocNode, MoreNodes
  <2>2. /\ i = n /\ arena_offset = Offset(n - 1, p) /\ (failed <=> p < MAX_PROPS)
        /\ p < MAX_PROPS => Offset(n - 1, p) + PROP_BYTES > ARENA_BYTES
    BY <1>2, <2>1 DEF Position
  <2>3. /\ ptr' = arena_offset /\ arena_offset' = arena_offset + NODE_BYTES
        /\ arena_offset' <= ARENA_BYTES
    BY <2>1, AllocFacts
  <2>4. p = MAX_PROPS
    <3> SUFFICES ASSUME p < MAX_PROPS PROVE FALSE BY <1>3
    <3>1. n - 1 \in Nat /\ p \in 0 .. MAX_PROPS - 1 BY <1>3
    <3>2. Offset(n - 1, p) <= ARENA_BYTES BY <1>4, <2>2, <2>3
    <3> QED BY <1>4, <2>2, <2>3, <3>1, <3>2 DEF CutOnce
  <2>5. ~ failed BY <2>2, <2>4
  <2>6. head' = Built(n + 1, 0) BY <1>3, <2>1, <2>2, <2>3, <2>4, DeviceAdded
  <2>7. arena_offset' = Offset(n, 0) BY <1>4, <2>2, <2>3, <2>4
  <2>8. Position(n + 1, 0)' BY <1>1, <1>3, <2>1, <2>2, <2>5, <2>6, <2>7 DEF Position
  <2>9. Move(n, p, n + 1, 0) BY <1>1, <1>3, <2>1, <2>2, <2>4, <2>5 DEF Move
  <2>10. ParseInv' BY <1>1, <2>1, <2>8 DEF ParseInv
  <2> QED BY <2>8, <2>9, <2>10
<1>7. CASE NodeFails
  <2>1. /\ pc = "node" /\ i < max_nodes /\ ptr' = NULL /\ arena_alloc(NODE_BYTES)
        /\ failed' = TRUE /\ pc' = "return"
        /\ max_nodes' = max_nodes /\ head' = head /\ i' = i /\ j' = j /\ parses' = parses
    BY <1>7 DEF NodeFails, MoreNodes
  <2>2. /\ arena_offset = Offset(n - 1, p)
        /\ p < MAX_PROPS => Offset(n - 1, p) + PROP_BYTES > ARENA_BYTES
    BY <1>2, <2>1 DEF Position
  <2>3. arena_offset' = arena_offset /\ arena_offset + NODE_BYTES > ARENA_BYTES
    BY <2>1, AllocFacts
  <2>4. Position(n, p)' BY <1>3, <2>1, <2>2, <2>3 DEF Position
  <2>5. Move(n, p, n, p) BY <2>1 DEF Move
  <2>6. ParseInv' BY <1>1, <2>1, <2>4 DEF ParseInv
  <2> QED BY <2>4, <2>5, <2>6
<1>8. CASE AllocProp
  <2>1. /\ pc = "prop" /\ j < MAX_PROPS /\ ptr' # NULL /\ arena_alloc(PROP_BYTES)
        /\ head' = [head EXCEPT ![1].props = <<[at |-> ptr', name |-> j]>> \o @]
        /\ j' = j + 1
        /\ max_nodes' = max_nodes /\ pc' = pc /\ i' = i /\ parses' = parses
        /\ failed' = failed
    BY <1>8 DEF AllocProp, MoreProps
  <2>2. arena_offset = Offset(n - 1, p) /\ ~ failed /\ n = i + 1 /\ j = p
    BY <1>2, <2>1 DEF Position
  <2>3. ptr' = arena_offset /\ arena_offset' = arena_offset + PROP_BYTES
    BY <2>1, AllocFacts
  <2>4. n \in Nat \ {0} BY <1>1, <2>2
  <2>5. head' = [Built(n, p) EXCEPT
                   ![1].props = <<[at |-> Offset(n - 1, p), name |-> p]>> \o @]
    BY <1>3, <2>1, <2>2, <2>3
  <2>6. head' = Built(n, p + 1) BY <2>4, <2>5, PropAdded
  <2>7. arena_offset' = Offset(n - 1, p + 1) BY <1>4, <2>2, <2>3
  <2>8. p + 1 \in 0 .. MAX_PROPS /\ pc' = "prop" /\ n # 0 BY <1>3, <2>1, <2>2, <2>4
  <2>9. Position(n, p + 1)' BY <1>3, <2>1, <2>2, <2>6, <2>7, <2>8 DEF Position
  <2>10. Move(n, p, n, p + 1) BY <1>1, <1>3, <2>1, <2>2, <2>8 DEF Move
  <2>11. ParseInv' BY <1>1, <2>1, <2>2, <2>8, <2>9 DEF ParseInv
  <2> QED BY <2>9, <2>10, <2>11
<1>9. CASE PropFails
  <2>1. /\ pc = "prop" /\ j < MAX_PROPS /\ ptr' = NULL /\ arena_alloc(PROP_BYTES)
        /\ failed' = TRUE /\ i' = i + 1 /\ pc' = "node"
        /\ max_nodes' = max_nodes /\ head' = head /\ j' = j /\ parses' = parses
    BY <1>9 DEF PropFails, MoreProps
  <2>2. arena_offset = Offset(n - 1, p) /\ n = i + 1 /\ j = p BY <1>2, <2>1 DEF Position
  <2>3. arena_offset' = arena_offset /\ arena_offset + PROP_BYTES > ARENA_BYTES
    BY <2>1, AllocFacts
  <2>4. Position(n, p)' BY <1>3, <2>1, <2>2, <2>3 DEF Position
  <2>5. Move(n, p, n, p) BY <2>1 DEF Move
  <2>6. ParseInv' BY <1>1, <2>1, <2>4 DEF ParseInv
  <2> QED BY <2>4, <2>5, <2>6
<1>10. CASE NodeDone
  <2>1. /\ pc = "prop" /\ ~ (j < MAX_PROPS) /\ i' = i + 1 /\ pc' = "node"
        /\ arena_offset' = arena_offset
        /\ max_nodes' = max_nodes /\ head' = head /\ j' = j /\ parses' = parses
        /\ failed' = failed
    BY <1>10 DEF NodeDone, MoreProps, arenaVars
  <2>2. arena_offset = Offset(n - 1, p) /\ ~ failed /\ n = i + 1 /\ j = p
    BY <1>2, <2>1 DEF Position
  <2>3. p = MAX_PROPS BY <1>3, <2>1, <2>2
  <2>4. Position(n, p)' BY <1>3, <2>1, <2>2, <2>3 DEF Position
  <2>5. Move(n, p, n, p) BY <2>1 DEF Move
  <2>6. ParseInv' BY <1>1, <2>1, <2>4 DEF ParseInv
  <2> QED BY <2>4, <2>5, <2>6
<1>11. CASE AllNodesDone
  <2>1. /\ pc = "node" /\ ~ (i < max_nodes) /\ pc' = "return"
        /\ arena_offset' = arena_offset
        /\ max_nodes' = max_nodes /\ head' = head /\ i' = i /\ j' = j /\ parses' = parses
        /\ failed' = failed
    BY <1>11 DEF AllNodesDone, MoreNodes, arenaVars
  <2>2. /\ arena_offset = Offset(n - 1, p) /\ i = n /\ (failed <=> p < MAX_PROPS)
        /\ p < MAX_PROPS => Offset(n - 1, p) + PROP_BYTES > ARENA_BYTES
    BY <1>2, <2>1 DEF Position
  <2>3. Position(n, p)' BY <1>1, <1>3, <2>1, <2>2 DEF Position
  <2>4. Move(n, p, n, p) BY <2>1 DEF Move
  <2>5. ParseInv' BY <1>1, <2>1, <2>3 DEF ParseInv
  <2> QED BY <2>3, <2>4, <2>5
<1>12. CASE Return
  <2>1. /\ pc = "return" /\ parses' = parses + 1 /\ pc' = "reset"
        /\ arena_offset' = arena_offset
        /\ max_nodes' = max_nodes /\ head' = head /\ i' = i /\ j' = j /\ failed' = failed
    BY <1>12 DEF Return, arenaVars
  <2>2. failed \/ (n = max_nodes /\ p = MAX_PROPS) BY <1>1, <1>2, <1>3, <2>1 DEF Position
  <2>3. Position(n, p)' BY <1>3, <2>1, <2>2 DEF Position
  <2>4. Move(n, p, n, p) BY <2>1 DEF Move
  <2>5. ParseInv' BY <1>1, <2>1, <2>3 DEF ParseInv
  <2> QED BY <2>3, <2>4, <2>5
<1>13. CASE UNCHANGED vars
  <2>1. /\ arena_offset' = arena_offset /\ pc' = pc
        /\ max_nodes' = max_nodes /\ head' = head /\ i' = i /\ j' = j /\ parses' = parses
        /\ failed' = failed
    BY <1>13 DEF vars, arenaVars
  <2>2. Position(n, p)' BY <1>2, <2>1 DEF Position
  <2>3. Move(n, p, n, p) BY <2>1 DEF Move
  <2>4. ParseInv' BY <1>1, <2>1, <2>2 DEF ParseInv
  <2> QED BY <2>2, <2>3, <2>4
<1> QED BY <1>5, <1>6, <1>7, <1>8, <1>9, <1>10, <1>11, <1>12, <1>13 DEF Next, Finished

LEMMA ParseStep ==
  Fitting /\ AlignedSizes /\ CutOnce => (ArenaInv /\ ParseInv /\ [Next]_vars => ParseInv')
<1> SUFFICES ASSUME Fitting, AlignedSizes, CutOnce, ArenaInv, ParseInv, [Next]_vars
             PROVE  ParseInv'
  OBVIOUS
<1>1. PICK n \in Nat, p \in Nat : Position(n, p) BY DEF ParseInv
<1> QED BY <1>1, ParseMove

(* The parser is a client of the allocator: all it does to the arena is    *)
(* call arena_alloc and arena_reset (lines 182-193 and 212).               *)
THEOREM ParserIsClient == Spec => ArenaSpec
<1>1. Init => ArenaInit BY DEF Init
<1>2. [Next]_vars => [AnyClient]_arenaVars
  <2> SUFFICES ASSUME [Next]_vars PROVE [AnyClient]_arenaVars OBVIOUS
  <2>1. CASE Begin BY <2>1 DEF Begin, AnyClient
  <2>2. CASE AllocNode \/ NodeFails BY <2>2, Sizes DEF AllocNode, NodeFails, AnyClient
  <2>3. CASE AllocProp \/ PropFails BY <2>3, Sizes DEF AllocProp, PropFails, AnyClient
  <2>4. CASE NodeDone \/ AllNodesDone \/ Return BY <2>4 DEF NodeDone, AllNodesDone, Return
  <2>5. CASE UNCHANGED vars BY <2>5 DEF vars
  <2> QED BY <2>1, <2>2, <2>3, <2>4, <2>5 DEF Next, Finished
<1> QED BY <1>1, <1>2, PTL DEF Spec, ArenaSpec

LEMMA ParseInvariance ==
  ASSUME Fitting, AlignedSizes, CutOnce
  PROVE  Spec => [](ArenaInv /\ ParseInv)
<1>1. Fitting /\ (Fitting /\ AlignedSizes /\ CutOnce) OBVIOUS
<1>2. Spec => []ArenaInv BY <1>1, ArenaInvariance, ParserIsClient, PTL
<1>3. Init => ParseInv BY ParseStart
<1>4. ArenaInv /\ ParseInv /\ [Next]_vars => ParseInv' BY <1>1, ParseStep
<1> QED BY <1>2, <1>3, <1>4, PTL DEF Spec

(* What Built says of the C list. *)
LEMMA ListFacts ==
  ASSUME NEW n \in Nat, NEW p \in Nat, head = Built(n, p)
  PROVE  /\ Len(head) = n
         /\ \A k \in 1 .. n :
              LET q == IF k = 1 THEN p ELSE MAX_PROPS
              IN /\ head[k].at = (n - k) * DeviceBytes /\ head[k].name = n - k
                 /\ Len(head[k].props) = q
                 /\ \A l \in 1 .. q : /\ head[k].props[l].at = Offset(n - k, q - l)
                                      /\ head[k].props[l].name = q - l
<1>1. Len(head) = n /\ \A k \in 1 .. n : head[k] = Device(n - k, IF k = 1 THEN p ELSE MAX_PROPS)
  BY BuiltFacts
<1>2. ASSUME NEW m \in Int, NEW q \in Nat
      PROVE  /\ Device(m, q).at = m * DeviceBytes /\ Device(m, q).name = m
             /\ Len(Device(m, q).props) = q
             /\ \A l \in 1 .. q : /\ Device(m, q).props[l].at = Offset(m, q - l)
                                  /\ Device(m, q).props[l].name = q - l
  <2>1. Device(m, q).props = PropsOf(m, q) BY DEF Device
  <2>2. /\ Len(PropsOf(m, q)) = q
        /\ \A l \in 1 .. q : PropsOf(m, q)[l] = [at |-> Offset(m, q - l), name |-> q - l]
    BY PropsFacts
  <2>3. Device(m, q).at = m * DeviceBytes /\ Device(m, q).name = m BY DEF Device
  <2> QED BY <2>1, <2>2, <2>3
<1>3. ASSUME NEW k \in 1 .. n, NEW q, q = IF k = 1 THEN p ELSE MAX_PROPS
      PROVE  /\ head[k].at = (n - k) * DeviceBytes /\ head[k].name = n - k
             /\ Len(head[k].props) = q
             /\ \A l \in 1 .. q : /\ head[k].props[l].at = Offset(n - k, q - l)
                                  /\ head[k].props[l].name = q - l
  <2>1. q \in Nat /\ n - k \in Int /\ head[k] = Device(n - k, q) BY <1>1, <1>3, Sizes
  <2> DEFINE m == n - k
             d == Device(m, q)
  <2>2. m \in Int /\ head[k] = d BY <2>1
  <2> HIDE DEF m
  <2>3. /\ d.at = m * DeviceBytes /\ d.name = m /\ Len(d.props) = q
        /\ \A l \in 1 .. q : d.props[l].at = Offset(m, q - l) /\ d.props[l].name = q - l
    BY <1>2, <2>1, <2>2
  <2> HIDE DEF d
  <2>4. /\ head[k].at = m * DeviceBytes /\ head[k].name = m /\ Len(head[k].props) = q
        /\ \A l \in 1 .. q :
             head[k].props[l].at = Offset(m, q - l) /\ head[k].props[l].name = q - l
    BY <2>2, <2>3
  <2> QED BY <2>4 DEF m
<1> QED BY <1>1, <1>3

(* "All nodes and properties land consecutively in the arena" (line 168):  *)
(* for every arena in which the list is cut off once, whatever the numbers *)
(* of devices, properties and parses.                                      *)
THEOREM AlwaysConsecutive ==
  ASSUME Fitting, AlignedSizes, CutOnce PROVE Spec => []Consecutive
<1>1. ParseInv => Consecutive
  <2> SUFFICES ASSUME ParseInv PROVE Consecutive OBVIOUS
  <2>1. PICK n \in Nat, p \in Nat : Position(n, p) BY DEF ParseInv
  <2>2. head = Built(n, p) BY <2>1 DEF Position
  <2>3. Len(head) = n BY <2>2, ListFacts
  <2>4. ASSUME NEW k \in 1 .. n
        PROVE  /\ head[k].at = (n - k) * DeviceBytes
               /\ \A l \in 1 .. Len(head[k].props) :
                    head[k].props[l].at = Offset(n - k, Len(head[k].props) - l)
    BY <2>2, ListFacts
  <2>5. \A k \in 1 .. n, d \in Int :
          Offset(n - k, d) = (n - k) * DeviceBytes + NODE_BYTES + d * PROP_BYTES
    BY DEF Offset
  <2>6. ASSUME NEW k \in 1 .. n, NEW l \in 1 .. Len(head[k].props)
        PROVE  head[k].props[l].at
                 = head[k].at + NODE_BYTES + (Len(head[k].props) - l) * PROP_BYTES
    <3>1. Len(head[k].props) \in Nat BY <2>2, ListFacts, Sizes
    <3>2. Len(head[k].props) - l \in Int BY <3>1
    <3> QED BY <2>4, <2>5, <3>2
  <2> QED BY <2>3, <2>4, <2>6 DEF Consecutive, DeviceBytes
<1>2. Spec => [](ArenaInv /\ ParseInv) BY ParseInvariance
<1> QED BY <1>1, <1>2, PTL

(* Every parse, the second as the first, gets the whole arena and builds   *)
(* as many devices and properties as fit (lines 151 and 175).              *)
THEOREM AlwaysAsManyAsPossible ==
  ASSUME Fitting, AlignedSizes, CutOnce PROVE Spec => []AsManyAsPossible
<1>1. ParseInv => AsManyAsPossible
  <2> SUFFICES ASSUME ParseInv, pc = "return"
               PROVE  IF head # <<>> /\ Len(head[1].props) < MAX_PROPS
                      THEN Taken + PROP_BYTES > ARENA_BYTES
                      ELSE Len(head) = max_nodes \/ Taken + NODE_BYTES > ARENA_BYTES
    BY DEF AsManyAsPossible
  <2>1. PICK n \in Nat, p \in Nat : Position(n, p) BY DEF ParseInv
  <2>2. /\ head = Built(n, p) /\ n \in 0 .. max_nodes /\ p \in 0 .. MAX_PROPS
        /\ n = 0 => p = MAX_PROPS
        /\ p < MAX_PROPS => Offset(n - 1, p) + PROP_BYTES > ARENA_BYTES
        /\ p = MAX_PROPS /\ n < max_nodes => Offset(n - 1, p) + NODE_BYTES > ARENA_BYTES
    BY <2>1 DEF Position
  <2>3. Len(head) = n /\ (head = <<>> <=> n = 0) /\ (n > 0 => Len(head[1].props) = p)
    <3>1. Len(head) = n /\ head \in Seq(DeviceType) BY <2>2, BuiltFacts
    <3>2. head = <<>> <=> n = 0 BY <3>1
    <3>3. n > 0 => Len(head[1].props) = p
      <4> SUFFICES ASSUME n > 0 PROVE Len(head[1].props) = p OBVIOUS
      <4>1. 1 \in 1 .. n OBVIOUS
      <4> QED BY <2>2, <4>1, ListFacts
    <3> QED BY <3>1, <3>2, <3>3
  <2>4. Taken = Offset(n - 1, p)
    <3>1. CASE n = 0
      <4>1. Offset(0 - 1, MAX_PROPS) = 0 BY NextOffset, Sizes
      <4> QED BY <2>2, <2>3, <3>1, <4>1 DEF Taken
    <3>2. CASE n > 0
      <4> DEFINE m == n - 1
      <4>1. m \in Nat BY <3>2
      <4>2. Taken = (m + 1) * NODE_BYTES + (m * MAX_PROPS + p) * PROP_BYTES
        BY <2>3, <3>2 DEF Taken
      <4> HIDE DEF m
      <4>3. (m * MAX_PROPS + p) * PROP_BYTES = m * (MAX_PROPS * PROP_BYTES) + p * PROP_BYTES
        BY <4>1, Sizes
      <4>4. m * DeviceBytes = m * NODE_BYTES + m * (MAX_PROPS * PROP_BYTES)
        BY <4>1, Sizes DEF DeviceBytes
      <4>5. (m + 1) * NODE_BYTES = m * NODE_BYTES + NODE_BYTES BY <4>1, Sizes
      <4>6. Taken = Offset(m, p) BY <4>1, <4>2, <4>3, <4>4, <4>5, Sizes DEF Offset
      <4> QED BY <4>6 DEF m
    <3> QED BY <3>1, <3>2
  <2>5. max_nodes \in Nat
    BY DeviceTreeAssumption DEF ParseInv
  <2>6. CASE p < MAX_PROPS BY <2>2, <2>3, <2>4, <2>6
  <2>7. CASE p = MAX_PROPS BY <2>2, <2>3, <2>4, <2>5, <2>7
  <2> QED BY <2>2, <2>6, <2>7, Sizes
<1>2. Spec => [](ArenaInv /\ ParseInv) BY ParseInvariance
<1> QED BY <1>1, <1>2, PTL

(***************************************************************************)
(* The parser implements the device list: without its addresses, Built is  *)
(* the abstract list of so many devices and properties.                    *)
(***************************************************************************)
NumbersOf(h) == [k \in 1 .. Len(h) |->
  [name |-> h[k].name, props |-> [l \in 1 .. Len(h[k].props) |-> h[k].props[l].name]]]

LEMMA NumbersOfBuilt ==
  ASSUME NEW n \in Nat, NEW p \in Nat
  PROVE  NumbersOf(Built(n, p)) = Listed(n, p, MAX_PROPS)
<1> DEFINE h == Built(n, p)
<1>1. Len(h) = n /\ \A k \in 1 .. n : h[k] = Device(n - k, IF k = 1 THEN p ELSE MAX_PROPS)
  BY BuiltFacts
<1> HIDE DEF h
<1>2. ASSUME NEW k \in 1 .. n
      PROVE  [name |-> h[k].name, props |-> [l \in 1 .. Len(h[k].props) |-> h[k].props[l].name]]
               = Plain(n - k, IF k = 1 THEN p ELSE MAX_PROPS)
  <2> DEFINE m == n - k
             q == IF k = 1 THEN p ELSE MAX_PROPS
  <2>1. m \in Int /\ q \in Nat /\ h[k] = Device(m, q) BY <1>1, Sizes
  <2> HIDE DEF m, q
  <2>2. h[k].name = m /\ h[k].props = PropsOf(m, q) BY <2>1 DEF Device
  <2>3. /\ Len(PropsOf(m, q)) = q
        /\ \A l \in 1 .. q : PropsOf(m, q)[l] = [at |-> Offset(m, q - l), name |-> q - l]
    BY <2>1, PropsFacts
  <2>4. \A l \in 1 .. q : PropsOf(m, q)[l].name = q - l BY <2>3
  <2>5. [l \in 1 .. q |-> PropsOf(m, q)[l].name] = Countdown(q) BY <2>4 DEF Countdown
  <2>6. [name |-> h[k].name, props |-> [l \in 1 .. Len(h[k].props) |-> h[k].props[l].name]]
          = Plain(m, q)
    BY <2>2, <2>3, <2>5 DEF Plain
  <2> QED BY <2>6 DEF m, q
<1>3. NumbersOf(h) = Listed(n, p, MAX_PROPS) BY <1>1, <1>2 DEF NumbersOf, Listed
<1> QED BY <1>3 DEF h

LEMMA InitImplements == Init => List!Init
<1> SUFFICES ASSUME Init PROVE List!Init OBVIOUS
<1>1. max_nodes \in Nat /\ head = <<>> /\ failed = FALSE BY DeviceTreeAssumption DEF Init
<1>2. Numbers = <<>> BY <1>1 DEF Numbers
<1> QED BY <1>1, <1>2 DEF List!Init

LEMMA StepImplements ==
  Fitting /\ AlignedSizes /\ CutOnce =>
    (ArenaInv /\ ParseInv /\ [Next]_vars => [List!Next]_(List!listVars))
<1> SUFFICES ASSUME Fitting, AlignedSizes, CutOnce, ArenaInv, ParseInv, [Next]_vars
             PROVE  [List!Next]_(List!listVars)
  OBVIOUS
<1>1. PICK n \in Nat, p \in Nat : Position(n, p) BY DEF ParseInv
<1>2. PICK m \in Nat, q \in Nat : Position(m, q)' /\ Move(n, p, m, q) BY <1>1, ParseMove
<1>2a. failed' \in BOOLEAN /\ failed \in BOOLEAN BY <1>1, ParseMove DEF ParseInv
<1>3. /\ Numbers = Listed(n, p, MAX_PROPS) /\ Numbers' = Listed(m, q, MAX_PROPS)
  <2>1. head = Built(n, p) /\ head' = Built(m, q) BY <1>1, <1>2 DEF Position
  <2>2. Numbers = NumbersOf(head) /\ Numbers' = NumbersOf(head') BY DEF Numbers, NumbersOf
  <2> QED BY <2>1, <2>2, NumbersOfBuilt
<1>4. /\ max_nodes' = max_nodes /\ failed \in BOOLEAN
      /\ n \in 0 .. max_nodes /\ p \in 0 .. MAX_PROPS /\ (n = 0 => p = MAX_PROPS)
      /\ max_nodes \in Nat
  BY <1>1, <1>2, DeviceTreeAssumption DEF Move, ParseInv, Position
<1>5. /\ Len(Listed(n, p, MAX_PROPS)) = n /\ (Listed(n, p, MAX_PROPS) = <<>> <=> n = 0)
      /\ n > 0 => Len(Listed(n, p, MAX_PROPS)[1].props) = p
  <2>1. /\ Len(Listed(n, p, MAX_PROPS)) = n /\ (Listed(n, p, MAX_PROPS) = <<>> <=> n = 0)
        /\ n > 0 => Listed(n, p, MAX_PROPS)[1].props = Countdown(p)
    <3>1. MAX_PROPS \in Nat BY Sizes
    <3> QED BY <3>1, ListedFacts
  <2>2. Len(Countdown(p)) = p BY CountdownFacts
  <2> QED BY <2>1, <2>2
<1>6. Listed(0, MAX_PROPS, MAX_PROPS) = <<>> BY ListedFacts, Sizes
<1>7. CASE /\ m = 0 /\ q = MAX_PROPS /\ ~ failed'
           /\ failed \/ (n = max_nodes /\ p = MAX_PROPS) \/ n = 0
  <2>1. Numbers' = <<>> /\ failed' = FALSE BY <1>2a, <1>3, <1>6, <1>7
  <2>2. CASE failed \/ (n = max_nodes /\ p = MAX_PROPS)
    <3>1. List!Complete \/ failed
      BY <1>3, <1>4, <1>5, <2>2 DEF List!Complete, List!Full
    <3> QED BY <1>4, <2>1, <3>1 DEF List!Next, List!Discard
  <2>3. CASE ~ failed /\ n = 0
    <3>1. UNCHANGED <<max_nodes, Numbers, failed>> BY <1>3, <1>4, <1>5, <2>1, <2>3
    <3> QED BY <3>1 DEF List!listVars
  <2> QED BY <1>4, <1>7, <2>2, <2>3
<1>8. CASE m = n + 1 /\ q = 0 /\ ~ failed /\ ~ failed' /\ p = MAX_PROPS /\ n < max_nodes
  <2>1. Numbers' = <<[name |-> n, props |-> <<>>]>> \o Numbers BY <1>3, <1>8, Sizes, ListedDevice
  <2>2. Numbers # <<>> => List!Full(Numbers[1]) BY <1>3, <1>4, <1>5, <1>8 DEF List!Full
  <2>3. failed' = failed BY <1>2a, <1>8
  <2> QED BY <1>3, <1>4, <1>5, <1>8, <2>1, <2>2, <2>3 DEF List!Next, List!AddDevice
<1>9. CASE m = n /\ q = p + 1 /\ ~ failed /\ ~ failed' /\ p < MAX_PROPS /\ n > 0
  <2>1. Numbers' = [Numbers EXCEPT ![1].props = <<Len(@)>> \o @]
    <3>1. n \in Nat \ {0} BY <1>9
    <3>2. [Listed(n, p, MAX_PROPS) EXCEPT ![1].props = <<Len(@)>> \o @] = Listed(n, p + 1, MAX_PROPS)
      BY <3>1, Sizes, ListedProperty
    <3> QED BY <1>3, <1>9, <3>2
  <2>2. Numbers # <<>> /\ ~ List!Full(Numbers[1]) BY <1>3, <1>5, <1>9, Sizes DEF List!Full
  <2>3. failed' = failed BY <1>2a, <1>9
  <2> QED BY <1>4, <1>9, <2>1, <2>2, <2>3 DEF List!Next, List!AddProperty
<1>10. CASE m = n /\ q = p /\ (failed' = TRUE \/ failed' = failed)
  <2>1. Numbers' = Numbers BY <1>3, <1>10
  <2> QED BY <1>4, <1>10, <2>1 DEF List!Next, List!CutOff, List!listVars
<1> QED BY <1>2, <1>7, <1>8, <1>9, <1>10 DEF Move

(* arena_parse builds what linked_list_parse builds (line 164), cut off at *)
(* one point: for every arena in which a property is refused only where a  *)
(* device would be refused too.                                            *)
THEOREM ArenaParseRefinement ==
  ASSUME Fitting, AlignedSizes, CutOnce PROVE Spec => ImplementsDeviceList
<1>1. Fitting /\ AlignedSizes /\ CutOnce OBVIOUS
<1>2. Spec => [](ArenaInv /\ ParseInv) BY ParseInvariance
<1>3. ArenaInv /\ ParseInv /\ [Next]_vars => [List!Next]_(List!listVars)
  BY <1>1, StepImplements
<1> QED BY <1>2, <1>3, InitImplements, PTL DEF Spec, ImplementsDeviceList, List!Spec
=============================================================================
