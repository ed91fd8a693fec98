--------------------------- MODULE ProgramProofs ----------------------------
(***************************************************************************)
(* What holds of the smaller programs whatever their sizes are: the device *)
(* table (chapter 1), the padded counters (2), the ring buffer (6), the    *)
(* generator, the variances and the hash functions of chapter 7, the       *)
(* dynamic array (8), the searches of chapter 9, the Bloom filter (16),    *)
(* the samples of BENCH_RUN (2 and 3), the scripts, and the sweeps of      *)
(* chapters 1, 2 and 4.                                                    *)
(***************************************************************************)
EXTENDS RingBuffer, MCHarness, HashQuality, DynamicArray, BstSearch, BloomFilter,
        DeviceLookup, Sweeps, FiniteSetTheorems, CommonTheorems

(***************************************************************************)
(* The ring buffer, for every capacity, every counter width and every      *)
(* sequence of calls.  TypeOK and CountsAreExact are inductive together;   *)
(* the refinement adds that counter % CAP is not disturbed by the wrap,    *)
(* because CAP divides MOD.                                                *)
(***************************************************************************)
RingInv == TypeOK /\ CountsAreExact

LEMMA RingSizes == CAP \in Nat \ {0} /\ MOD \in Nat \ {0} /\ 2 * CAP <= MOD
<1>1. PICK r \in 2 .. MOD : MOD = CAP * r BY RingAssumption
<1>2. CAP \in Nat \ {0} /\ r \in Nat /\ r >= 2 BY <1>1, RingAssumption
<1>3. CAP * r >= CAP * 2 BY <1>2
<1> QED BY <1>1, <1>2, <1>3

LEMMA Wrap ==
  ASSUME NEW c \in 0 .. 2 * MOD - 1
  PROVE  /\ c < MOD => c % MOD = c
         /\ c >= MOD => c % MOD = c - MOD
         /\ c % MOD \in Counters
<1>1. c \in Int /\ MOD \in Nat \ {0} BY RingSizes
<1>2. /\ c \in 0 .. MOD - 1 => c % MOD = c
      /\ c \in MOD .. 2 * MOD - 1 => c % MOD = c - MOD
  BY <1>1, SmallModulo
<1> QED BY <1>1, <1>2 DEF Counters

LEMMA WrapDifference ==
  ASSUME NEW a \in 0 .. MOD - 1, NEW b \in 0 .. MOD - 1
  PROVE  (a - b) % MOD = IF a >= b THEN a - b ELSE a - b + MOD
<1> DEFINE d == a - b
<1>1. d \in Int /\ MOD \in Nat \ {0} BY RingSizes
<1>2. /\ d \in 0 .. MOD - 1 => d % MOD = d
      /\ d \in -MOD .. -1 => d % MOD = d + MOD
  BY <1>1, SmallModulo
<1>3. IF a >= b THEN d \in 0 .. MOD - 1 ELSE d \in -MOD .. -1 BY RingSizes
<1> QED BY <1>2, <1>3

(* A wrapped counter masks to the slot of the unwrapped one. *)
LEMMA SlotOfWrapped ==
  ASSUME NEW c \in 0 .. 2 * MOD - 1 PROVE Slot(c % MOD) = c % CAP
<1>1. CASE c < MOD BY <1>1, Wrap DEF Slot
<1>2. CASE c >= MOD
  <2>1. PICK r \in 2 .. MOD : MOD = CAP * r BY RingAssumption
  <2>2. r \in Nat /\ c \in Nat /\ c >= CAP * r BY <1>2, <2>1, RingSizes
  <2>3. (c - CAP * r) % CAP = c % CAP BY <2>2, RingSizes, SlotAfterWrap
  <2> QED BY <1>2, <2>1, <2>3, Wrap DEF Slot
<1> QED BY <1>1, <1>2, RingSizes

LEMMA SlotInRange == ASSUME NEW c \in Nat PROVE c % CAP \in Slots
BY RingSizes, Division DEF Slots

LEMMA RingFacts ==
  RingInv => /\ head \in 0 .. MOD - 1 /\ tail \in 0 .. MOD - 1 /\ count \in 0 .. CAP
             /\ \/ tail >= head /\ count = tail - head
                \/ tail < head /\ count = tail - head + MOD
             /\ Outstanding = count
             /\ IsFull <=> count = CAP
             /\ IsEmpty <=> count = 0
<1> SUFFICES ASSUME RingInv
             PROVE  \/ tail >= head /\ count = tail - head
                    \/ tail < head /\ count = tail - head + MOD
  BY DEF RingInv, TypeOK, CountsAreExact, Counters
<1>1. head \in 0 .. MOD - 1 /\ tail \in 0 .. MOD - 1 /\ count = (tail - head) % MOD
  BY DEF RingInv, TypeOK, CountsAreExact, Counters, Outstanding
<1>2. (tail - head) % MOD = IF tail >= head THEN tail - head ELSE tail - head + MOD
  BY <1>1, WrapDifference
<1> QED BY <1>1, <1>2, RingSizes

(* The converse: the counters that CountsAreExact describes. *)
LEMMA ExactCounters ==
  /\ head \in 0 .. MOD - 1 /\ tail \in 0 .. MOD - 1 /\ count \in 0 .. CAP
  /\ \/ tail >= head /\ count = tail - head
     \/ tail < head /\ count = tail - head + MOD
  => CountsAreExact
<1> SUFFICES ASSUME head \in 0 .. MOD - 1, tail \in 0 .. MOD - 1, count \in 0 .. CAP,
                    \/ tail >= head /\ count = tail - head
                    \/ tail < head /\ count = tail - head + MOD
             PROVE  CountsAreExact
  OBVIOUS
<1>1. (tail - head) % MOD = IF tail >= head THEN tail - head ELSE tail - head + MOD
  BY WrapDifference
<1>2. Outstanding = count BY <1>1, RingSizes DEF Outstanding
<1>3. IsEmpty <=> count = 0 BY RingSizes DEF IsEmpty
<1> QED BY <1>2, <1>3 DEF CountsAreExact, IsFull

LEMMA RingStart == Init => RingInv
<1> SUFFICES ASSUME Init PROVE RingInv OBVIOUS
<1>1. head = 0 /\ tail = 0 /\ count = 0 BY DEF Init
<1>2. (CHOOSE v \in Value : TRUE) \in Value BY RingAssumption
<1>3. TypeOK BY <1>1, <1>2, RingSizes DEF Init, TypeOK, Counters
<1>4. CountsAreExact BY <1>1, RingSizes, ExactCounters
<1> QED BY <1>3, <1>4 DEF RingInv

LEMMA RingStep == RingInv /\ [Next]_vars => RingInv'
<1> SUFFICES ASSUME RingInv, [Next]_vars PROVE RingInv' OBVIOUS
<1>1. /\ head \in 0 .. MOD - 1 /\ tail \in 0 .. MOD - 1 /\ count \in 0 .. CAP
      /\ \/ tail >= head /\ count = tail - head
         \/ tail < head /\ count = tail - head + MOD
      /\ IsFull <=> count = CAP
      /\ IsEmpty <=> count = 0
  BY RingFacts
<1>2. data \in [Slots -> Value] /\ out \in Value \cup {NoValue} BY DEF RingInv, TypeOK
<1>3. (/\ head \in 0 .. MOD - 1 /\ tail \in 0 .. MOD - 1 /\ count \in 0 .. CAP
       /\ \/ tail >= head /\ count = tail - head
          \/ tail < head /\ count = tail - head + MOD
       => CountsAreExact)'
  BY ExactCounters, PTL
<1>4. ASSUME NEW v \in Value, rb_enqueue(v) PROVE RingInv'
  <2>1. /\ tail' = (tail + 1) % MOD /\ head' = head /\ count' = count + 1 /\ out' = out
        /\ data' = [data EXCEPT ![Slot(tail)] = v] /\ count # CAP
    BY <1>1, <1>4 DEF rb_enqueue
  <2>2. tail' = IF tail + 1 < MOD THEN tail + 1 ELSE 0 BY <1>1, <2>1, Wrap, RingSizes
  <2>3. data' \in [Slots -> Value] BY <1>2, <2>1
  <2>4. head' \in Counters /\ tail' \in Counters /\ count' \in 0 .. CAP
    BY <1>1, <2>1, <2>2, RingSizes DEF Counters
  <2>5. TypeOK' BY <1>2, <2>1, <2>3, <2>4 DEF TypeOK
  <2>6. CountsAreExact' BY <1>1, <1>3, <2>1, <2>2, RingSizes
  <2> QED BY <2>5, <2>6 DEF RingInv
<1>5. CASE rb_dequeue
  <2>1. /\ head' = (head + 1) % MOD /\ tail' = tail /\ count' = count - 1
        /\ data' = data /\ out' = data[Slot(head)] /\ count # 0
    BY <1>1, <1>5 DEF rb_dequeue
  <2>2. head' = IF head + 1 < MOD THEN head + 1 ELSE 0 BY <1>1, <2>1, Wrap, RingSizes
  <2>3. out' \in Value BY <1>1, <1>2, <2>1, SlotInRange, RingSizes DEF Slot
  <2>4. TypeOK' BY <1>1, <1>2, <2>1, <2>2, <2>3, RingSizes DEF TypeOK, Counters
  <2>5. CountsAreExact' BY <1>1, <1>3, <2>1, <2>2, RingSizes
  <2> QED BY <2>4, <2>5 DEF RingInv
<1>6. CASE Reset
  <2>1. head' = 0 /\ tail' = 0 /\ count' = 0 /\ out' = NoValue /\ data' = data
    BY <1>6 DEF Reset
  <2>2. TypeOK' BY <1>2, <2>1, RingSizes DEF TypeOK, Counters
  <2>3. CountsAreExact' BY <1>3, <2>1, RingSizes
  <2> QED BY <2>2, <2>3 DEF RingInv
<1>7. CASE Refused \/ UNCHANGED vars
  BY <1>7 DEF Refused, vars, RingInv, TypeOK, CountsAreExact, Outstanding, IsFull, IsEmpty
<1> QED BY <1>4, <1>5, <1>6, <1>7 DEF Next

(* The counters of the ring buffer stay CAP at most apart, wrapped or not. *)
THEOREM RingInvariance == Spec => []RingInv
BY RingStart, RingStep, PTL DEF Spec

(* The wrapped difference of the counters is the true number of items.     *)
THEOREM ExactCounts == Spec => []CountsAreExact
<1>1. RingInv => CountsAreExact BY DEF RingInv
<1> QED BY <1>1, RingInvariance, PTL

(* head, tail and count stay in their ranges across rb_enqueue, rb_dequeue.*)
THEOREM RingTypeCorrect == Spec => []TypeOK
<1>1. RingInv => TypeOK BY DEF RingInv
<1> QED BY <1>1, RingInvariance, PTL

(***************************************************************************)
(* The ring implements the abstract queue.                                 *)
(***************************************************************************)
LEMMA ContentsFacts ==
  RingInv => /\ Contents \in Seq(Value) /\ Len(Contents) = count
             /\ \A r \in 1 .. count : /\ (head + r - 1) % CAP \in Slots
                                      /\ Contents[r] = data[(head + r - 1) % CAP]
<1> SUFFICES ASSUME RingInv
             PROVE  /\ Contents \in Seq(Value) /\ Len(Contents) = count
                    /\ \A r \in 1 .. count : /\ (head + r - 1) % CAP \in Slots
                                             /\ Contents[r] = data[(head + r - 1) % CAP]
  OBVIOUS
<1>1. /\ head \in 0 .. MOD - 1 /\ count \in 0 .. CAP /\ Outstanding = count
      /\ data \in [Slots -> Value]
  BY RingFacts DEF RingInv, TypeOK
<1>2. ASSUME NEW r \in 1 .. count
      PROVE  /\ Slot((head + r - 1) % MOD) = (head + r - 1) % CAP
             /\ (head + r - 1) % CAP \in Slots
  <2>1. head + r - 1 \in 0 .. 2 * MOD - 1 /\ head + r - 1 \in Nat BY <1>1, RingSizes
  <2> QED BY <2>1, SlotOfWrapped, SlotInRange
<1>3. Contents = [r \in 1 .. count |-> data[(head + r - 1) % CAP]]
  BY <1>1, <1>2 DEF Contents
<1>4. \A r \in 1 .. count : data[(head + r - 1) % CAP] \in Value BY <1>1, <1>2
<1>5. count \in Nat BY <1>1
<1> QED BY <1>2, <1>3, <1>4, <1>5

LEMMA RingInitImplements == Init => Queue!Init
<1> SUFFICES ASSUME Init PROVE Queue!Init OBVIOUS
<1>1. RingInv BY RingStart
<1>2. Contents \in Seq(Value) /\ Len(Contents) = 0 BY <1>1, ContentsFacts DEF Init
<1> QED BY <1>2 DEF Init, Queue!Init

LEMMA RingStepImplements ==
  RingInv /\ RingInv' /\ [Next]_vars => [Queue!Next]_(Queue!fifoVars)
<1> SUFFICES ASSUME RingInv, RingInv', [Next]_vars
             PROVE  Queue!Next \/ (Contents' = Contents /\ out' = out)
  BY DEF Queue!fifoVars
<1>1. /\ head \in 0 .. MOD - 1 /\ tail \in 0 .. MOD - 1 /\ count \in 0 .. CAP
      /\ \/ tail >= head /\ count = tail - head
         \/ tail < head /\ count = tail - head + MOD
      /\ IsFull <=> count = CAP
      /\ IsEmpty <=> count = 0
  BY RingFacts
<1>2. data \in [Slots -> Value] BY DEF RingInv, TypeOK
<1>3. /\ Contents \in Seq(Value) /\ Len(Contents) = count
      /\ \A r \in 1 .. count : /\ (head + r - 1) % CAP \in Slots
                               /\ Contents[r] = data[(head + r - 1) % CAP]
  BY ContentsFacts
<1>4. /\ Contents' \in Seq(Value) /\ Len(Contents') = count'
      /\ \A r \in 1 .. count' : /\ (head' + r - 1) % CAP \in Slots
                                /\ Contents'[r] = data'[(head' + r - 1) % CAP]
  <2>1. (RingInv => /\ Contents \in Seq(Value) /\ Len(Contents) = count
                    /\ \A r \in 1 .. count : /\ (head + r - 1) % CAP \in Slots
                                             /\ Contents[r] = data[(head + r - 1) % CAP])'
    BY ContentsFacts, PTL
  <2> QED BY <2>1
<1>5. ASSUME NEW v \in Value, rb_enqueue(v) PROVE Queue!Next
  <2>1. /\ head' = head /\ count' = count + 1 /\ out' = out /\ count < CAP
        /\ data' = [data EXCEPT ![Slot(tail)] = v]
    BY <1>1, <1>5, RingSizes DEF rb_enqueue
  <2>2. Slot(tail) = (head + count) % CAP /\ head + count \in Nat
    <3>1. head + count \in 0 .. 2 * MOD - 1 /\ head + count \in Nat BY <1>1, RingSizes
    <3>2. (head + count) % MOD = tail BY <1>1, <3>1, Wrap, RingSizes
    <3> QED BY <3>1, <3>2, SlotOfWrapped
  <2>3. (head + count) % CAP \in Slots BY <2>2, SlotInRange
  <2>4. ASSUME NEW r \in 1 .. count PROVE Contents'[r] = Contents[r]
    <3>1. head + r - 1 \in Nat /\ head + r - 1 < head + count
          /\ head + count < (head + r - 1) + CAP
      BY <1>1, <2>1, RingSizes
    <3>2. (head + r - 1) % CAP # (head + count) % CAP
      BY <2>2, <3>1, RingSizes, SlotsDistinct
    <3>3. Contents'[r] = data'[(head + r - 1) % CAP] BY <1>1, <1>4, <2>1
    <3>4. Contents[r] = data[(head + r - 1) % CAP] /\ (head + r - 1) % CAP \in Slots
      BY <1>3
    <3> QED BY <1>2, <2>1, <2>2, <3>2, <3>3, <3>4
  <2>5. Contents'[count + 1] = v
    <3>1. count + 1 \in 1 .. count' /\ head' + (count + 1) - 1 = head + count BY <1>1, <2>1
    <3>2. Contents'[count + 1] = data'[(head + count) % CAP] BY <1>4, <3>1
    <3> QED BY <1>2, <2>1, <2>2, <2>3, <3>2
  <2>6. /\ Append(Contents, v) \in Seq(Value) /\ Len(Append(Contents, v)) = count + 1
        /\ \A r \in 1 .. count : Append(Contents, v)[r] = Contents[r]
        /\ Append(Contents, v)[count + 1] = v
    BY <1>1, <1>3
  <2>7. Len(Contents') = Len(Append(Contents, v)) BY <1>4, <2>1, <2>6
  <2>8. \A r \in 1 .. Len(Contents') : Contents'[r] = Append(Contents, v)[r]
    BY <1>1, <1>4, <2>1, <2>4, <2>5, <2>6
  <2>9. Contents' = Append(Contents, v) BY <1>4, <2>6, <2>7, <2>8, SeqEqual
  <2> QED BY <1>3, <2>1, <2>9 DEF Queue!Next, Queue!Put
<1>6. CASE rb_dequeue
  <2>1. /\ head' = (head + 1) % MOD /\ count' = count - 1 /\ data' = data
        /\ out' = data[Slot(head)] /\ count # 0
    BY <1>1, <1>6 DEF rb_dequeue
  <2>2. Contents # <<>> /\ Contents[1] = data[head % CAP] BY <1>1, <1>3, <2>1
  <2>3. out' = Head(Contents) BY <1>3, <2>1, <2>2 DEF Slot
  <2>4. /\ Tail(Contents) \in Seq(Value) /\ Len(Tail(Contents)) = count - 1
        /\ \A r \in 1 .. count - 1 : Tail(Contents)[r] = Contents[r + 1]
    BY <1>3, <2>2, TailFacts
  <2>5. ASSUME NEW r \in 1 .. count - 1 PROVE Contents'[r] = Contents[r + 1]
    <3>1. /\ head + r \in 0 .. 2 * MOD - 1 /\ head + 1 \in 0 .. 2 * MOD - 1
          /\ r - 1 \in 0 .. 2 * MOD - 1 /\ r + 1 \in 1 .. count /\ r \in 1 .. count'
      BY <1>1, <2>1, RingSizes
    <3>2. (head' + r - 1) % CAP = (head + r) % CAP
      <4>1. CASE head + 1 < MOD
        <5>1. head' = head + 1 BY <2>1, <3>1, <4>1, Wrap
        <5>2. head' + r - 1 = head + r BY <1>1, <5>1
        <5> QED BY <5>2
      <4>2. CASE head + 1 >= MOD
        <5>1. head' = 0 /\ head + r >= MOD BY <1>1, <2>1, <3>1, <4>2, Wrap, RingSizes
        <5>2. (head + r) % MOD = r - 1 BY <1>1, <3>1, <4>2, <5>1, Wrap, RingSizes
        <5>3. (head + r) % CAP = Slot(r - 1) BY <3>1, <5>2, SlotOfWrapped
        <5> QED BY <5>1, <5>3 DEF Slot
      <4> QED BY <1>1, <4>1, <4>2, RingSizes
    <3>3. Contents'[r] = data[(head' + r - 1) % CAP] BY <1>4, <2>1, <3>1
    <3>4. head + (r + 1) - 1 = head + r BY <1>1
    <3>5. Contents[r + 1] = data[(head + r) % CAP] BY <1>3, <3>1, <3>4
    <3> QED BY <3>2, <3>3, <3>5
  <2>6. Len(Contents') = Len(Tail(Contents)) BY <1>4, <2>1, <2>4
  <2>7. \A r \in 1 .. Len(Contents') : Contents'[r] = Tail(Contents)[r]
    BY <1>4, <2>1, <2>4, <2>5
  <2>8. Contents' = Tail(Contents) BY <1>4, <2>4, <2>6, <2>7, SeqEqual
  <2> QED BY <2>2, <2>3, <2>8 DEF Queue!Next, Queue!Take
<1>7. CASE Reset
  <2>1. Len(Contents') = 0 /\ out' = NoValue BY <1>4, <1>7 DEF Reset
  <2>2. Contents' = <<>> BY <1>4, <2>1
  <2> QED BY <2>1, <2>2 DEF Queue!Next, Queue!Clear
<1>8. CASE Refused \/ UNCHANGED vars
  BY <1>8 DEF Refused, vars, Contents, Outstanding
<1> QED BY <1>5, <1>6, <1>7, <1>8 DEF Next

(* rb_enqueue and rb_dequeue implement the bounded first-in first-out      *)
(* queue, however often the counters wrap.                                 *)
THEOREM RingRefinement == Spec => ImplementsFIFO
<1>1. Spec => []RingInv BY RingInvariance
<1> QED BY <1>1, RingInitImplements, RingStepImplements, PTL
       DEF Spec, ImplementsFIFO, Queue!Spec

(***************************************************************************)
(* The dynamic array, for every factor p / q greater than 1.  A resize at  *)
(* size s makes the capacity more than s * p / q, by at most one: so the   *)
(* copies so far are at most cap * q / (p - q), and that carries them over *)
(* the next resize.                                                        *)
(***************************************************************************)
GrowthInv ==
  LET p == growth[1]
      q == growth[2]
  IN /\ growth \in Growth
     /\ size \in Nat /\ cap \in Nat /\ reallocs \in Nat /\ copied \in Nat
     /\ da_pc \in {"init", "push", "store", "done", "exited"}
     /\ size <= cap /\ (da_pc = "store" => size < cap)
     /\ da_pc = "init" => copied = 0 /\ size = 0 /\ reallocs = 0
     /\ copied * (p - q) <= size * p /\ copied * (p - q) <= cap * q
     /\ da_pc = "store" => cap * q <= size * p + q
     /\ da_pc = "push" /\ reallocs > 0 => cap * q <= size * p

LEMMA FactorType ==
  ASSUME NEW g \in Growth
  PROVE  g[1] \in Nat /\ g[2] \in Nat \ {0} /\ g[1] > g[2]
BY GrowthAssumption

(* The arithmetic of a resize: s is the size, c the copies before. *)
LEMMA ResizeArithmetic ==
  ASSUME NEW p \in Nat, NEW q \in Nat \ {0}, p > q, NEW s \in Nat, NEW c \in Nat,
         c * (p - q) <= s * q
  PROVE  LET new == (s * p) \div q + 1
         IN /\ new \in Nat /\ s < new
            /\ (c + s) * (p - q) <= s * p
            /\ (c + s) * (p - q) <= new * q
            /\ new * q <= s * p + q
<1> DEFINE d == (s * p) \div q
<1>1. s * p \in Nat /\ s * q \in Nat /\ p - q \in Nat /\ c * (p - q) \in Nat
  OBVIOUS
<1>2. d \in Int /\ (s * p) % q \in 0 .. q - 1 /\ s * p = q * d + ((s * p) % q)
  BY <1>1, Division
<1>3. (c + s) * (p - q) = c * (p - q) + s * p - s * q OBVIOUS
<1>4. (c + s) * (p - q) <= s * p BY <1>1, <1>3
<1> HIDE DEF d
<1>5. (d + 1) * q = q * d + q BY <1>2
<1>6. s * p < (d + 1) * q /\ (d + 1) * q <= s * p + q
  <2> DEFINE r == (s * p) % q
             e == q * d
  <2>1. r \in 0 .. q - 1 /\ s * p = e + r /\ e \in Int BY <1>2
  <2>2. (d + 1) * q = e + q BY <1>5
  <2> HIDE DEF r, e
  <2> QED BY <2>1, <2>2, <1>1
<1>7. s < d + 1
  <2>1. SUFFICES ASSUME d + 1 <= s PROVE FALSE BY <1>2
  <2>2. (d + 1) * q <= s * q BY <2>1, <1>2
  <2>3. s * q <= s * p OBVIOUS
  <2>4. (d + 1) * q \in Int BY <1>2
  <2> QED BY <1>1, <1>6, <2>2, <2>3, <2>4
<1>8. (c + s) * (p - q) <= (d + 1) * q
  <2>1. (d + 1) * q \in Int /\ (c + s) * (p - q) \in Int BY <1>2
  <2> QED BY <1>1, <1>4, <1>6, <2>1
<1>9. d + 1 \in Nat BY <1>2, <1>7
<1> QED BY <1>4, <1>6, <1>7, <1>8, <1>9 DEF d

LEMMA GrowthStart == DaInit => GrowthInv
<1> SUFFICES ASSUME DaInit PROVE GrowthInv OBVIOUS
<1>1. growth[1] \in Nat /\ growth[2] \in Nat \ {0} /\ growth[1] > growth[2]
  BY FactorType DEF DaInit
<1> QED BY <1>1 DEF DaInit, GrowthInv

LEMMA GrowthStep == GrowthInv /\ [DaNext]_daVars => GrowthInv'
<1> SUFFICES ASSUME GrowthInv, [DaNext]_daVars PROVE GrowthInv' OBVIOUS
<1> DEFINE p == growth[1]
           q == growth[2]
<1>1. /\ growth \in Growth /\ p \in Nat /\ q \in Nat \ {0} /\ p > q
      /\ size \in Nat /\ cap \in Nat /\ reallocs \in Nat /\ copied \in Nat
  BY FactorType DEF GrowthInv
<1>2. CASE da_init
  <2>1. /\ growth' = growth /\ size' = size /\ cap' = 16 /\ da_pc' = "push"
        /\ reallocs' = reallocs /\ copied' = copied /\ copied = 0 /\ size = 0
        /\ reallocs = 0
    BY <1>1, <1>2 DEF da_init, GrowthInv
  <2>2. /\ 0 * (p - q) = 0 /\ 0 * p = 0 /\ 16 * q \in Nat
    BY <1>1
  <2> QED BY <1>1, <2>1, <2>2 DEF GrowthInv
<1>3. CASE Resize
  <2>1. /\ growth' = growth /\ size' = size /\ cap' = (cap * p) \div q + 1
        /\ da_pc' = "store" /\ reallocs' = reallocs + 1
        /\ copied' = copied + size /\ size = cap
    BY <1>3 DEF Resize, Grown
  <2>2. copied * (p - q) <= size * q BY <2>1 DEF GrowthInv
  <2>3. /\ cap' \in Nat /\ size < cap'
        /\ (copied + size) * (p - q) <= size * p
        /\ (copied + size) * (p - q) <= cap' * q
        /\ cap' * q <= size * p + q
    <3> HIDE DEF p, q
    <3> QED BY <1>1, <2>1, <2>2, ResizeArithmetic
  <2>4. reallocs + 1 \in Nat /\ copied + size \in Nat BY <1>1
  <2> QED BY <1>1, <2>1, <2>3, <2>4 DEF GrowthInv
<1>4. CASE StoreElement
  <2>1. /\ growth' = growth /\ size' = size + 1 /\ cap' = cap
        /\ da_pc' = "push" /\ reallocs' = reallocs /\ copied' = copied
    BY <1>4 DEF StoreElement
  <2>2. size < cap /\ da_pc \in {"push", "store"} BY <1>1, <1>4 DEF StoreElement, GrowthInv
  <2>3. (size + 1) * p = size * p + p BY <1>1
  <2>4. size * p \in Nat /\ cap * q \in Nat /\ copied * (p - q) \in Nat BY <1>1
  <2>5. copied * (p - q) <= (size + 1) * p
    BY <1>1, <2>3, <2>4 DEF GrowthInv
  <2>6. reallocs > 0 => cap * q <= (size + 1) * p
    BY <1>1, <2>2, <2>3, <2>4 DEF GrowthInv
  <2> QED BY <1>1, <2>1, <2>2, <2>5, <2>6 DEF GrowthInv
<1>5. CASE AllocationFails BY <1>5 DEF AllocationFails, GrowthInv
<1>6. CASE da_free BY <1>6 DEF da_free, GrowthInv
<1>7. CASE UNCHANGED daVars BY <1>7 DEF daVars, GrowthInv
<1> QED BY <1>2, <1>3, <1>4, <1>5, <1>6, <1>7 DEF DaNext

LEMMA GrowthEnough == GrowthInv => GrowthIsCheap
<1> SUFFICES ASSUME GrowthInv PROVE GrowthIsCheap OBVIOUS
<1> DEFINE p == growth[1]
           q == growth[2]
<1>1. /\ p \in Nat /\ q \in Nat \ {0} /\ p > q /\ size \in Nat /\ cap \in Nat
  BY FactorType DEF GrowthInv
<1>2. (cap - size) * p = cap * p - size * p /\ cap * (p - q) = cap * p - cap * q
  BY <1>1
<1>3. cap * p \in Nat /\ size * p \in Nat /\ cap * q \in Nat BY <1>1
<1>4. cap * q <= size * p => (cap - size) * p <= cap * (p - q) BY <1>2, <1>3
<1> QED BY <1>4 DEF GrowthInv, GrowthIsCheap

(* Copies stay linear in the pushes and little is wasted (lines 14, 19 and *)
(* 27), for every factor, not only the three of main.                      *)
THEOREM GrowthAlwaysCheap == DaSpec => []GrowthIsCheap
BY GrowthStart, GrowthStep, GrowthEnough, PTL DEF DaSpec

(***************************************************************************)
(* The Bloom filter has no false negatives, for every size, number of      *)
(* hashes and keys, and whatever bloom_hash computes: at every moment the  *)
(* bits that are set are those of what was inserted so far, no more and no *)
(* less.                                                                   *)
(***************************************************************************)
Seeds      == 0 .. NUM_HASH - 1
Inserted   == 0 .. INSERT_COUNT - 1
FilterBits == 0 .. FILTER_BITS - 1

(* Hash s of key p has been set since the last memset. *)
WasSet(p, s) ==
  IF bloom_pc = "insert" THEN p < n \/ (p = n /\ s < k) ELSE TRUE

BloomTypes ==
  /\ filter \in [Bytes -> SUBSET (0 .. 7)]
  /\ hash \in [BloomKey \X Seeds -> HashValue]
  /\ bloom_pc \in {"memset", "insert", "query", "done"}
  /\ again \in BOOLEAN
  /\ n \in Nat /\ k \in 0 .. NUM_HASH
  /\ bloom_pc = "insert" => n <= INSERT_COUNT /\ (n = INSERT_COUNT => k = 0)
  /\ bloom_pc = "query" => FromKey <= n /\ n <= ToKey /\ (n = ToKey => k = 0)

FilterInv ==
  bloom_pc # "memset" =>
    \A x \in FilterBits :
      IsSet(x) <=> \E p \in Inserted, s \in Seeds : WasSet(p, s) /\ bit(p, s) = x

(* The seeds of the query in progress that have been looked at were set. *)
QueryInv == bloom_pc = "query" => \A s \in 0 .. k - 1 : IsSet(bit(n, s))

AnswerInv ==
  /\ yes \subseteq BloomKey /\ no \subseteq BloomKey
  /\ \A elt \in no : ~ Covered(elt)
  /\ \A elt \in yes : Covered(elt)

(* A key the loops have passed was answered, and no other one. *)
PassedInv ==
  /\ bloom_pc = "insert" => yes = {} /\ no = {}
  /\ bloom_pc = "query" => yes \cup no = FromKey .. n - 1
  /\ bloom_pc = "done" => yes \cup no = Inserted

BloomInv == BloomTypes /\ FilterInv /\ QueryInv /\ AnswerInv /\ PassedInv

LEMMA BloomRanges ==
  /\ FILTER_BYTES \in Nat \ {0} /\ NUM_HASH \in Nat /\ INSERT_COUNT \in Nat
  /\ FILTER_BITS \in Nat \ {0} /\ FILTER_BITS = 8 * FILTER_BYTES
  /\ Inserted \subseteq BloomKey
  /\ FromKey \in {0, INSERT_COUNT} /\ ToKey = FromKey + INSERT_COUNT
  /\ again = TRUE => FromKey = 0
<1>1. FILTER_BYTES \in Nat \ {0} /\ NUM_HASH \in Nat /\ INSERT_COUNT \in Nat
  BY BloomAssumption
<1> QED BY <1>1 DEF FILTER_BITS, Inserted, BloomKey, FromKey, ToKey

(* A hash is reduced to a bit of the filter (line 77). *)
LEMMA BitType ==
  ASSUME BloomTypes, NEW p \in BloomKey, NEW s \in Seeds
  PROVE  bit(p, s) \in FilterBits
<1>1. hash[<<p, s>>] \in Nat BY BloomAssumption DEF BloomTypes
<1>2. FILTER_BITS \in Nat \ {0} BY BloomRanges
<1>3. hash[<<p, s>>] % FILTER_BITS \in 0 .. FILTER_BITS - 1 BY <1>1, <1>2
<1> QED BY <1>3 DEF bit, FilterBits

(* filter[bit / 8] |= 1 << (bit % 8) sets one bit and leaves the others    *)
(* (line 78).                                                              *)
LEMMA SetsOneBit ==
  ASSUME BloomTypes, NEW b \in FilterBits, Sets(b)
  PROVE  /\ filter' \in [Bytes -> SUBSET (0 .. 7)]
         /\ \A x \in FilterBits : IsSet(x)' <=> IsSet(x) \/ x = b
<1>1. FILTER_BYTES \in Nat \ {0} /\ FILTER_BITS = 8 * FILTER_BYTES BY BloomRanges
<1>2. \A x \in FilterBits : x \in Nat /\ x \div 8 \in Bytes /\ x % 8 \in 0 .. 7 /\ x = 8 * (x \div 8) + (x % 8)
  BY <1>1 DEF FilterBits, Bytes
<1>3. filter' = [filter EXCEPT ![b \div 8] = filter[b \div 8] \cup {b % 8}] BY DEF Sets
<1>4. filter \in [Bytes -> SUBSET (0 .. 7)] BY DEF BloomTypes
<1>5. b \div 8 \in Bytes /\ b % 8 \in 0 .. 7 BY <1>2
<1>6. filter' \in [Bytes -> SUBSET (0 .. 7)] BY <1>3, <1>4, <1>5
<1>7. \A y \in Bytes : filter'[y] = IF y = b \div 8 THEN filter[y] \cup {b % 8} ELSE filter[y]
  BY <1>3, <1>4, <1>5
<1>8. ASSUME NEW x \in FilterBits PROVE IsSet(x)' <=> IsSet(x) \/ x = b
  <2> DEFINE q == x \div 8
             r == x % 8
  <2>1. q \in Bytes /\ x = 8 * q + r /\ b = 8 * (b \div 8) + (b % 8) BY <1>2
  <2>2. IsSet(x)' <=> r \in filter'[q] BY DEF IsSet
  <2>3. IsSet(x) <=> r \in filter[q] BY DEF IsSet
  <2>4. x = b => q = b \div 8 /\ r = b % 8 OBVIOUS
  <2> HIDE DEF q, r
  <2>5. q = b \div 8 /\ r = b % 8 => x = b BY <2>1
  <2>6. r \in filter'[q] <=> r \in filter[q] \/ (q = b \div 8 /\ r = b % 8) BY <1>7, <2>1
  <2> QED BY <2>2, <2>3, <2>4, <2>5, <2>6
<1> QED BY <1>6, <1>8

(* Everything about the bits of a key depends on hash alone. *)
LEMMA HashFixed ==
  ASSUME hash' = hash
  PROVE  /\ \A p, s : bit(p, s)' = bit(p, s)
         /\ \A p : Covered(p)' <=> Covered(p)
<1>1. \A p, s : bit(p, s)' = bit(p, s) BY DEF bit
<1> QED BY <1>1 DEF Covered

LEMMA BloomStart == BloomInit => BloomInv
<1> SUFFICES ASSUME BloomInit PROVE BloomInv OBVIOUS
<1>1. /\ filter = [b \in Bytes |-> {}] /\ bloom_pc = "memset" /\ again = FALSE
      /\ n = 0 /\ k = 0
  BY DEF BloomInit
<1>2. hash \in [BloomKey \X Seeds -> HashValue] BY DEF BloomInit, Seeds
<1>3. filter \in [Bytes -> SUBSET (0 .. 7)] BY <1>1
<1>4. k \in 0 .. NUM_HASH BY <1>1, BloomRanges
<1>5. BloomTypes BY <1>1, <1>2, <1>3, <1>4 DEF BloomTypes
<1> QED BY <1>5 DEF BloomInit, BloomInv, FilterInv, QueryInv, AnswerInv, PassedInv

LEMMA MemsetKeeps == BloomInv /\ Memset => BloomInv'
<1> SUFFICES ASSUME BloomInv, Memset PROVE BloomInv' OBVIOUS
<1>1. /\ filter' = [b \in Bytes |-> {}] /\ bloom_pc' = "insert" /\ n' = 0 /\ k' = 0
      /\ yes' = {} /\ no' = {} /\ hash' = hash /\ again' = again
  BY DEF Memset, filling
<1>2. BloomTypes' BY <1>1, BloomRanges DEF BloomInv, BloomTypes
<1>3. \A x \in FilterBits : ~ IsSet(x)'
  <2>1. \A x \in FilterBits : x \div 8 \in Bytes BY BloomRanges DEF FilterBits, Bytes
  <2> QED BY <1>1, <2>1 DEF IsSet
<1>4. \A p \in Inserted, s \in Seeds : ~ WasSet(p, s)' BY <1>1, BloomRanges DEF WasSet, Inserted, Seeds
<1>5. FilterInv' BY <1>3, <1>4 DEF FilterInv
<1> QED BY <1>1, <1>2, <1>5 DEF BloomInv, QueryInv, AnswerInv, PassedInv

LEMMA InsertKeeps == BloomInv /\ bloom_insert => BloomInv'
<1> SUFFICES ASSUME BloomInv, bloom_insert PROVE BloomInv' OBVIOUS
<1> DEFINE b == bit(n, k)
<1>1. /\ bloom_pc = "insert" /\ n < INSERT_COUNT /\ k < NUM_HASH /\ Sets(b)
      /\ k' = k + 1 /\ hash' = hash /\ bloom_pc' = bloom_pc /\ n' = n /\ again' = again
      /\ yes' = yes /\ no' = no
  BY DEF bloom_insert, filling
<1>2. BloomTypes /\ n \in Inserted /\ k \in Seeds /\ n \in Nat /\ k \in Nat
  BY <1>1, BloomRanges DEF BloomInv, BloomTypes, Inserted, Seeds
<1>3. b \in FilterBits BY <1>2, BloomRanges, BitType
<1> HIDE DEF b
<1>4. /\ filter' \in [Bytes -> SUBSET (0 .. 7)]
      /\ \A x \in FilterBits : IsSet(x)' <=> IsSet(x) \/ x = b
  BY <1>1, <1>2, <1>3, SetsOneBit
<1>5. BloomTypes' BY <1>1, <1>2, <1>4, BloomRanges DEF BloomTypes
<1>6. \A p \in Inserted, s \in Seeds : WasSet(p, s)' <=> WasSet(p, s) \/ (p = n /\ s = k)
  BY <1>1, <1>2, BloomRanges DEF WasSet, Inserted, Seeds
<1>7. \A p, s : bit(p, s)' = bit(p, s) BY <1>1, HashFixed
<1>8. \A x \in FilterBits : IsSet(x) <=> \E p \in Inserted, s \in Seeds : WasSet(p, s) /\ bit(p, s) = x
  BY <1>1 DEF BloomInv, FilterInv
<1>9. ASSUME NEW x \in FilterBits
      PROVE  IsSet(x)' <=> (\E p \in Inserted, s \in Seeds : WasSet(p, s) /\ bit(p, s) = x)'
  <2>1. (\E p \in Inserted, s \in Seeds : WasSet(p, s) /\ bit(p, s) = x)'
          <=> \E p \in Inserted, s \in Seeds : (WasSet(p, s) \/ (p = n /\ s = k)) /\ bit(p, s) = x
    BY <1>6, <1>7
  <2>2. (\E p \in Inserted, s \in Seeds : p = n /\ s = k /\ bit(p, s) = x) <=> x = b
    BY <1>2 DEF b
  <2> QED BY <1>4, <1>8, <2>1, <2>2
<1>10. FilterInv' BY <1>9 DEF FilterInv
<1>11. AnswerInv' BY <1>1, HashFixed DEF BloomInv, AnswerInv
<1> QED BY <1>1, <1>5, <1>10, <1>11 DEF BloomInv, QueryInv, PassedInv

LEMMA InsertReturnsKeeps == BloomInv /\ InsertReturns => BloomInv'
<1> SUFFICES ASSUME BloomInv, InsertReturns PROVE BloomInv' OBVIOUS
<1>1. /\ bloom_pc = "insert" /\ n < INSERT_COUNT /\ k = NUM_HASH
      /\ n' = n + 1 /\ k' = 0 /\ filter' = filter /\ hash' = hash /\ bloom_pc' = bloom_pc
      /\ again' = again /\ yes' = yes /\ no' = no
  BY DEF InsertReturns, filling
<1>2. BloomTypes /\ n \in Nat BY DEF BloomInv, BloomTypes
<1>3. BloomTypes' BY <1>1, <1>2, BloomRanges DEF BloomTypes
<1>4. \A p \in Inserted, s \in Seeds : WasSet(p, s)' <=> WasSet(p, s)
  BY <1>1, <1>2, BloomRanges DEF WasSet, Inserted, Seeds
<1>5. \A p, s : bit(p, s)' = bit(p, s) BY <1>1, HashFixed
<1>6. \A x : IsSet(x)' <=> IsSet(x) BY <1>1 DEF IsSet
<1>7. FilterInv' BY <1>1, <1>4, <1>5, <1>6 DEF BloomInv, FilterInv
<1>8. AnswerInv' BY <1>1, HashFixed DEF BloomInv, AnswerInv
<1> QED BY <1>1, <1>3, <1>7, <1>8 DEF BloomInv, QueryInv, PassedInv

LEMMA InsertLoopEndsKeeps == BloomInv /\ InsertLoopEnds => BloomInv'
<1> SUFFICES ASSUME BloomInv, InsertLoopEnds PROVE BloomInv' OBVIOUS
<1>1. /\ bloom_pc = "insert" /\ n = INSERT_COUNT /\ bloom_pc' = "query" /\ n' = FromKey
      /\ filter' = filter /\ hash' = hash /\ k' = k /\ again' = again /\ yes' = yes /\ no' = no
  BY DEF InsertLoopEnds, filling
<1>2. BloomTypes /\ k = 0 /\ FromKey' = FromKey /\ ToKey' = ToKey
  BY <1>1 DEF BloomInv, BloomTypes, FromKey, ToKey
<1>3. BloomTypes' BY <1>1, <1>2, BloomRanges DEF BloomTypes
<1>4. \A p \in Inserted, s \in Seeds : WasSet(p, s)' <=> WasSet(p, s)
  BY <1>1, <1>2, BloomRanges DEF WasSet, Inserted, Seeds
<1>5. \A p, s : bit(p, s)' = bit(p, s) BY <1>1, HashFixed
<1>6. \A x : IsSet(x)' <=> IsSet(x) BY <1>1 DEF IsSet
<1>7. FilterInv' BY <1>1, <1>4, <1>5, <1>6 DEF BloomInv, FilterInv
<1>8. AnswerInv' BY <1>1, HashFixed DEF BloomInv, AnswerInv
<1>9. QueryInv' BY <1>1, <1>2 DEF QueryInv
<1>10. PassedInv' BY <1>1, <1>2, BloomRanges DEF BloomInv, PassedInv
<1> QED BY <1>3, <1>7, <1>8, <1>9, <1>10 DEF BloomInv

(* While the keys are looked up, the filter is exactly what was inserted.  *)
LEMMA QueryFacts ==
  ASSUME BloomInv, bloom_pc = "query", n < ToKey
  PROVE  /\ n \in BloomKey
         /\ \A x \in FilterBits : IsSet(x) <=> \E p \in Inserted, s \in Seeds : bit(p, s) = x
         /\ \A s \in Seeds : bit(n, s) \in FilterBits
<1>1. n \in BloomKey BY BloomRanges DEF BloomInv, BloomTypes, BloomKey
<1>2. \A p, s : WasSet(p, s) BY DEF WasSet
<1>3. \A x \in FilterBits : IsSet(x) <=> \E p \in Inserted, s \in Seeds : bit(p, s) = x
  BY <1>2 DEF BloomInv, FilterInv
<1> QED BY <1>1, <1>3, BitType DEF BloomInv

LEMMA QueryKeeps == BloomInv /\ bloom_query => BloomInv'
<1> SUFFICES ASSUME BloomInv, bloom_query PROVE BloomInv' OBVIOUS
<1>1. /\ bloom_pc = "query" /\ n < ToKey /\ k < NUM_HASH /\ IsSet(bit(n, k))
      /\ k' = k + 1 /\ filter' = filter /\ hash' = hash /\ bloom_pc' = bloom_pc /\ n' = n
      /\ again' = again /\ yes' = yes /\ no' = no
  BY DEF bloom_query, filling
<1>2. BloomTypes /\ k \in Nat /\ FromKey' = FromKey /\ ToKey' = ToKey
  BY <1>1 DEF BloomInv, BloomTypes, FromKey, ToKey
<1>3. BloomTypes' BY <1>1, <1>2, BloomRanges DEF BloomTypes
<1>4. \A p, s : WasSet(p, s)' <=> WasSet(p, s) BY <1>1 DEF WasSet
<1>5. \A p, s : bit(p, s)' = bit(p, s) BY <1>1, HashFixed
<1>6. \A x : IsSet(x)' <=> IsSet(x) BY <1>1 DEF IsSet
<1>7. FilterInv' BY <1>1, <1>4, <1>5, <1>6 DEF BloomInv, FilterInv
<1>8. AnswerInv' BY <1>1, HashFixed DEF BloomInv, AnswerInv
<1>9. ASSUME NEW s \in 0 .. k PROVE IsSet(bit(n, s))
  <2>1. CASE s = k BY <1>1, <2>1
  <2>2. CASE s # k BY <1>1, <1>2, <2>2 DEF BloomInv, QueryInv
  <2> QED BY <2>1, <2>2
<1>10. QueryInv' BY <1>1, <1>2, <1>5, <1>6, <1>9 DEF QueryInv
<1>11. PassedInv' BY <1>1, <1>2 DEF BloomInv, PassedInv
<1> QED BY <1>3, <1>7, <1>8, <1>10, <1>11 DEF BloomInv

(* The return of bloom_query, with either answer: key n joins the passed   *)
(* keys.                                                                   *)
LEMMA AnswerKeeps ==
  ASSUME BloomInv, bloom_pc = "query", n < ToKey,
         n' = n + 1, k' = 0, filter' = filter, hash' = hash, bloom_pc' = bloom_pc,
         again' = again,
         \/ yes' = yes \cup {n} /\ no' = no /\ Covered(n)
         \/ no' = no \cup {n} /\ yes' = yes /\ ~ Covered(n)
  PROVE  BloomInv'
<1>1. BloomTypes /\ FromKey' = FromKey /\ ToKey' = ToKey BY DEF BloomInv, FromKey, ToKey
<1>2. n \in Nat /\ FromKey <= n /\ ToKey \in Nat /\ FromKey \in Nat
  BY <1>1, BloomRanges DEF BloomTypes
<1>3. BloomTypes' BY <1>1, <1>2, BloomRanges DEF BloomTypes
<1>4. \A p, s : WasSet(p, s)' <=> WasSet(p, s) BY DEF WasSet
<1>5. \A p, s : bit(p, s)' = bit(p, s) BY HashFixed
<1>6. \A x : IsSet(x)' <=> IsSet(x) BY DEF IsSet
<1>7. FilterInv' BY <1>4, <1>5, <1>6 DEF BloomInv, FilterInv
<1>8. AnswerInv'
  <2>1. n \in BloomKey BY QueryFacts
  <2>2. \A p : Covered(p)' <=> Covered(p) BY HashFixed
  <2> QED BY <2>1, <2>2 DEF BloomInv, AnswerInv
<1>9. QueryInv' BY DEF QueryInv
<1>10. PassedInv'
  <2>1. yes \cup no = FromKey .. n - 1 BY DEF BloomInv, PassedInv
  <2>2. (yes \cup no)' = (yes \cup no) \cup {n} OBVIOUS
  <2>3. FromKey .. n = (FromKey .. n - 1) \cup {n} BY <1>2
  <2>4. (yes \cup no)' = FromKey .. n' - 1 BY <1>2, <2>1, <2>2, <2>3
  <2> QED BY <1>1, <2>4 DEF PassedInv
<1> QED BY <1>3, <1>7, <1>8, <1>9, <1>10 DEF BloomInv

LEMMA QueryReturns0Keeps == BloomInv /\ QueryReturns0 => BloomInv'
<1> SUFFICES ASSUME BloomInv, QueryReturns0 PROVE BloomInv' OBVIOUS
<1>1. /\ bloom_pc = "query" /\ n < ToKey /\ k < NUM_HASH /\ ~ IsSet(bit(n, k))
      /\ no' = no \cup {n} /\ n' = n + 1 /\ k' = 0 /\ filter' = filter /\ hash' = hash
      /\ bloom_pc' = bloom_pc /\ again' = again /\ yes' = yes
  BY DEF QueryReturns0, filling
<1>2. k \in Seeds BY <1>1, BloomRanges DEF BloomInv, BloomTypes, Seeds
<1>3. ~ \E p \in Inserted, s \in Seeds : bit(p, s) = bit(n, k) BY <1>1, <1>2, QueryFacts
<1>4. ~ Covered(n) BY <1>2, <1>3 DEF Covered, Inserted, Seeds
<1> QED BY <1>1, <1>4, AnswerKeeps

LEMMA QueryReturns1Keeps == BloomInv /\ QueryReturns1 => BloomInv'
<1> SUFFICES ASSUME BloomInv, QueryReturns1 PROVE BloomInv' OBVIOUS
<1>1. /\ bloom_pc = "query" /\ n < ToKey /\ k = NUM_HASH
      /\ yes' = yes \cup {n} /\ n' = n + 1 /\ k' = 0 /\ filter' = filter /\ hash' = hash
      /\ bloom_pc' = bloom_pc /\ again' = again /\ no' = no
  BY DEF QueryReturns1
<1>2. ASSUME NEW s \in Seeds PROVE \E p \in Inserted, s2 \in Seeds : bit(n, s) = bit(p, s2)
  <2>1. IsSet(bit(n, s)) BY <1>1 DEF BloomInv, QueryInv, Seeds
  <2>2. bit(n, s) \in FilterBits BY <1>1, QueryFacts
  <2> QED BY <1>1, <2>1, <2>2, QueryFacts
<1>3. Covered(n) BY <1>2 DEF Covered, Inserted, Seeds
<1> QED BY <1>1, <1>3, AnswerKeeps

LEMMA QueryLoopEndsKeeps == BloomInv /\ QueryLoopEnds => BloomInv'
<1> SUFFICES ASSUME BloomInv, QueryLoopEnds PROVE BloomInv' OBVIOUS
<1>1. /\ bloom_pc = "query" /\ n = ToKey /\ again' = TRUE
      /\ bloom_pc' = IF again THEN "done" ELSE "memset"
      /\ filter' = filter /\ hash' = hash /\ n' = n /\ k' = k /\ yes' = yes /\ no' = no
  BY DEF QueryLoopEnds
<1>2. BloomTypes' BY <1>1 DEF BloomInv, BloomTypes
<1>3. \A p, s : WasSet(p, s)' <=> WasSet(p, s) BY <1>1 DEF WasSet
<1>4. \A p, s : bit(p, s)' = bit(p, s) BY <1>1, HashFixed
<1>5. \A x : IsSet(x)' <=> IsSet(x) BY <1>1 DEF IsSet
<1>6. FilterInv' BY <1>1, <1>3, <1>4, <1>5 DEF BloomInv, FilterInv
<1>7. AnswerInv' BY <1>1, HashFixed DEF BloomInv, AnswerInv
<1>8. bloom_pc' = "done" => yes \cup no = Inserted
  BY <1>1, BloomRanges DEF BloomInv, PassedInv, Inserted
<1> QED BY <1>1, <1>2, <1>6, <1>7, <1>8 DEF BloomInv, QueryInv, PassedInv

LEMMA BloomStep == BloomInv /\ [BloomNext]_bloomVars => BloomInv'
<1> SUFFICES ASSUME BloomInv, [BloomNext]_bloomVars PROVE BloomInv' OBVIOUS
<1>1. CASE UNCHANGED bloomVars
  <2>1. /\ filter' = filter /\ hash' = hash /\ bloom_pc' = bloom_pc /\ again' = again
        /\ n' = n /\ k' = k /\ yes' = yes /\ no' = no
    BY <1>1 DEF bloomVars, filling
  <2>2. \A p, s : (WasSet(p, s)' <=> WasSet(p, s)) /\ bit(p, s)' = bit(p, s)
    BY <2>1, HashFixed DEF WasSet
  <2>3. \A x : IsSet(x)' <=> IsSet(x) BY <2>1 DEF IsSet
  <2>4. FromKey' = FromKey /\ ToKey' = ToKey BY <2>1 DEF FromKey, ToKey
  <2>5. BloomTypes' BY <2>1, <2>4 DEF BloomInv, BloomTypes
  <2>6. FilterInv' BY <2>1, <2>2, <2>3 DEF BloomInv, FilterInv
  <2>7. QueryInv' BY <2>1, <2>2, <2>3 DEF BloomInv, QueryInv
  <2>8. AnswerInv' BY <2>1, HashFixed DEF BloomInv, AnswerInv
  <2>9. PassedInv' BY <2>1, <2>4 DEF BloomInv, PassedInv
  <2> QED BY <2>5, <2>6, <2>7, <2>8, <2>9 DEF BloomInv
<1>2. CASE BloomNext
  BY <1>2, MemsetKeeps, InsertKeeps, InsertReturnsKeeps, InsertLoopEndsKeeps, QueryKeeps,
     QueryReturns0Keeps, QueryReturns1Keeps, QueryLoopEndsKeeps DEF BloomNext
<1> QED BY <1>1, <1>2

LEMMA BloomInvariance == BloomSpec => []BloomInv
BY BloomStart, BloomStep, PTL DEF BloomSpec

(* "No false negatives: if a key was inserted, it is always found" (line   *)
(* 8), and a key that was not is found only if the others set all its      *)
(* bits: for every filter size, number of hashes and hash function.        *)
THEOREM NoFalseNegativesEver == BloomSpec => []NoFalseNegatives
<1>1. BloomInv => NoFalseNegatives
  <2> SUFFICES ASSUME BloomInv PROVE NoFalseNegatives OBVIOUS
  <2>1. \A elt \in Inserted : Covered(elt) BY DEF Covered, Inserted
  <2>2. \A elt \in no : elt \in BloomKey /\ ~ Covered(elt) BY DEF BloomInv, AnswerInv
  <2>3. \A elt \in yes : Covered(elt) BY DEF BloomInv, AnswerInv
  <2>4. \A elt \in no : elt >= INSERT_COUNT BY <2>1, <2>2, BloomRanges DEF Inserted, BloomKey
  <2>5. ASSUME bloom_pc = "done", NEW elt \in BloomKey
        PROVE  elt < INSERT_COUNT <=> elt \in yes
    <3>1. yes \cup no = Inserted BY <2>5 DEF BloomInv, PassedInv
    <3>2. elt < INSERT_COUNT <=> elt \in Inserted BY BloomRanges DEF Inserted, BloomKey
    <3>3. Inserted \cap no = {} BY <2>1, <2>2
    <3> QED BY <3>1, <3>2, <3>3
  <2> QED BY <2>2, <2>3, <2>4, <2>5 DEF NoFalseNegatives
<1> QED BY <1>1, BloomInvariance, PTL

(***************************************************************************)
(* The key generator of the hash-quality program is never stuck: a turn of *)
(* it loses nothing, whatever the width of its state, so that only zero    *)
(* is followed by zero.                                                    *)
(***************************************************************************)
LEMMA WordFacts ==
  /\ WIDTH \in Nat \ {0} /\ Bits \in SUBSET Nat
  /\ \A b \in Bits : b < WIDTH
  /\ SEED \in Word /\ SEED # {}
BY HashAssumption DEF Bits, Word

LEMMA ShiftsAreWords ==
  ASSUME NEW x \in Word, NEW s \in Nat
  PROVE  Xor(x, Shl(x, s)) \in Word /\ Xor(x, Shr(x, s)) \in Word
BY DEF Xor, Shl, Shr, Word

(* x ^ (x << s): the lowest bit in which two words differ is not changed   *)
(* by the bits below it.                                                   *)
LEMMA XorShlInjective ==
  ASSUME NEW x \in Word, NEW y \in Word, NEW s \in Nat \ {0},
         Xor(x, Shl(x, s)) = Xor(y, Shl(y, s))
  PROVE  x = y
<1>1. SUFFICES ASSUME x # y PROVE FALSE OBVIOUS
<1> DEFINE D == Xor(x, y)
<1>2. D \in SUBSET Nat /\ D # {} /\ D \subseteq Bits
  BY <1>1, WordFacts DEF Xor, Word
<1>3. PICK b \in D : \A c \in D : b <= c
  <2> HIDE DEF D
  <2> QED BY <1>2, LeastNumber
<1>4. b \in Nat /\ b \in Bits /\ b - s < b BY <1>2
<1>5. b - s \in x <=> b - s \in y
  <2>1. b - s \notin D
    <3> HIDE DEF D
    <3> QED BY <1>3, <1>4, <1>2
  <2> QED BY <2>1 DEF Xor
<1>6. b \in Shl(x, s) <=> b \in Shl(y, s) BY <1>5 DEF Shl
<1>7. b \in x <=> b \notin y BY <1>3 DEF Xor
<1> QED BY <1>6, <1>7 DEF Xor

(* x ^ (x >> s): the same with the highest bit. *)
LEMMA XorShrInjective ==
  ASSUME NEW x \in Word, NEW y \in Word, NEW s \in Nat \ {0},
         Xor(x, Shr(x, s)) = Xor(y, Shr(y, s))
  PROVE  x = y
<1>1. SUFFICES ASSUME x # y PROVE FALSE OBVIOUS
<1> DEFINE D == Xor(x, y)
           Gaps == {WIDTH - c : c \in D}    \* from the top
<1>2. D \in SUBSET Nat /\ D # {} /\ D \subseteq Bits
  BY <1>1, WordFacts DEF Xor, Word
<1>3. Gaps \in SUBSET Nat /\ Gaps # {}
  <2>1. \A c \in D : WIDTH - c \in Nat
    <3>1. \A c \in Bits : WIDTH - c \in Nat BY WordFacts DEF Bits
    <3> HIDE DEF D
    <3> QED BY <1>2, <3>1
  <2> HIDE DEF D
  <2> QED BY <1>2, <2>1
<1>4. PICK g \in Gaps : \A h \in Gaps : g <= h
  <2> HIDE DEF Gaps
  <2> QED BY <1>3, LeastNumber
<1>5. PICK b \in D : g = WIDTH - b BY <1>4
<1>6. b \in Nat /\ b \in Bits BY <1>2
<1>7. \A c \in D : c <= b
  <2>1. TAKE c \in D
  <2>2. g <= WIDTH - c BY <1>4
  <2>3. c \in Nat BY <1>2
  <2> HIDE DEF D
  <2> QED BY <1>5, <1>6, <2>2, <2>3, WordFacts
<1>8. b + s \in x <=> b + s \in y
  <2>1. b + s \notin D
    <3>1. ~ (b + s <= b) BY <1>6
    <3> HIDE DEF D
    <3> QED BY <1>7, <3>1
  <2> QED BY <2>1 DEF Xor
<1>9. b \in Shr(x, s) <=> b \in Shr(y, s) BY <1>8 DEF Shr
<1>10. b \in x <=> b \notin y BY <1>5 DEF Xor
<1> QED BY <1>9, <1>10 DEF Xor

(* One turn of the generator (lines 40-42) maps words to words, and no two *)
(* of them to the same one: it returns to its seed before it repeats.      *)
THEOREM GeneratorInjective ==
  ASSUME NEW x \in Word
  PROVE  /\ XorShift(x) \in Word
         /\ \A y \in Word : XorShift(x) = XorShift(y) => x = y
<1> DEFINE First(z) == Xor(z, Shl(z, 13))
           Second(z) == Xor(z, Shr(z, 17))
           Third(z) == Xor(z, Shl(z, 5))
<1>1. \A z \in Word : First(z) \in Word /\ Second(z) \in Word /\ Third(z) \in Word
  BY ShiftsAreWords
<1>2. \A z, w \in Word : /\ First(z) = First(w) => z = w
                         /\ Second(z) = Second(w) => z = w
                         /\ Third(z) = Third(w) => z = w
  BY XorShlInjective, XorShrInjective
<1>3. \A z : XorShift(z) = Third(Second(First(z))) BY DEF XorShift
<1> HIDE DEF First, Second, Third
<1>4. XorShift(x) \in Word BY <1>1, <1>3
<1>5. \A y \in Word : XorShift(x) = XorShift(y) => x = y
  <2> SUFFICES ASSUME NEW y \in Word, XorShift(x) = XorShift(y) PROVE x = y
    OBVIOUS
  <2>1. Third(Second(First(x))) = Third(Second(First(y))) BY <1>3
  <2>2. Second(First(x)) = Second(First(y)) BY <2>1, <1>1, <1>2
  <2>3. First(x) = First(y) BY <2>2, <1>1, <1>2
  <2> QED BY <2>3, <1>2
<1> QED BY <1>4, <1>5

LEMMA ZeroStaysZero == {} \in Word /\ XorShift({}) = {}
<1>1. \A s \in Nat : Shl({}, s) = {} /\ Shr({}, s) = {} BY DEF Shl, Shr
<1>2. Xor({}, {}) = {} BY DEF Xor
<1> QED BY <1>1, <1>2 DEF XorShift, Word

(* The generator never reaches zero (lines 36-41 of setup). *)
THEOREM GeneratorNeverStuck == HashSpec => []NeverStuck
<1>1. HashInit => NeverStuck BY WordFacts DEF HashInit, NeverStuck
<1>2. NeverStuck /\ [HashNext]_hashVars => NeverStuck'
  <2> SUFFICES ASSUME NeverStuck, [HashNext]_hashVars PROVE NeverStuck'
    OBVIOUS
  <2>1. CASE SetupLetter
    <3>1. state' = XorShift(state) BY <2>1 DEF SetupLetter
    <3>2. state \in Word /\ state # {} BY DEF NeverStuck
    <3>3. XorShift(state) \in Word BY <3>2, GeneratorInjective
    <3>4. XorShift(state) # {} BY <3>2, ZeroStaysZero, GeneratorInjective
    <3> QED BY <3>1, <3>3, <3>4 DEF NeverStuck
  <2>2. CASE UNCHANGED state BY <2>2 DEF NeverStuck
  <2> QED BY <2>1, <2>2 DEF HashNext, SetupKeyEnds, KeysDone, CountKey,
                            VarianceReturns, hashVars
<1> QED BY <1>1, <1>2, PTL DEF HashSpec

(***************************************************************************)
(* False sharing, for every line size and alignment.  The counters of the  *)
(* padded structure are a line apart, so that they lie on different lines  *)
(* wherever it begins; the lines hold no copies when the threads start,    *)
(* and then only those of the thread that counts there.                    *)
(***************************************************************************)
Running == {"create2", "join1", "join2"}

PhaseInv ==
  /\ pc \in [Threads -> {"idle", "load", "store", "returned"}]
  /\ bench_pc \notin Running => \A t \in Threads : pc[t] = "idle"
  /\ bench_pc = "create2" => pc["t2"] = "idle"
  /\ bench_pc = "join2" => pc["t1"] = "idle"

LinesInv ==
  /\ layout \in {"adjacent", "padded"} /\ base \in Base
  /\ copies \in [Lines -> SUBSET Threads]
  /\ layout = "padded" =>
       /\ disturbed = {}
       /\ bench_pc \in {"create1"} \cup Running =>
            \A t \in Threads : copies[Line(t)] \subseteq {t}

SharingInv == PhaseInv /\ LinesInv

LEMMA LineFacts ==
  ASSUME LinesInv
  PROVE  /\ \A t \in Threads : Line(t) \in Lines
         /\ layout = "padded" => Line("t1") # Line("t2")
<1>1. CACHE_LINE \in Nat \ {0} /\ base \in Nat /\ base \in Base
  BY SharingAssumption DEF LinesInv
<1>2. \A t \in Threads : Line(t) \in Lines
  <2>1. \A t \in Threads : Offset(t) \in {0, 8, CACHE_LINE}
    BY DEF Offset
  <2>2. \A y \in {0, 8, CACHE_LINE} : (base + y) \div CACHE_LINE \in Lines
    BY <1>1 DEF Lines
  <2> QED BY <2>1, <2>2 DEF Line
<1>3. ASSUME layout = "padded" PROVE Line("t1") # Line("t2")
  <2> DEFINE C == CACHE_LINE
             l == base \div C
             m == (base + C) \div C
  <2>1. Line("t1") = l /\ Line("t2") = m
    BY <1>1, <1>3 DEF Line, Offset
  <2>2. /\ l \in Int /\ base % C \in 0 .. C - 1 /\ base = C * l + (base % C)
        /\ m \in Int /\ (base + C) % C \in 0 .. C - 1
        /\ base + C = C * m + ((base + C) % C)
    <3>1. base + C \in Nat /\ C \in Nat \ {0} BY <1>1
    <3> HIDE DEF C
    <3> QED BY <1>1, <3>1, Division
  <2>3. SUFFICES ASSUME l = m PROVE FALSE BY <2>1
  <2> DEFINE r == base % C
             s == (base + C) % C
             e == C * l
  <2>4. e \in Int /\ base = e + r /\ base + C = e + s BY <2>2, <2>3, <1>1
  <2>5. r \in 0 .. C - 1 /\ s \in 0 .. C - 1 /\ C \in Nat BY <2>2, <1>1
  <2> HIDE DEF r, s, e, C
  <2> QED BY <2>4, <2>5, <1>1
<1> QED BY <1>2, <1>3

LEMMA SharingStart == SharingInit => SharingInv
BY DEF SharingInit, SharingInv, PhaseInv, LinesInv, BenchInit, Idle, Threads, Running

LEMMA PhaseStep == PhaseInv /\ [SharingNext]_sharingVars => PhaseInv'
<1> SUFFICES ASSUME PhaseInv, [SharingNext]_sharingVars PROVE PhaseInv' OBVIOUS
<1> USE DEF Threads, Running
<1>1. ASSUME NEW t \in Threads, Load(t) \/ Store(t) \/ ThreadReturns(t)
      PROVE  PhaseInv'
  <2>1. /\ pc[t] # "idle" /\ bench_pc' = bench_pc
        /\ \E to \in {"load", "store", "returned"} : pc' = [pc EXCEPT ![t] = to]
    BY <1>1 DEF Load, Store, ThreadReturns, benchVars
  <2> QED BY <2>1 DEF PhaseInv
<1>2. CASE RunBody
  <2>1. CASE Clear BY <2>1 DEF Clear, Body, threadVars, PhaseInv
  <2>2. CASE Create("t1", "create1", "create2")
    BY <2>2 DEF Create, Body, PhaseInv
  <2>3. CASE Create("t2", "create2", "join1")
    BY <2>3 DEF Create, Body, PhaseInv
  <2>4. CASE Join("t1", "join1", "join2") BY <2>4 DEF Join, Body, PhaseInv
  <2>5. CASE Join("t2", "join2", "end") BY <2>5 DEF Join, Body, PhaseInv
  <2> QED BY <1>2, <2>1, <2>2, <2>3, <2>4, <2>5 DEF RunBody
<1>3. CASE NextBenchmark
  BY <1>3 DEF NextBenchmark, NextBenchRun, threadVars, PhaseInv
<1>4. CASE BenchStep /\ UNCHANGED ownVars
  BY <1>4 DEF BenchStep, Start, EndTurn, bench_stats, ownVars, threadVars, PhaseInv
<1>5. CASE UNCHANGED sharingVars
  BY <1>5 DEF sharingVars, ownVars, threadVars, benchVars, PhaseInv
<1> QED BY <1>1, <1>2, <1>3, <1>4, <1>5 DEF SharingNext

LEMMA LinesStep == SharingInv /\ [SharingNext]_sharingVars => LinesInv'
<1> SUFFICES ASSUME SharingInv, [SharingNext]_sharingVars PROVE LinesInv'
  OBVIOUS
<1>1. PhaseInv /\ LinesInv BY DEF SharingInv
<1>2. /\ \A t \in Threads : Line(t) \in Lines
      /\ layout = "padded" => Line("t1") # Line("t2")
  BY <1>1, LineFacts
<1>3. UNCHANGED structVars => \A t : Line(t)' = Line(t)
  BY DEF structVars, Line, Offset
<1>4. ASSUME NEW t \in Threads, Load(t) \/ Store(t) \/ ThreadReturns(t)
      PROVE  LinesInv'
  <2>1. /\ layout' = layout /\ base' = base /\ bench_pc' = bench_pc
        /\ \A u : Line(u)' = Line(u)
    BY <1>3, <1>4 DEF Load, Store, ThreadReturns, structVars, benchVars
  <2>2. bench_pc \in Running
    BY <1>1, <1>4 DEF PhaseInv, Load, Store, ThreadReturns
  <2>3. \/ /\ copies' = [copies EXCEPT ![Line(t)] = @ \cup {t}]
           /\ disturbed' = disturbed
        \/ /\ copies' = [copies EXCEPT ![Line(t)] = {t}]
           /\ disturbed' = disturbed \cup (copies[Line(t)] \ {t})
        \/ copies' = copies /\ disturbed' = disturbed
    BY <1>4 DEF Load, Store, ThreadReturns, cacheVars
  <2>4. copies \in [Lines -> SUBSET Threads] BY <1>1 DEF LinesInv
  <2>5. copies' \in [Lines -> SUBSET Threads] BY <1>2, <2>3, <2>4
  <2>6. ASSUME layout = "padded"
        PROVE  disturbed' = {} /\ \A u \in Threads : copies'[Line(u)] \subseteq {u}
    <3>1. disturbed = {} /\ \A u \in Threads : copies[Line(u)] \subseteq {u}
      BY <1>1, <2>2, <2>6 DEF LinesInv
    <3>2. \A u \in Threads : u # t => Line(u) # Line(t)
      BY <1>2, <2>6 DEF Threads
    <3>3. \A u \in Threads : u # t => copies'[Line(u)] = copies[Line(u)]
      BY <1>2, <2>3, <2>4, <3>2
    <3>4. copies'[Line(t)] \subseteq {t} BY <1>2, <2>3, <2>4, <3>1
    <3>5. disturbed' = {} BY <2>3, <3>1
    <3> QED BY <3>1, <3>3, <3>4, <3>5
  <2> QED BY <1>1, <2>1, <2>5, <2>6 DEF LinesInv
<1>5. CASE Clear
  <2>1. /\ layout' = layout /\ base' = base /\ \A u : Line(u)' = Line(u)
        /\ copies' = [l \in Lines |-> {}] /\ disturbed' = {}
    BY <1>3, <1>5 DEF Clear, structVars
  <2>2. \A u \in Threads : copies'[Line(u)] = {} BY <1>2, <2>1
  <2> QED BY <1>1, <2>1, <2>2 DEF LinesInv
<1>6. CASE \E t \in Threads, from \in {"create1"} \cup Running, to \in Running \cup {"end"} :
             Create(t, from, to) \/ Join(t, from, to)
  <2>1. /\ layout' = layout /\ base' = base /\ \A u : Line(u)' = Line(u)
        /\ copies' = copies /\ disturbed' = disturbed
        /\ bench_pc \in {"create1"} \cup Running
    BY <1>3, <1>6 DEF Create, Join, Body, structVars, cacheVars
  <2> QED BY <1>1, <2>1 DEF LinesInv
<1>7. CASE NextBenchmark
  BY <1>1, <1>7 DEF NextBenchmark, NextBenchRun, LinesInv, Running
<1>8. CASE (BenchStep /\ UNCHANGED ownVars) \/ UNCHANGED sharingVars
  <2>1. /\ layout' = layout /\ base' = base /\ \A u : Line(u)' = Line(u)
        /\ copies' = copies /\ disturbed' = disturbed
    BY <1>3, <1>8 DEF sharingVars, ownVars, structVars, cacheVars
  <2>2. bench_pc' = bench_pc \/ bench_pc' \in {"start", "body", "end", "stats", "print"}
    BY <1>8 DEF BenchStep, Start, EndTurn, bench_stats, sharingVars, benchVars
  <2> QED BY <1>1, <2>1, <2>2 DEF LinesInv, Running
<1>9. RunBody => Clear \/ \E t \in Threads, from \in {"create1"} \cup Running,
                               to \in Running \cup {"end"} :
                            Create(t, from, to) \/ Join(t, from, to)
  BY DEF RunBody, Threads, Running
<1> QED BY <1>4, <1>5, <1>6, <1>7, <1>8, <1>9 DEF SharingNext

(* "Writes by one thread do not invalidate the other's line" (line 84 of   *)
(* ch02/ex2_2): wherever the padded structure lies, at every line size.    *)
THEOREM PaddingSeparates == SharingSpec => []NoFalseSharing
<1>1. SharingInv => NoFalseSharing BY DEF SharingInv, LinesInv, NoFalseSharing
<1>2. SharingInv /\ [SharingNext]_sharingVars => SharingInv'
  BY PhaseStep, LinesStep DEF SharingInv
<1> QED BY SharingStart, <1>1, <1>2, PTL DEF SharingSpec

(***************************************************************************)
(* Folds.  FoldFunction applies the function that MapThenFoldSet defines   *)
(* on subsets; that such a function exists is no instance of a theorem of  *)
(* the library, so it is proved here: a subset of least size without one   *)
(* would get one from its subsets.  The order of the sum is never used.    *)
(***************************************************************************)
(* Induction over the subsets of a finite set, an element less each time. *)
Some(s) == CHOOSE x \in s : TRUE

LEMMA SomeIn == ASSUME NEW s, s # {} PROVE Some(s) \in s
BY DEF Some

LEMMA SubsetInduction ==
  ASSUME NEW S, IsFiniteSet(S), NEW P,
         \A s \in SUBSET S : (\A r \in SUBSET s : r # s => r \in P) => s \in P
  PROVE  \A s \in SUBSET S : s \in P
<1> DEFINE T == {Cardinality(s) : s \in {r \in SUBSET S : r \notin P}}
<1>1. \A s \in SUBSET S : IsFiniteSet(s) /\ Cardinality(s) \in Nat
  BY FS_Subset, FS_CardinalityType
<1>2. SUFFICES ASSUME T # {} PROVE FALSE OBVIOUS
<1>3. T \in SUBSET Nat BY <1>1
<1>4. PICK m \in T : \A y \in T : m <= y
  <2> HIDE DEF T
  <2> QED BY <1>2, <1>3, LeastNumber
<1>5. PICK s \in SUBSET S : s \notin P /\ m = Cardinality(s) OBVIOUS
<1>6. PICK r \in SUBSET s : r # s /\ r \notin P BY <1>5
<1>7. r \in SUBSET S /\ Cardinality(r) <= Cardinality(s) /\ Cardinality(r) # Cardinality(s)
  BY <1>1, <1>6, FS_Subset
<1>8. m <= Cardinality(r) BY <1>4, <1>6, <1>7
<1> QED BY <1>1, <1>5, <1>7, <1>8

LEMMA SumInduction ==
  ASSUME NEW S, IsFiniteSet(S), NEW P, {} \in P,
         \A s \in SUBSET S : s # {} /\ s \ {Some(s)} \in P => s \in P
  PROVE  \A s \in SUBSET S : s \in P
<1>1. ASSUME NEW s \in SUBSET S, \A r \in SUBSET s : r # s => r \in P PROVE s \in P
  <2>1. s # {} => s \ {Some(s)} \in SUBSET s /\ s \ {Some(s)} # s BY SomeIn
  <2> QED BY <1>1, <2>1
<1> QED BY <1>1, SubsetInduction

IsSum(it, f, S) ==
  it = [s \in SUBSET S |-> IF s = {} THEN 0 ELSE f[Some(s)] + it[s \ {Some(s)}]]

LEMMA SumsAgree ==
  ASSUME NEW f, NEW S, NEW R, IsFiniteSet(S), R \subseteq S,
         NEW it, IsSum(it, f, S), NEW it2, IsSum(it2, f, R)
  PROVE  it[R] = it2[R]
<1> DEFINE P == {s \in SUBSET R : it[s] = it2[s]}
<1>1. IsFiniteSet(R) BY FS_Subset
<1>2. /\ \A s \in SUBSET S : it[s] = IF s = {} THEN 0 ELSE f[Some(s)] + it[s \ {Some(s)}]
      /\ \A s \in SUBSET R : it2[s] = IF s = {} THEN 0 ELSE f[Some(s)] + it2[s \ {Some(s)}]
  BY DEF IsSum
<1>3. {} \in P BY <1>2
<1>4. ASSUME NEW s \in SUBSET R, s # {}, s \ {Some(s)} \in P PROVE s \in P
  BY <1>2, <1>4
<1> HIDE DEF P
<1>5. R \in P BY <1>1, <1>3, <1>4, SumInduction
<1> QED BY <1>5 DEF P

LEMMA SumExists ==
  ASSUME NEW S, IsFiniteSet(S), NEW f
  PROVE  \E it : IsSum(it, f, S)
<1> DEFINE P == {s \in SUBSET S : \E it : IsSum(it, f, s)}
           v(s) == (CHOOSE it : IsSum(it, f, s))[s]
<1>1. ASSUME NEW s \in P, s # {}, s \ {Some(s)} \in P
      PROVE  v(s) = f[Some(s)] + v(s \ {Some(s)})
  <2> DEFINE r == s \ {Some(s)}
             it == CHOOSE it : IsSum(it, f, s)
             it2 == CHOOSE it2 : IsSum(it2, f, r)
  <2>1. IsSum(it, f, s) /\ IsSum(it2, f, r) BY <1>1
  <2>2. IsFiniteSet(s) BY FS_Subset
  <2> HIDE DEF it, it2
  <2>3. it[r] = it2[r] BY <2>1, <2>2, SumsAgree
  <2>4. it[s] = f[Some(s)] + it[r] BY <1>1, <2>1 DEF IsSum
  <2> QED BY <2>3, <2>4 DEF it, it2
<1>2. {} \in P => v({}) = 0
  <2> DEFINE it == CHOOSE it : IsSum(it, f, {})
  <2> SUFFICES ASSUME {} \in P PROVE v({}) = 0 OBVIOUS
  <2>1. IsSum(it, f, {}) OBVIOUS
  <2> HIDE DEF it
  <2>2. it[{}] = 0 BY <2>1 DEF IsSum
  <2> QED BY <2>2 DEF it
<1>3. ASSUME NEW s \in SUBSET S, \A r \in SUBSET s : r # s => r \in P PROVE s \in P
  <2> DEFINE z == [q \in SUBSET s |-> IF q = {} THEN 0 ELSE f[Some(q)] + v(q \ {Some(q)})]
  <2> HIDE DEF P, v
  <2>1. ASSUME NEW q \in SUBSET s, q # {} PROVE z[q \ {Some(q)}] = v(q \ {Some(q)})
    <3> DEFINE r == q \ {Some(q)}
    <3>1. r \in SUBSET s /\ r # s /\ r \in P BY <1>3, <2>1, SomeIn
    <3>2. CASE r = {} BY <1>2, <3>1, <3>2
    <3>3. CASE r # {}
      <4>1. r \ {Some(r)} \in SUBSET s /\ r \ {Some(r)} # s BY <3>1
      <4>2. r \ {Some(r)} \in P BY <1>3, <4>1
      <4>3. v(r) = f[Some(r)] + v(r \ {Some(r)}) BY <1>1, <3>1, <3>3, <4>2
      <4> QED BY <3>1, <3>3, <4>3
    <3> QED BY <3>2, <3>3
  <2>2. IsSum(z, f, s)
    <3>1. \A q \in SUBSET s : z[q] = IF q = {} THEN 0 ELSE f[Some(q)] + z[q \ {Some(q)}]
      BY <2>1
    <3> QED BY <3>1 DEF IsSum
  <2> QED BY <2>2 DEF P
<1> HIDE DEF P
<1>4. S \in P BY <1>3, SubsetInduction
<1> QED BY <1>4 DEF P

(* Total adds one value after the other. *)
Totals(it, f, S) ==
  /\ Total(f) = it[S] /\ it[{}] = 0
  /\ \A s \in SUBSET S : s # {} =>
       Some(s) \in s /\ it[s] = f[Some(s)] + it[s \ {Some(s)}]

LEMMA TotalSum ==
  ASSUME NEW f, NEW S, S = DOMAIN f, IsFiniteSet(S) PROVE \E it : Totals(it, f, S)
<1> DEFINE it == CHOOSE it : IsSum(it, f, S)
<1>1. IsSum(it, f, S) BY SumExists
<1>2. Total(f) = it[S]
  BY DEF Total, FoldFunction, FoldFunctionOnSet, MapThenFoldSet, IsSum, Some
<1> HIDE DEF it
<1>3. it[{}] = 0 BY <1>1 DEF IsSum
<1>4. \A s \in SUBSET S : s # {} => it[s] = f[Some(s)] + it[s \ {Some(s)}] BY <1>1 DEF IsSum
<1>5. Totals(it, f, S) BY <1>2, <1>3, <1>4, SomeIn DEF Totals
<1> QED BY <1>5

LEMMA TotalBetween ==
  ASSUME NEW f, NEW S, S = DOMAIN f, IsFiniteSet(S), NEW lower \in Int, NEW upper \in Int,
         \A x \in S : f[x] \in lower .. upper
  PROVE  Total(f) \in lower * Cardinality(S) .. upper * Cardinality(S)
<1>0. PICK it : Totals(it, f, S) BY TotalSum
<1>1. /\ Total(f) = it[S] /\ it[{}] = 0
      /\ \A s \in SUBSET S : s # {} =>
           Some(s) \in s /\ it[s] = f[Some(s)] + it[s \ {Some(s)}]
  BY <1>0 DEF Totals
<1> DEFINE P == {s \in SUBSET S : it[s] \in lower * Cardinality(s) .. upper * Cardinality(s)}
<1>2. {} \in P
  <2>1. Cardinality({}) = 0 BY FS_EmptySet
  <2>2. 0 \in lower * 0 .. upper * 0 OBVIOUS
  <2> QED BY <1>1, <2>1, <2>2
<1>3. ASSUME NEW s \in SUBSET S, s # {}, s \ {Some(s)} \in P PROVE s \in P
  <2> DEFINE r == s \ {Some(s)}
             fewer == Cardinality(r)
  <2>1. Some(s) \in S /\ it[s] = f[Some(s)] + it[r] BY <1>1, <1>3
  <2>2. IsFiniteSet(s) /\ IsFiniteSet(r) BY FS_Subset
  <2>3. Cardinality(s) = fewer + 1 /\ fewer \in Nat
    <3>1. Some(s) \in s BY <1>3, SomeIn
    <3> QED BY <2>2, <3>1, FS_RemoveElement, FS_CardinalityType
  <2>4. it[r] \in lower * fewer .. upper * fewer /\ f[Some(s)] \in lower .. upper BY <1>3, <2>1
  <2>5. lower * (fewer + 1) = lower * fewer + lower /\ upper * (fewer + 1) = upper * fewer + upper
    <3> HIDE DEF fewer
    <3> QED BY <2>3
  <2>6. lower * fewer \in Int /\ upper * fewer \in Int
    <3> HIDE DEF fewer
    <3> QED BY <2>3
  <2> DEFINE a == lower * fewer
             b == upper * fewer
  <2>7. f[Some(s)] + it[r] \in a + lower .. b + upper
    <3> HIDE DEF a, b, r, fewer
    <3> QED BY <2>4, <2>6 DEF a, b
  <2>8. it[s] \in lower * Cardinality(s) .. upper * Cardinality(s) BY <2>1, <2>3, <2>5, <2>7
  <2> QED BY <2>8
<1> HIDE DEF P
<1>4. S \in P BY <1>2, <1>3, SumInduction
<1> QED BY <1>1, <1>4 DEF P

LEMMA TotalOfNaturals ==
  ASSUME NEW f, NEW S, S = DOMAIN f, IsFiniteSet(S), \A x \in S : f[x] \in Nat
  PROVE  Total(f) \in Nat /\ (Total(f) = 0 <=> \A x \in S : f[x] = 0)
<1>0. PICK it : Totals(it, f, S) BY TotalSum
<1>1. /\ Total(f) = it[S] /\ it[{}] = 0
      /\ \A s \in SUBSET S : s # {} =>
           Some(s) \in s /\ it[s] = f[Some(s)] + it[s \ {Some(s)}]
  BY <1>0 DEF Totals
<1> DEFINE P == {s \in SUBSET S : it[s] \in Nat /\ (it[s] = 0 <=> \A x \in s : f[x] = 0)}
<1>2. {} \in P BY <1>1
<1>3. ASSUME NEW s \in SUBSET S, s # {}, s \ {Some(s)} \in P PROVE s \in P
  <2>1. Some(s) \in s /\ it[s] = f[Some(s)] + it[s \ {Some(s)}] /\ f[Some(s)] \in Nat
    BY <1>1, <1>3
  <2>2. it[s] \in Nat /\ (it[s] = 0 <=> f[Some(s)] = 0 /\ it[s \ {Some(s)}] = 0)
    BY <1>3, <2>1
  <2>3. (\A x \in s : f[x] = 0) <=> f[Some(s)] = 0 /\ \A x \in s \ {Some(s)} : f[x] = 0
    BY <2>1
  <2> QED BY <1>3, <2>2, <2>3
<1> HIDE DEF P
<1>4. S \in P BY <1>2, <1>3, SumInduction
<1> QED BY <1>1, <1>4 DEF P

LEMMA LeastOf ==
  ASSUME NEW S, S # {}, NEW lower \in Int, NEW upper \in Int, S \subseteq lower .. upper
  PROVE  /\ Min(S) \in S /\ \A x \in S : Min(S) <= x
         /\ Max(S) \in S /\ \A x \in S : x <= Max(S)
<1>1. \E x \in S : \A y \in S : x <= y
  <2> DEFINE T == {x - lower : x \in S}
  <2>1. T \in SUBSET Nat /\ T # {}
    <3>1. \A x \in S : x \in Int /\ x - lower \in Nat OBVIOUS
    <3>2. T \in SUBSET Nat BY <3>1
    <3>3. PICK x \in S : TRUE OBVIOUS
    <3>4. x - lower \in T OBVIOUS
    <3> QED BY <3>2, <3>4
  <2> HIDE DEF T
  <2>2. PICK m \in T : \A y \in T : m <= y BY <2>1, LeastNumber
  <2>3. PICK x \in S : m = x - lower BY DEF T
  <2>4. ASSUME NEW y \in S PROVE x <= y
    <3>1. y - lower \in T BY DEF T
    <3> QED BY <2>2, <2>3, <3>1
  <2> QED BY <2>4
<1>2. \E x \in S : \A y \in S : x >= y
  <2> DEFINE T == {upper - x : x \in S}
  <2>1. T \in SUBSET Nat /\ T # {}
    <3>1. \A x \in S : x \in Int /\ upper - x \in Nat OBVIOUS
    <3>2. T \in SUBSET Nat BY <3>1
    <3>3. PICK x \in S : TRUE OBVIOUS
    <3>4. upper - x \in T OBVIOUS
    <3> QED BY <3>2, <3>4
  <2> HIDE DEF T
  <2>2. PICK m \in T : \A y \in T : m <= y BY <2>1, LeastNumber
  <2>3. PICK x \in S : m = upper - x BY DEF T
  <2>4. ASSUME NEW y \in S PROVE x >= y
    <3>1. upper - y \in T BY DEF T
    <3> QED BY <2>2, <2>3, <3>1
  <2> QED BY <2>4
<1>3. Min(S) \in S /\ \A y \in S : Min(S) <= y BY <1>1 DEF Min
<1>4. Max(S) \in S /\ \A y \in S : Max(S) >= y BY <1>2 DEF Max
<1> QED BY <1>3, <1>4

(* What bench_stats computes of samples between lower and upper. *)
StatsWithin(st, num, lower, upper) ==
  /\ st.min \in lower .. upper /\ st.max \in st.min .. upper
  /\ st.sum \in st.min * num .. st.max * num
  /\ (st.var = 0) = (st.min = st.max)

LEMMA StatsFacts ==
  ASSUME NEW lower \in Int, NEW upper \in Int, NEW s \in Seq(lower .. upper), Len(s) # 0
  PROVE  StatsWithin(StatsOf(s), Len(s), lower, upper)
<1> DEFINE len == Len(s)
           S == ToSet(s)
           sum0 == Total(s)
           sq == [x \in 1 .. len |-> (len * s[x] - sum0) * (len * s[x] - sum0)]
           least == Min(S)
           most == Max(S)
<1>1. len \in Nat \ {0} /\ DOMAIN s = 1 .. len /\ \A x \in 1 .. len : s[x] \in lower .. upper OBVIOUS
<1>2. S # {} /\ S \subseteq lower .. upper /\ \A y : y \in S <=> \E x \in 1 .. len : y = s[x]
  BY <1>1 DEF ToSet
<1>3. IsFiniteSet(1 .. len) /\ Cardinality(1 .. len) = len BY <1>1, FS_Interval
<1>4. /\ least \in S /\ \A x \in S : least <= x
      /\ most \in S /\ \A x \in S : x <= most
  <2> HIDE DEF S
  <2> QED BY <1>2, LeastOf
<1>5. least \in lower .. upper /\ most \in least .. upper BY <1>2, <1>4
<1>6. StatsOf(s) = [min |-> least, max |-> most, sum |-> sum0, var |-> Total(sq)]
  BY <1>1 DEF StatsOf
<1> HIDE DEF S, least, most
<1>7. sum0 \in least * len .. most * len
  <2>1. \A x \in 1 .. len : s[x] \in least .. most BY <1>1, <1>2, <1>4, <1>5
  <2> HIDE DEF len
  <2>2. Total(s) \in least * Cardinality(1 .. len) .. most * Cardinality(1 .. len)
    <3>1. least \in Int /\ most \in Int /\ DOMAIN s = 1 .. len BY <1>1, <1>5
    <3> QED BY <1>3, <2>1, <3>1, TotalBetween
  <2> QED BY <1>3, <2>2
<1> HIDE DEF len, sum0
<1>8. sum0 \in Int BY <1>1, <1>5, <1>7
<1>9. DOMAIN sq = 1 .. len
      /\ \A x \in 1 .. len : sq[x] \in Nat /\ (sq[x] = 0 <=> len * s[x] = sum0)
  <2> SUFFICES ASSUME NEW x \in 1 .. len
               PROVE  sq[x] \in Nat /\ (sq[x] = 0 <=> len * s[x] = sum0) OBVIOUS
  <2> DEFINE d == len * s[x] - sum0
  <2>1. len * s[x] \in Int /\ d \in Int BY <1>1, <1>8
  <2>2. sq[x] = d * d OBVIOUS
  <2> HIDE DEF d
  <2>3. d * d \in Nat /\ (d * d = 0 <=> d = 0) BY <2>1
  <2> QED BY <2>1, <2>2, <2>3, <1>8 DEF d
<1> HIDE DEF sq
<1>10. Total(sq) = 0 <=> \A x \in 1 .. len : len * s[x] = sum0 BY <1>3, <1>9, TotalOfNaturals
<1>11. (\A x \in 1 .. len : len * s[x] = sum0) <=> least = most
  <2>1. PICK x \in 1 .. len, y \in 1 .. len : least = s[x] /\ most = s[y] BY <1>2, <1>4
  <2>2. ASSUME \A z \in 1 .. len : len * s[z] = sum0 PROVE least = most
    <3>1. len * least = len * most BY <2>1, <2>2
    <3> QED BY <1>1, <1>5, <3>1
  <2>3. ASSUME least = most, NEW z \in 1 .. len PROVE len * s[z] = sum0
    <3>1. s[z] = least BY <1>1, <1>2, <1>4, <1>5, <2>3
    <3>2. sum0 = least * len BY <1>1, <1>5, <1>7, <2>3
    <3> QED BY <1>1, <1>5, <3>1, <3>2
  <2> QED BY <2>2, <2>3
<1>12. (Total(sq) = 0) = (least = most) BY <1>10, <1>11
<1> QED BY <1>5, <1>6, <1>7, <1>12 DEF StatsWithin, len

(***************************************************************************)
(* The variances of chapter 7.  Whatever the hash functions compute, their *)
(* values land in a bucket; the squares of the counts grow by twice the    *)
(* keys already in the bucket of the next key, and one, and these keys are *)
(* its collisions.                                                         *)
(***************************************************************************)
LEMMA StepByStep ==
  ASSUME NEW w \in Nat, NEW P, 0 \in P, \A m \in 0 .. w - 1 : m \in P => m + 1 \in P
  PROVE  \A m \in 0 .. w : m \in P
<1> DEFINE T == {m \in 0 .. w : m \notin P}
<1>1. SUFFICES ASSUME T # {} PROVE FALSE OBVIOUS
<1>2. T \in SUBSET Nat OBVIOUS
<1>3. PICK m \in T : \A y \in T : m <= y
  <2> HIDE DEF T
  <2> QED BY <1>1, <1>2, LeastNumber
<1>4. m # 0 /\ m - 1 \in 0 .. w - 1 /\ (m - 1) + 1 = m BY <1>3
<1>5. m - 1 \in T BY <1>3, <1>4
<1> QED BY <1>3, <1>4, <1>5

(* The long division of Rem, from the bits at and above c.                 *)
Divides(rest, x, m, c) ==
  rest = [b \in c .. WIDTH |->
            IF b = WIDTH THEN 0 ELSE (2 * rest[b + 1] + (IF b \in x THEN 1 ELSE 0)) % m]

LEMMA DivisionExists ==
  ASSUME NEW x, NEW m \in Nat \ {0} PROVE \E rest : Divides(rest, x, m, 0)
<1> DEFINE P == {w \in 0 .. WIDTH : \E rest : Divides(rest, x, m, WIDTH - w)}
<1>0. WIDTH \in Nat BY WordFacts
<1>1. 0 \in P
  <2>1. Divides([b \in WIDTH .. WIDTH |-> 0], x, m, WIDTH) BY <1>0 DEF Divides
  <2>2. WIDTH - 0 = WIDTH /\ 0 \in 0 .. WIDTH BY <1>0
  <2> QED BY <2>1, <2>2
<1>2. ASSUME NEW w \in 0 .. WIDTH - 1, w \in P PROVE w + 1 \in P
  <2> DEFINE c == WIDTH - (w + 1)
  <2>1. c \in Nat /\ c < WIDTH /\ WIDTH - w = c + 1 /\ w + 1 \in 0 .. WIDTH BY <1>0
  <2>2. PICK rest : Divides(rest, x, m, c + 1) BY <1>2, <2>1
  <2> DEFINE more == [b \in c .. WIDTH |->
               IF b = c THEN (2 * rest[c + 1] + (IF c \in x THEN 1 ELSE 0)) % m ELSE rest[b]]
  <2> HIDE DEF c
  <2>3. \A b \in c .. WIDTH : more[b] =
          IF b = WIDTH THEN 0 ELSE (2 * more[b + 1] + (IF b \in x THEN 1 ELSE 0)) % m
    <3> SUFFICES ASSUME NEW b \in c .. WIDTH PROVE more[b] =
          IF b = WIDTH THEN 0 ELSE (2 * more[b + 1] + (IF b \in x THEN 1 ELSE 0)) % m
      OBVIOUS
    <3>1. c + 1 \in c .. WIDTH /\ c + 1 # c BY <1>0, <2>1
    <3>2. more[c + 1] = rest[c + 1] BY <3>1
    <3>3. CASE b = c
      <4>1. more[c] = (2 * rest[c + 1] + (IF c \in x THEN 1 ELSE 0)) % m BY <3>3
      <4>2. c # WIDTH BY <2>1
      <4> HIDE DEF more
      <4> QED BY <3>2, <3>3, <4>1, <4>2
    <3>4. CASE b # c
      <4>1. b \in c + 1 .. WIDTH /\ (b # WIDTH => b + 1 \in c .. WIDTH /\ b + 1 # c)
        BY <1>0, <2>1, <3>4
      <4>2. more[b] = rest[b] /\ (b # WIDTH => more[b + 1] = rest[b + 1]) BY <3>4, <4>1
      <4>3. rest[b] = IF b = WIDTH THEN 0
                      ELSE (2 * rest[b + 1] + (IF b \in x THEN 1 ELSE 0)) % m
        BY <2>2, <4>1 DEF Divides
      <4> QED BY <4>2, <4>3
    <3> QED BY <3>3, <3>4
  <2>4. Divides(more, x, m, c)
    <3> DEFINE step(b) == IF b = WIDTH THEN 0
                          ELSE (2 * more[b + 1] + (IF b \in x THEN 1 ELSE 0)) % m
    <3>1. more = [b \in c .. WIDTH |-> more[b]] OBVIOUS
    <3>2. \A b \in c .. WIDTH : more[b] = step(b) BY <2>3
    <3> HIDE DEF more, step
    <3>3. more = [b \in c .. WIDTH |-> step(b)] BY <3>1, <3>2
    <3> QED BY <3>3 DEF step, Divides
  <2> QED BY <2>1, <2>4 DEF c
<1> HIDE DEF P
<1>3. WIDTH \in P BY <1>0, <1>1, <1>2, StepByStep
<1> QED BY <1>0, <1>3 DEF P

LEMMA RemFacts ==
  ASSUME NEW x, NEW m \in Nat \ {0} PROVE Rem(x, m) \in 0 .. m - 1
<1> DEFINE rest == CHOOSE rest : Divides(rest, x, m, 0)
           P == {w \in 0 .. WIDTH : rest[WIDTH - w] \in 0 .. m - 1}
<1>0. WIDTH \in Nat BY WordFacts
<1>1. Rem(x, m) = rest[0] BY DEF Rem, Divides
<1>2. Divides(rest, x, m, 0) BY DivisionExists
<1> HIDE DEF rest
<1>3. \A b \in 0 .. WIDTH : rest[b] =
        IF b = WIDTH THEN 0 ELSE (2 * rest[b + 1] + (IF b \in x THEN 1 ELSE 0)) % m
  BY <1>2 DEF Divides
<1>4. 0 \in P
  <2>1. rest[WIDTH] = 0 BY <1>0, <1>3
  <2> QED BY <1>0, <2>1
<1>5. ASSUME NEW w \in 0 .. WIDTH - 1, w \in P PROVE w + 1 \in P
  <2> DEFINE b == WIDTH - (w + 1)
             z == 2 * rest[b + 1] + (IF b \in x THEN 1 ELSE 0)
  <2>1. b \in 0 .. WIDTH /\ b # WIDTH /\ WIDTH - w = b + 1 /\ w + 1 \in 0 .. WIDTH BY <1>0
  <2>2. rest[b + 1] \in 0 .. m - 1 BY <1>5, <2>1
  <2> HIDE DEF b
  <2>3. z \in Nat BY <2>2
  <2>4. rest[b] = z % m BY <1>3, <2>1
  <2> HIDE DEF z
  <2>5. rest[b] \in 0 .. m - 1 BY <2>3, <2>4
  <2> QED BY <2>1, <2>5 DEF b
<1> HIDE DEF P
<1>6. WIDTH \in P BY <1>0, <1>4, <1>5, StepByStep
<1> QED BY <1>0, <1>1, <1>6 DEF P

(***************************************************************************)
(* Sums of the counts of all buckets.                                      *)
(***************************************************************************)
LEMMA TotalAdds ==
  ASSUME NEW S, IsFiniteSet(S), NEW f, DOMAIN f = S, \A s \in S : f[s] \in Int,
         NEW b \in S,
         NEW g, DOMAIN g = S, \A s \in S : s # b => g[s] = f[s], g[b] \in Int
  PROVE  Total(f) \in Int /\ Total(g) = Total(f) + (g[b] - f[b])
<1> DEFINE more == g[b] - f[b]
<1>1. /\ more \in Int
      /\ \A s \in S : f[s] \in Int /\ g[s] = f[s] + (IF s = b THEN more ELSE 0)
  OBVIOUS
<1> HIDE DEF more
<1>2. PICK it : Totals(it, f, S) BY <1>1, TotalSum
<1>3. PICK it2 : Totals(it2, g, S) BY <1>1, TotalSum
<1> DEFINE P == {s \in SUBSET S : it[s] \in Int
                               /\ it2[s] = it[s] + (IF b \in s THEN more ELSE 0)}
<1>4. {} \in P BY <1>2, <1>3 DEF Totals
<1>5. ASSUME NEW s \in SUBSET S, s # {}, s \ {Some(s)} \in P PROVE s \in P
  <2> DEFINE e == Some(s)
             r == s \ {e}
  <2>1. e \in s /\ it[s] = f[e] + it[r] /\ it2[s] = g[e] + it2[r]
    BY <1>2, <1>3, <1>5 DEF Totals
  <2>2. it[r] \in Int /\ it2[r] = it[r] + (IF b \in r THEN more ELSE 0) BY <1>5
  <2>3. f[e] \in Int /\ g[e] = f[e] + (IF e = b THEN more ELSE 0) BY <1>1, <2>1
  <2>4. (b \in s <=> e = b \/ b \in r) /\ (e = b => b \notin r) BY <2>1
  <2> HIDE DEF e, r
  <2>5. it[s] \in Int /\ it2[s] = it[s] + (IF b \in s THEN more ELSE 0)
    BY <1>1, <2>1, <2>2, <2>3, <2>4
  <2> QED BY <2>5
<1> HIDE DEF P
<1>6. S \in P BY <1>4, <1>5, SumInduction
<1> QED BY <1>2, <1>3, <1>6 DEF P, Totals, more

LEMMA SquareOfDifference ==
  ASSUME NEW t \in Int, NEW n0 \in Int, NEW c \in Int, NEW q \in Int, NEW u \in Int, NEW z \in Int
  PROVE  (t * c - n0) * (t * c - n0) + (t * t * q - 2 * (t * n0 * u) + n0 * n0 * z)
           = t * t * (c * c + q) - 2 * (t * n0 * (c + u)) + n0 * n0 * (z + 1)
OBVIOUS

(***************************************************************************)
(* The keys of a bucket, and the pairs that share one, among the first w   *)
(* keys; B has the bucket of each.                                         *)
(***************************************************************************)
InBucket(B, w, b) == {m \in 0 .. w - 1 : B[m] = b}
Sharing(B, w) == {p \in (0 .. w - 1) \X (0 .. w - 1) : p[1] < p[2] /\ B[p[1]] = B[p[2]]}

LEMMA BucketGrows ==
  ASSUME NEW B, NEW w \in Nat, NEW b
  PROVE  /\ IsFiniteSet(InBucket(B, w, b)) /\ Cardinality(InBucket(B, w, b)) \in Nat
         /\ Cardinality(InBucket(B, 0, b)) = 0
         /\ Cardinality(InBucket(B, w + 1, b))
              = Cardinality(InBucket(B, w, b)) + (IF B[w] = b THEN 1 ELSE 0)
<1>1. IsFiniteSet(0 .. w - 1) BY FS_Interval
<1>2. IsFiniteSet(InBucket(B, w, b)) /\ Cardinality(InBucket(B, w, b)) \in Nat
  BY <1>1, FS_Subset, FS_CardinalityType DEF InBucket
<1>3. InBucket(B, 0, b) = {}
  <2>1. 0 .. 0 - 1 = {} OBVIOUS
  <2> QED BY <2>1 DEF InBucket
<1>4. 0 .. (w + 1) - 1 = (0 .. w - 1) \cup {w} /\ w \notin 0 .. w - 1 OBVIOUS
<1>5. CASE B[w] = b
  <2>1. InBucket(B, w + 1, b) = InBucket(B, w, b) \cup {w} /\ w \notin InBucket(B, w, b)
    BY <1>4, <1>5 DEF InBucket
  <2>2. Cardinality(InBucket(B, w + 1, b)) = Cardinality(InBucket(B, w, b)) + 1
    BY <1>2, <2>1, FS_AddElement
  <2> QED BY <1>2, <1>3, <1>5, <2>2, FS_EmptySet
<1>6. CASE B[w] # b
  <2>1. InBucket(B, w + 1, b) = InBucket(B, w, b) BY <1>4, <1>6 DEF InBucket
  <2> QED BY <1>2, <1>3, <1>6, <2>1, FS_EmptySet
<1> QED BY <1>5, <1>6

LEMMA SharingGrows ==
  ASSUME NEW B, NEW w \in Nat
  PROVE  /\ IsFiniteSet(Sharing(B, w)) /\ Cardinality(Sharing(B, w)) \in Nat
         /\ Cardinality(Sharing(B, 0)) = 0
         /\ Cardinality(Sharing(B, w + 1))
              = Cardinality(Sharing(B, w)) + Cardinality(InBucket(B, w, B[w]))
<1> DEFINE I == InBucket(B, w, B[w])
           J == I \X {w}
           S == Sharing(B, w)
<1>1. IsFiniteSet(0 .. w - 1) /\ IsFiniteSet(I) BY FS_Interval, BucketGrows
<1>2. IsFiniteSet(S) /\ Cardinality(S) \in Nat
  <2>1. IsFiniteSet((0 .. w - 1) \X (0 .. w - 1)) BY <1>1, FS_Product
  <2>2. S \subseteq (0 .. w - 1) \X (0 .. w - 1) BY DEF Sharing
  <2> QED BY <2>1, <2>2, FS_Subset, FS_CardinalityType
<1>3. Sharing(B, 0) = {}
  <2>1. 0 .. 0 - 1 = {} OBVIOUS
  <2> QED BY <2>1 DEF Sharing
<1>4. IsFiniteSet(J) /\ Cardinality(J) = Cardinality(I)
  <2>1. IsFiniteSet({w}) /\ Cardinality({w}) = 1 BY FS_Singleton
  <2>2. Cardinality(I) \in Nat BY <1>1, FS_CardinalityType
  <2>3. IsFiniteSet(J) /\ Cardinality(J) = Cardinality(I) * 1 BY <1>1, <2>1, FS_Product
  <2> QED BY <2>2, <2>3
<1>5. Sharing(B, w + 1) = S \cup J /\ S \cap J = {}
  <2>1. 0 .. (w + 1) - 1 = (0 .. w - 1) \cup {w} /\ w \notin 0 .. w - 1 OBVIOUS
  <2>2. ASSUME NEW p \in Sharing(B, w + 1) PROVE p \in S \cup J
    <3>1. /\ p \in (0 .. w) \X (0 .. w) /\ p = <<p[1], p[2]>> /\ p[1] < p[2]
          /\ B[p[1]] = B[p[2]]
      BY <2>1, <2>2 DEF Sharing
    <3>2. p[1] \in 0 .. w - 1 BY <3>1
    <3>3. CASE p[2] = w
      <4>1. p[1] \in I BY <3>1, <3>2, <3>3 DEF InBucket
      <4> QED BY <3>1, <3>3, <4>1
    <3>4. CASE p[2] # w
      <4>1. p[2] \in 0 .. w - 1 BY <3>1, <3>4
      <4> QED BY <3>1, <3>2, <4>1 DEF Sharing
    <3> QED BY <3>3, <3>4
  <2>3. S \subseteq Sharing(B, w + 1) BY <2>1 DEF Sharing
  <2>4. ASSUME NEW p \in J PROVE p \in Sharing(B, w + 1) /\ p \notin S
    <3>1. p[1] \in 0 .. w - 1 /\ p[2] = w /\ p = <<p[1], p[2]>> /\ B[p[1]] = B[w]
      BY <2>4 DEF InBucket
    <3>2. p[1] < p[2] BY <3>1
    <3> QED BY <2>1, <3>1, <3>2 DEF Sharing
  <2> HIDE DEF S, J
  <2> QED BY <2>2, <2>3, <2>4
<1> HIDE DEF S, J
<1>6. Cardinality(S \cup J) = Cardinality(S) + Cardinality(J) - Cardinality({})
  BY <1>2, <1>4, <1>5, FS_Union
<1>7. Cardinality(I) \in Nat BY <1>1, FS_CardinalityType
<1>8. Cardinality({}) = 0 BY FS_EmptySet
<1>9. Cardinality(Sharing(B, w + 1)) = Cardinality(S) + Cardinality(I)
  BY <1>2, <1>4, <1>5, <1>6, <1>7, <1>8
<1> QED BY <1>2, <1>3, <1>8, <1>9 DEF S

(* While a function is measured: the counts of the first key_i keys.       *)
BucketOf(f) == [m \in 0 .. NUM_KEYS - 1 |-> Bucket(f, hash_keys[m])]
SquaredCounts == [b \in HashBuckets |-> counts[b] * counts[b]]
CountsInv(f) ==
  LET B == BucketOf(f) IN
  /\ counts \in [HashBuckets -> Nat]
  /\ \A b \in HashBuckets : counts[b] = Cardinality(InBucket(B, key_i, b))
  /\ Total(counts) = key_i
  /\ Total(SquaredCounts) = key_i + 2 * Cardinality(Sharing(B, key_i))

(* The functions whose variance is known. *)
Measured == CASE hash_pc = "done" -> Fns
              [] hash_pc = "hash_fnv1a" -> {"hash_sum"}
              [] hash_pc = "hash_murmur3" -> {"hash_sum", "hash_fnv1a"}
              [] OTHER -> {}
CountsCollisions(f) ==
  variance[f] =
    TABLE_SIZE * (TABLE_SIZE * (NUM_KEYS + 2 * Collisions(f)) - NUM_KEYS * NUM_KEYS)

VarianceInv ==
  /\ hash_pc \in {"setup", "done"} \cup Fns
  /\ key_i \in 0 .. NUM_KEYS /\ DOMAIN hash_keys = 0 .. NUM_KEYS - 1
  /\ hash_pc = "setup" => counts = Empty
  /\ hash_pc \in Fns => CountsInv(hash_pc)
  /\ DOMAIN variance = Fns /\ \A f \in Measured : CountsCollisions(f)

LEMMA TableFacts ==
  /\ TABLE_SIZE \in Nat \ {0} /\ NUM_KEYS \in Nat \ {0} /\ KEY_LEN \in Nat \ {0}
  /\ IsFiniteSet(HashBuckets) /\ Cardinality(HashBuckets) = TABLE_SIZE
  /\ Fns = {"hash_sum", "hash_fnv1a", "hash_murmur3"}
<1>1. TABLE_SIZE \in Nat \ {0} /\ NUM_KEYS \in Nat \ {0} /\ KEY_LEN \in Nat \ {0}
  BY HashAssumption
<1>2. IsFiniteSet(0 .. TABLE_SIZE - 1) /\ Cardinality(0 .. TABLE_SIZE - 1) = TABLE_SIZE
  BY <1>1, FS_Interval
<1>3. Fns = {"hash_sum", "hash_fnv1a", "hash_murmur3"} BY DEF Fns, HashFunctions
<1> QED BY <1>1, <1>2, <1>3 DEF HashBuckets

LEMMA NothingCounted ==
  counts = Empty /\ key_i = 0 => \A f : CountsInv(f)
<1> SUFFICES ASSUME counts = Empty, key_i = 0, NEW f PROVE CountsInv(f) OBVIOUS
<1> DEFINE B == BucketOf(f)
<1>1. counts \in [HashBuckets -> Nat] /\ DOMAIN counts = HashBuckets
      /\ \A b \in HashBuckets : counts[b] = 0
  BY DEF Empty
<1>2. DOMAIN SquaredCounts = HashBuckets /\ \A b \in HashBuckets : SquaredCounts[b] = 0
  BY <1>1 DEF SquaredCounts
<1>3. Total(counts) = 0 /\ Total(SquaredCounts) = 0 BY <1>1, <1>2, TableFacts, TotalOfNaturals
<1> HIDE DEF B
<1>4. \A b \in HashBuckets : Cardinality(InBucket(B, 0, b)) = 0 BY BucketGrows
<1>5. Cardinality(Sharing(B, 0)) = 0 BY SharingGrows
<1> QED BY <1>1, <1>3, <1>4, <1>5 DEF CountsInv, B

LEMMA KeyCounted ==
  ASSUME NEW f, CountsInv(f), CountKey, hash_pc = f, key_i \in Nat
  PROVE  CountsInv(f)'
<1> DEFINE B == BucketOf(f)
           w == key_i
           e == B[w]
<1>1. /\ key_i \in 0 .. NUM_KEYS - 1 /\ key_i' = key_i + 1 /\ hash_keys' = hash_keys
      /\ counts' = [counts EXCEPT ![Bucket(f, hash_keys[key_i])] = @ + 1]
  BY TableFacts DEF CountKey
<1>2. B' = B BY <1>1 DEF BucketOf
<1>3. e = Bucket(f, hash_keys[key_i]) /\ e \in HashBuckets
  <2>1. e = Bucket(f, hash_keys[key_i]) BY <1>1 DEF BucketOf
  <2>2. Bucket(f, hash_keys[key_i]) \in 0 .. TABLE_SIZE - 1
    BY TableFacts, RemFacts DEF Bucket
  <2> HIDE DEF e
  <2> QED BY <2>1, <2>2 DEF HashBuckets
<1>4. /\ counts \in [HashBuckets -> Nat]
      /\ \A b \in HashBuckets : counts[b] = Cardinality(InBucket(B, w, b))
      /\ Total(counts) = w /\ Total(SquaredCounts) = w + 2 * Cardinality(Sharing(B, w))
  BY DEF CountsInv
<1> HIDE DEF B
<1>5. counts' = [counts EXCEPT ![e] = @ + 1] BY <1>1, <1>3
<1> HIDE DEF e
<1>6. counts' \in [HashBuckets -> Nat]
      /\ \A b \in HashBuckets : counts'[b] = counts[b] + (IF b = e THEN 1 ELSE 0)
  BY <1>3, <1>4, <1>5
<1>7. /\ DOMAIN counts = HashBuckets /\ DOMAIN counts' = HashBuckets
      /\ \A b \in HashBuckets : counts[b] \in Int /\ (b # e => counts'[b] = counts[b])
      /\ counts'[e] \in Int /\ counts'[e] - counts[e] = 1
  BY <1>3, <1>4, <1>6
<1>8. Total(counts') = w + 1
  <2>1. Total(counts') = Total(counts) + (counts'[e] - counts[e])
    BY <1>3, <1>7, TableFacts, TotalAdds
  <2> QED BY <1>1, <1>4, <1>7, <2>1
<1>9. ASSUME NEW b \in HashBuckets PROVE counts'[b] = Cardinality(InBucket(B, w + 1, b))
  BY <1>1, <1>4, <1>6, BucketGrows DEF e
<1>10. Total(SquaredCounts') = w + 1 + 2 * Cardinality(Sharing(B, w + 1))
  <2> DEFINE c == counts[e]
             sq == SquaredCounts
  <2>1. c \in Nat /\ c = Cardinality(InBucket(B, w, e)) BY <1>3, <1>4
  <2>2. sq \in [HashBuckets -> Int] /\ \A b \in HashBuckets : sq[b] = counts[b] * counts[b]
    BY <1>4 DEF SquaredCounts
  <2>3. /\ DOMAIN sq = HashBuckets /\ DOMAIN SquaredCounts' = HashBuckets
        /\ \A b \in HashBuckets : /\ sq[b] \in Int
                                 /\ SquaredCounts'[b] = sq[b] + (IF b = e THEN 2 * c + 1 ELSE 0)
    <3>1. (c + 1) * (c + 1) = c * c + (2 * c + 1) BY <2>1
    <3>2. /\ DOMAIN SquaredCounts' = HashBuckets
          /\ \A b \in HashBuckets : SquaredCounts'[b] = counts'[b] * counts'[b]
      BY DEF SquaredCounts, HashBuckets
    <3>3. ASSUME NEW b \in HashBuckets
          PROVE  counts'[b] * counts'[b] = sq[b] + (IF b = e THEN 2 * c + 1 ELSE 0)
      <4>1. CASE b = e
        <5>1. counts'[b] = c + 1 BY <1>6, <4>1
        <5>2. sq[b] = c * c BY <2>2, <4>1
        <5> HIDE DEF c, sq
        <5> QED BY <3>1, <4>1, <5>1, <5>2
      <4>2. CASE b # e
        <5>1. counts'[b] = counts[b] /\ counts[b] \in Nat BY <1>4, <1>6, <4>2
        <5>2. sq[b] = counts[b] * counts[b] /\ sq[b] \in Int BY <2>2
        <5> HIDE DEF c, sq
        <5> QED BY <4>2, <5>1, <5>2
      <4> QED BY <4>1, <4>2
    <3> HIDE DEF c, sq
    <3> QED BY <2>2, <3>2, <3>3
  <2>4. Total(SquaredCounts') = Total(sq) + (2 * c + 1)
    <3> DEFINE sq2 == SquaredCounts'
    <3>1. /\ DOMAIN sq2 = HashBuckets
          /\ \A b \in HashBuckets : b # e => sq2[b] = sq[b]
          /\ sq2[e] \in Int /\ sq2[e] - sq[e] = 2 * c + 1
      <4>1. 2 * c + 1 \in Int BY <2>1
      <4> HIDE DEF c, sq, sq2
      <4> QED BY <1>3, <2>3, <4>1 DEF sq2
    <3> HIDE DEF c, sq, sq2
    <3>2. Total(sq2) = Total(sq) + (sq2[e] - sq[e])
      BY <1>3, <2>3, <3>1, TableFacts, TotalAdds
    <3> QED BY <3>1, <3>2 DEF sq2
  <2>5. /\ Cardinality(Sharing(B, w)) \in Nat
        /\ Cardinality(Sharing(B, w + 1)) = Cardinality(Sharing(B, w)) + c
    BY <1>1, <2>1, SharingGrows DEF e
  <2> HIDE DEF c
  <2> QED BY <1>1, <1>4, <2>1, <2>4, <2>5
<1> QED BY <1>1, <1>2, <1>6, <1>8, <1>9, <1>10 DEF CountsInv, B

LEMMA TotalOfDifferences ==
  ASSUME NEW c, DOMAIN c = HashBuckets, \A b \in HashBuckets : c[b] \in Int,
         NEW sq, sq = [b \in HashBuckets |-> c[b] * c[b]],
         NEW df, df = [b \in HashBuckets |->
                         (TABLE_SIZE * c[b] - NUM_KEYS) * (TABLE_SIZE * c[b] - NUM_KEYS)]
  PROVE  /\ Total(sq) \in Int /\ Total(c) \in Int
         /\ Total(df) = TABLE_SIZE * TABLE_SIZE * Total(sq)
                         - 2 * (TABLE_SIZE * NUM_KEYS * Total(c))
                         + NUM_KEYS * NUM_KEYS * TABLE_SIZE
<1> DEFINE S == HashBuckets
           t == TABLE_SIZE
           n0 == NUM_KEYS
           sum3(q, u, z) == t * t * q - 2 * (t * n0 * u) + n0 * n0 * z
<1>0. IsFiniteSet(S) /\ Cardinality(S) = t /\ t \in Int /\ n0 \in Int BY TableFacts
<1>1. /\ DOMAIN c = S /\ DOMAIN sq = S /\ DOMAIN df = S
      /\ \A s \in S : /\ c[s] \in Int /\ sq[s] = c[s] * c[s]
                      /\ df[s] = (t * c[s] - n0) * (t * c[s] - n0)
  OBVIOUS
<1> HIDE DEF S, t, n0
<1>2. PICK it : Totals(it, c, S) BY <1>0, <1>1, TotalSum
<1>3. PICK it2 : Totals(it2, sq, S) BY <1>0, <1>1, TotalSum
<1>4. PICK it3 : Totals(it3, df, S) BY <1>0, <1>1, TotalSum
<1> DEFINE P == {s \in SUBSET S : /\ it[s] \in Int /\ it2[s] \in Int
                                /\ it3[s] = sum3(it2[s], it[s], Cardinality(s))}
<1>5. {} \in P
  <2>1. it[{}] = 0 /\ it2[{}] = 0 /\ it3[{}] = 0 /\ Cardinality({}) = 0
    BY <1>2, <1>3, <1>4, FS_EmptySet DEF Totals
  <2>2. sum3(0, 0, 0) = 0 BY <1>0
  <2> QED BY <2>1, <2>2
<1>6. ASSUME NEW s \in SUBSET S, s # {}, s \ {Some(s)} \in P PROVE s \in P
  <2> DEFINE e == Some(s)
             r == s \ {e}
             z == Cardinality(r)
  <2>1. /\ e \in s /\ e \in S /\ it[s] = c[e] + it[r] /\ it2[s] = sq[e] + it2[r]
        /\ it3[s] = df[e] + it3[r]
    BY <1>2, <1>3, <1>4, <1>6 DEF Totals
  <2>2. it[r] \in Int /\ it2[r] \in Int /\ it3[r] = sum3(it2[r], it[r], z) BY <1>6
  <2>3. Cardinality(s) = z + 1 /\ z \in Nat
    <3>1. IsFiniteSet(s) /\ IsFiniteSet(r) BY <1>0, FS_Subset
    <3> QED BY <2>1, <3>1, FS_RemoveElement, FS_CardinalityType
  <2>4. c[e] \in Int /\ sq[e] = c[e] * c[e] /\ df[e] = (t * c[e] - n0) * (t * c[e] - n0)
    BY <1>1, <2>1
  <2> HIDE DEF e, r, z
  <2>5. it[s] \in Int /\ it2[s] \in Int BY <2>1, <2>2, <2>4
  <2>6. it3[s] = sum3(it2[s], it[s], z + 1)
    <3>1. df[e] + sum3(it2[r], it[r], z) = sum3(c[e] * c[e] + it2[r], c[e] + it[r], z + 1)
      BY <1>0, <2>2, <2>3, <2>4, SquareOfDifference
    <3> QED BY <1>0, <2>1, <2>2, <2>3, <2>4, <3>1
  <2> QED BY <2>3, <2>5, <2>6
<1> HIDE DEF P
<1>7. S \in P BY <1>0, <1>5, <1>6, SumInduction
<1>8. Total(c) = it[S] /\ Total(sq) = it2[S] /\ Total(df) = it3[S]
  BY <1>2, <1>3, <1>4 DEF Totals
<1> QED BY <1>0, <1>7, <1>8 DEF P, t, n0

(* The square of the mean is what the sum of all differences cancels.      *)
LEMMA VarianceComputed ==
  ASSUME NEW f, CountsInv(f), key_i = NUM_KEYS, DOMAIN hash_keys = 0 .. NUM_KEYS - 1
  PROVE  Variance =
           TABLE_SIZE * (TABLE_SIZE * (NUM_KEYS + 2 * Collisions(f)) - NUM_KEYS * NUM_KEYS)
<1> DEFINE t == TABLE_SIZE
           n0 == NUM_KEYS
           B == BucketOf(f)
           j == Cardinality(Sharing(B, n0))
<1>1. t \in Nat /\ n0 \in Nat BY TableFacts
<1>2. Collisions(f) = j
  <2>1. Sharing(B, n0) =
          {p \in (DOMAIN hash_keys) \X (DOMAIN hash_keys) :
             p[1] < p[2] /\ Bucket(f, hash_keys[p[1]]) = Bucket(f, hash_keys[p[2]])}
    BY DEF Sharing, BucketOf
  <2> QED BY <2>1 DEF Collisions
<1>3. j \in Nat
  <2> HIDE DEF B
  <2> QED BY <1>1, SharingGrows
<1>4. counts \in [HashBuckets -> Int] /\ Total(counts) = n0 /\ Total(SquaredCounts) = n0 + 2 * j
  BY DEF CountsInv
<1>5. Variance = t * t * Total(SquaredCounts) - 2 * (t * n0 * Total(counts)) + n0 * n0 * t
  <2>1. Variance = Total([b \in HashBuckets |-> (t * counts[b] - n0) * (t * counts[b] - n0)])
    BY DEF Variance, Total
  <2>2. DOMAIN counts = HashBuckets /\ \A b \in HashBuckets : counts[b] \in Int BY <1>4
  <2> QED BY <2>1, <2>2, TotalOfDifferences DEF SquaredCounts
<1> HIDE DEF t, n0, j
<1>6. t * t * (n0 + 2 * j) - 2 * (t * n0 * n0) + n0 * n0 * t = t * (t * (n0 + 2 * j) - n0 * n0)
  BY <1>1, <1>3
<1>7. Variance = t * (t * (n0 + 2 * j) - n0 * n0) BY <1>4, <1>5, <1>6
<1> QED BY <1>2, <1>7 DEF t, n0

LEMMA VarianceStart == HashInit => VarianceInv
<1> SUFFICES ASSUME HashInit PROVE VarianceInv OBVIOUS
<1> QED BY TableFacts DEF HashInit, VarianceInv, Measured

LEMMA VarianceStep == VarianceInv /\ [HashNext]_hashVars => VarianceInv'
<1> SUFFICES ASSUME VarianceInv, [HashNext]_hashVars PROVE VarianceInv' OBVIOUS
<1>1. ASSUME hash_keys' = hash_keys, NEW f, CountsCollisions(f), variance'[f] = variance[f]
      PROVE  CountsCollisions(f)'
  BY <1>1 DEF CountsCollisions, Collisions
<1>2. CASE SetupLetter \/ SetupKeyEnds
  <2>1. /\ hash_pc = "setup" /\ key_i \in 0 .. NUM_KEYS - 1
        /\ UNCHANGED <<hash_pc, counts, variance>> /\ key_i' \in 0 .. NUM_KEYS
        /\ DOMAIN hash_keys' = DOMAIN hash_keys
    BY <1>2, TableFacts DEF SetupLetter, SetupKeyEnds, VarianceInv
  <2> QED BY <2>1, TableFacts DEF VarianceInv, Measured
<1>3. CASE KeysDone
  <2>1. /\ hash_pc = "setup" /\ hash_pc' = "hash_sum" /\ key_i' = 0 /\ counts' = Empty
        /\ UNCHANGED <<hash_keys, variance>>
    BY <1>3 DEF KeysDone, VarianceInv
  <2>2. CountsInv(hash_pc)'
    <3>1. (counts = Empty /\ key_i = 0 => \A f : CountsInv(f))' BY NothingCounted, PTL
    <3>2. PICK f : f = hash_pc' OBVIOUS
    <3>3. CountsInv(f)' BY <2>1, <3>1 DEF Empty
    <3> QED BY <3>2, <3>3 DEF CountsInv, BucketOf
  <2> QED BY <2>1, <2>2, TableFacts DEF VarianceInv, Measured
<1>4. CASE CountKey
  <2>1. /\ hash_pc \in Fns /\ key_i' \in 0 .. NUM_KEYS /\ UNCHANGED <<hash_keys, hash_pc, variance>>
    BY <1>4, TableFacts DEF CountKey, VarianceInv
  <2>2. CountsInv(hash_pc)'
    <3>1. PICK f : f = hash_pc OBVIOUS
    <3>2. CountsInv(f)' BY <1>4, <2>1, <3>1, KeyCounted DEF VarianceInv
    <3>3. CountsInv(hash_pc)' <=> CountsInv(f)' BY <2>1, <3>1 DEF CountsInv, BucketOf
    <3> QED BY <3>2, <3>3
  <2>3. Measured' = Measured BY <2>1 DEF Measured
  <2>4. hash_pc # "setup" BY <2>1, TableFacts
  <2> QED BY <1>1, <2>1, <2>2, <2>3, <2>4 DEF VarianceInv
<1>5. CASE VarianceReturns
  <2>1. /\ hash_pc \in Fns /\ key_i = NUM_KEYS /\ hash_pc' = NextFunction /\ key_i' = 0
        /\ variance' = [variance EXCEPT ![hash_pc] = Variance]
        /\ counts' = Empty /\ hash_keys' = hash_keys
    BY <1>5 DEF VarianceReturns
  <2>2. hash_pc' \in {"done"} \cup Fns /\ hash_pc' # "setup"
        /\ Measured' = Measured \cup {hash_pc} /\ Measured \subseteq Fns
    BY <2>1, TableFacts DEF NextFunction, Measured
  <2>3. CountsInv(hash_pc)'
    <3>1. (counts = Empty /\ key_i = 0 => \A f : CountsInv(f))' BY NothingCounted, PTL
    <3>2. PICK f : f = hash_pc' OBVIOUS
    <3>3. CountsInv(f)' BY <2>1, <3>1 DEF Empty
    <3> QED BY <3>2, <3>3 DEF CountsInv, BucketOf
  <2>4. DOMAIN variance' = Fns /\ \A f \in Measured' : CountsCollisions(f)'
    <3>1. DOMAIN variance = Fns /\ \A f \in Measured : CountsCollisions(f) BY DEF VarianceInv
    <3> SUFFICES ASSUME NEW f \in Measured' PROVE CountsCollisions(f)' BY <2>1, <3>1
    <3>2. CASE f = hash_pc
      <4>1. CountsInv(f) BY <2>1, <3>2 DEF VarianceInv
      <4>2. Variance =
              TABLE_SIZE * (TABLE_SIZE * (NUM_KEYS + 2 * Collisions(f)) - NUM_KEYS * NUM_KEYS)
        BY <2>1, <4>1, VarianceComputed DEF VarianceInv
      <4>3. variance'[f] = Variance BY <2>1, <3>1, <3>2
      <4>4. Collisions(f)' = Collisions(f) BY <2>1 DEF Collisions
      <4> QED BY <4>2, <4>3, <4>4 DEF CountsCollisions
    <3>3. CASE f # hash_pc
      <4>1. f \in Measured /\ f \in Fns /\ CountsCollisions(f) BY <2>2, <3>1, <3>3
      <4>2. variance'[f] = variance[f] BY <2>1, <3>1, <3>3, <4>1
      <4> QED BY <1>1, <2>1, <4>1, <4>2
    <3> QED BY <3>2, <3>3
  <2>5. key_i' \in 0 .. NUM_KEYS /\ DOMAIN hash_keys' = 0 .. NUM_KEYS - 1
    BY <2>1, TableFacts DEF VarianceInv
  <2> QED BY <2>2, <2>3, <2>4, <2>5 DEF VarianceInv
<1>6. CASE UNCHANGED hashVars
  <2>1. CountsInv(hash_pc)' <=> CountsInv(hash_pc)
    BY <1>6 DEF hashVars, CountsInv, BucketOf, SquaredCounts
  <2>2. Measured' = Measured BY <1>6 DEF hashVars, Measured
  <2> QED BY <1>1, <1>6, <2>1, <2>2 DEF hashVars, VarianceInv
<1> QED BY <1>2, <1>3, <1>4, <1>5, <1>6 DEF HashNext

(* "Lower variance = more uniform = fewer collisions" (ch07/ex7_1 line 9): *)
(* each variance printed is a fixed multiple of the pairs of keys that     *)
(* share a bucket, plus a constant, for every table and number of keys and *)
(* whatever the functions compute.                                         *)
THEOREM VariancesCountCollisions == HashSpec => []VarianceCountsCollisions
<1>1. VarianceInv => VarianceCountsCollisions
  BY DEF VarianceInv, Measured, CountsCollisions, VarianceCountsCollisions
<1> QED BY VarianceStart, VarianceStep, <1>1, PTL DEF HashSpec

(***************************************************************************)
(* BENCH_RUN around a body of lower to upper ticks: the counter is read    *)
(* modulo COUNTER, so that a wrap within a turn does not show.             *)
(***************************************************************************)
Since(from) == (clock - from) % COUNTER

Archs == {"riscv64", "x86_64", "other"}

CounterInv == arch \in Archs /\ clock \in 0 .. COUNTER - 1 /\ t0 \in 0 .. COUNTER - 1

SamplesInv(lower, upper) ==
  /\ turn \in 0 .. WARMUP + ITERATIONS
  /\ bench_pc \in {"stats", "print"} <=> turn = WARMUP + ITERATIONS
  /\ samples \in Seq(lower .. upper)
  /\ Len(samples) = IF turn < WARMUP THEN 0 ELSE turn - WARMUP
  /\ bench_pc = "print" => StatsWithin(stats, ITERATIONS, lower, upper)

(* The timer of a turn that counts shows x ticks. *)
Shows(x) == turn >= WARMUP => Since(t0) = x

LEMMA CounterFacts == COUNTER \in Nat \ {0}
<1>1. WORD \in Nat \ {0} BY BenchAssumption
<1>2. WORD * WORD \in Nat \ {0} BY <1>1
<1> QED BY <1>2 DEF COUNTER

LEMMA ReadsClock == CounterInv => read_counter = clock
<1> SUFFICES ASSUME CounterInv PROVE read_counter = clock OBVIOUS
<1>1. clock \in 0 .. COUNTER - 1 /\ clock \in Nat /\ COUNTER \in Nat \ {0}
  BY CounterFacts DEF CounterInv
<1>2. WORD \in Nat \ {0} /\ NSEC \in Nat \ {0} BY BenchAssumption
<1>3. clock = WORD * (clock \div WORD) + (clock % WORD)
      /\ clock \div WORD \in Int /\ clock % WORD \in Int
  BY <1>1, <1>2, Division
<1>4. clock = NSEC * (clock \div NSEC) + (clock % NSEC)
      /\ clock \div NSEC \in Int /\ clock % NSEC \in Int
  BY <1>1, <1>2, Division
<1>5. clock % COUNTER = clock BY <1>1, SmallModulo
<1>6. (clock \div WORD) * WORD + (clock % WORD) = clock BY <1>2, <1>3
<1>7. (clock \div NSEC) * NSEC + (clock % NSEC) = clock BY <1>2, <1>4
<1>8. arch \in Archs BY DEF CounterInv
<1>9. CASE arch = "riscv64" BY <1>9 DEF read_counter
<1>10. CASE arch = "x86_64" BY <1>6, <1>10 DEF read_counter
<1>11. CASE arch = "other" BY <1>5, <1>7, <1>11 DEF read_counter
<1> QED BY <1>8, <1>9, <1>10, <1>11 DEF Archs

LEMMA TickModulo ==
  ASSUME NEW C \in Nat \ {0}, NEW c \in 0 .. C - 1, NEW from \in 0 .. C - 1,
         NEW e, e = (c + 1) % C
  PROVE  /\ (c - from) % C \in 0 .. C - 1 /\ e \in 0 .. C - 1
         /\ ((c - from) % C) + 1 < C => (e - from) % C = ((c - from) % C) + 1
         /\ (c - c) % C = 0
<1>1. ASSUME NEW x \in 0 .. C - 1
      PROVE  (x - from) % C = IF x >= from THEN x - from ELSE x - from + C
  <2> DEFINE d == x - from
  <2>1. d \in Int /\ (IF x >= from THEN d \in 0 .. C - 1 ELSE d \in -C .. -1) OBVIOUS
  <2>2. /\ d \in 0 .. C - 1 => d % C = d
        /\ d \in -C .. -1 => d % C = d + C
    BY <2>1, SmallModulo
  <2> QED BY <2>1, <2>2
<1>2. e = IF c + 1 < C THEN c + 1 ELSE 0
  <2> DEFINE d == c + 1
  <2>1. d \in Int /\ (IF d < C THEN d \in 0 .. C - 1 ELSE d \in C .. 2 * C - 1 /\ d - C = 0)
    OBVIOUS
  <2>2. /\ d \in 0 .. C - 1 => d % C = d
        /\ d \in C .. 2 * C - 1 => d % C = d - C
    BY <2>1, SmallModulo
  <2> QED BY <2>1, <2>2
<1>3. e \in 0 .. C - 1 BY <1>2
<1>4. (c - from) % C = IF c >= from THEN c - from ELSE c - from + C BY <1>1
<1>5. (e - from) % C = IF e >= from THEN e - from ELSE e - from + C BY <1>1, <1>3
<1>6. (c - c) % C = 0
  <2>1. c - c = 0 /\ 0 \in 0 .. C - 1 OBVIOUS
  <2>2. 0 % C = 0 BY <2>1, SmallModulo
  <2> QED BY <2>1, <2>2
<1> QED BY <1>2, <1>3, <1>4, <1>5, <1>6

LEMMA Ticks ==
  ASSUME CounterInv, NEW from \in 0 .. COUNTER - 1
  PROVE  /\ Since(from) \in 0 .. COUNTER - 1
         /\ Tick => clock' \in 0 .. COUNTER - 1
         /\ Tick /\ Since(from) + 1 < COUNTER => (clock' - from) % COUNTER = Since(from) + 1
         /\ (clock - clock) % COUNTER = 0
<1> DEFINE C == COUNTER
<1>1. C \in Nat \ {0} /\ clock \in 0 .. C - 1 BY CounterFacts DEF CounterInv
<1>2. from \in 0 .. C - 1 OBVIOUS
<1> HIDE DEF C
<1>3. /\ (clock - from) % C \in 0 .. C - 1 /\ (clock + 1) % C \in 0 .. C - 1
      /\ ((clock - from) % C) + 1 < C => (((clock + 1) % C) - from) % C = ((clock - from) % C) + 1
      /\ (clock - clock) % C = 0
  BY <1>1, <1>2, TickModulo
<1> QED BY <1>3 DEF Since, Tick, C

LEMMA BenchTurns ==
  ASSUME NEW lower \in Int, NEW upper \in Int, CounterInv, SamplesInv(lower, upper), BenchStep,
         bench_pc = "end" /\ turn >= WARMUP => Since(t0) \in lower .. upper
  PROVE  /\ CounterInv' /\ SamplesInv(lower, upper)' /\ clock' = clock
         /\ bench_pc \in {"start", "end", "stats"}
         /\ bench_pc' \in {"start", "body", "stats", "print"}
         /\ bench_pc' = "body" => Shows(0)'
<1>1. WARMUP \in Nat /\ ITERATIONS \in Nat \ {0} BY BenchAssumption
<1>2. turn \in 0 .. WARMUP + ITERATIONS /\ samples \in Seq(lower .. upper)
      /\ (bench_pc \in {"stats", "print"} <=> turn = WARMUP + ITERATIONS)
      /\ Len(samples) = IF turn < WARMUP THEN 0 ELSE turn - WARMUP
  BY DEF SamplesInv
<1>3. CASE Start
  <2>1. /\ bench_pc = "start" /\ bench_pc' = "body" /\ clock' = clock /\ arch' = arch
        /\ turn' = turn /\ samples' = samples /\ stats' = stats
        /\ t0' = IF turn < WARMUP THEN t0 ELSE clock
    BY <1>3, ReadsClock DEF Start
  <2>2. CounterInv' BY <2>1 DEF CounterInv
  <2>3. SamplesInv(lower, upper)' BY <1>2, <2>1 DEF SamplesInv
  <2>4. Shows(0)'
    <3>1. turn' >= WARMUP => t0' = clock' BY <1>1, <1>2, <2>1
    <3>2. (clock - clock) % COUNTER = 0
      <4>1. t0 \in 0 .. COUNTER - 1 BY DEF CounterInv
      <4> QED BY <4>1, Ticks
    <3> QED BY <2>1, <3>1, <3>2 DEF Shows, Since
  <2> QED BY <2>1, <2>2, <2>3, <2>4
<1>4. CASE EndTurn
  <2>1. /\ bench_pc = "end" /\ clock' = clock /\ arch' = arch /\ t0' = t0
        /\ samples' = IF turn < WARMUP THEN samples ELSE Append(samples, Since(t0))
        /\ turn' = turn + 1
        /\ bench_pc' = IF turn' = WARMUP + ITERATIONS THEN "stats" ELSE "start"
    BY <1>4, ReadsClock DEF EndTurn, Since
  <2>2. CounterInv' BY <2>1 DEF CounterInv
  <2>3. turn' \in 0 .. WARMUP + ITERATIONS BY <1>1, <1>2, <2>1
  <2>4. samples' \in Seq(lower .. upper) /\ Len(samples') = IF turn' < WARMUP THEN 0 ELSE turn' - WARMUP
    <3>1. CASE turn < WARMUP
      <4>1. samples' = samples BY <2>1, <3>1
      <4> QED BY <1>1, <1>2, <2>1, <3>1, <4>1
    <3>2. CASE turn >= WARMUP
      <4>1. samples' = Append(samples, Since(t0)) /\ Since(t0) \in lower .. upper
        BY <1>1, <1>2, <2>1, <3>2
      <4>2. samples' \in Seq(lower .. upper) /\ Len(samples') = Len(samples) + 1
        BY <1>2, <4>1, AppendFacts
      <4> QED BY <1>1, <1>2, <2>1, <3>2, <4>2
    <3> QED BY <1>1, <1>2, <3>1, <3>2
  <2>5. bench_pc' # "print" /\ (bench_pc' \in {"stats", "print"} <=> turn' = WARMUP + ITERATIONS)
    BY <2>1
  <2> QED BY <2>1, <2>2, <2>3, <2>4, <2>5 DEF SamplesInv
<1>5. CASE bench_stats
  <2>1. /\ bench_pc = "stats" /\ bench_pc' = "print" /\ stats' = StatsOf(samples)
        /\ clock' = clock /\ arch' = arch /\ t0' = t0 /\ turn' = turn /\ samples' = samples
    BY <1>5 DEF bench_stats
  <2>2. CounterInv' BY <2>1 DEF CounterInv
  <2>3. Len(samples) = ITERATIONS BY <1>1, <1>2, <2>1
  <2>4. StatsWithin(StatsOf(samples), ITERATIONS, lower, upper) BY <1>1, <1>2, <2>3, StatsFacts
  <2>5. SamplesInv(lower, upper)' BY <1>2, <2>1, <2>4 DEF SamplesInv
  <2> QED BY <2>1, <2>2, <2>5
<1> QED BY <1>3, <1>4, <1>5 DEF BenchStep

LEMMA BenchBegins ==
  ASSUME NEW lower \in Int, NEW upper \in Int, CounterInv, NextBenchRun
  PROVE  CounterInv' /\ SamplesInv(lower, upper)' /\ bench_pc' = "start"
<1>1. WARMUP \in Nat /\ ITERATIONS \in Nat \ {0} BY BenchAssumption
<1>2. /\ bench_pc' = "start" /\ turn' = 0 /\ samples' = <<>>
      /\ arch' = arch /\ clock' = clock /\ t0' = t0
  BY DEF NextBenchRun
<1>3. <<>> \in Seq(lower .. upper) /\ Len(<<>>) = 0 OBVIOUS
<1> QED BY <1>1, <1>2, <1>3 DEF CounterInv, SamplesInv

LEMMA BenchMeasures ==
  ASSUME NEW lower \in Int, NEW upper \in Int, SamplesInv(lower, upper)
  PROVE  Measures(lower, upper)
<1>1. WARMUP \in Nat /\ ITERATIONS \in Nat \ {0} BY BenchAssumption
<1>2. \A s \in DOMAIN samples : samples[s] \in lower .. upper BY DEF SamplesInv
<1>3. Len(samples) = IF turn < WARMUP THEN 0 ELSE turn - WARMUP BY DEF SamplesInv
<1>4. ASSUME bench_pc = "print" PROVE Len(samples) = ITERATIONS
  BY <1>1, <1>3, <1>4 DEF SamplesInv
<1>5. bench_pc = "print" => StatsWithin(stats, ITERATIONS, lower, upper) BY DEF SamplesInv
<1> QED BY <1>2, <1>3, <1>4, <1>5 DEF Measures, StatsWithin

(***************************************************************************)
(* The samples of ch02: the timer shows the increments made so far.        *)
(***************************************************************************)
Counting == {"create1"} \cup Running \cup {"end"}
Created(t) == bench_pc \in {"join1", "join2", "end"} \/ (bench_pc = "create2" /\ t = "t1")

ThreadInv(t) ==
  /\ i[t] \in 0 .. ITERS /\ value[t] \in 0 .. ITERS
  /\ pc[t] = "store" => reg[t] = value[t] /\ i[t] < ITERS
  /\ pc[t] = "returned" => i[t] = ITERS
  /\ Created(t) => value[t] = i[t]
  /\ bench_pc \in {"create1", "create2"} /\ ~ Created(t) => value[t] = 0

CountInv ==
  /\ PhaseInv /\ CounterInv /\ SamplesInv(2 * ITERS, 2 * ITERS)
  /\ bench_pc \in {"start", "stats", "print", "body"} \cup Counting
  /\ i \in [Threads -> Int] /\ value \in [Threads -> Int] /\ reg \in [Threads -> Int]
  /\ \A t \in Threads : ThreadInv(t)
  /\ bench_pc \in {"join2", "end"} => i["t1"] = ITERS
  /\ bench_pc = "end" => i["t2"] = ITERS
  /\ bench_pc = "body" => Shows(0)
  /\ bench_pc \in Counting => Shows(value["t1"] + value["t2"])

LEMMA SharingSizes == ITERS \in Nat \ {0} /\ 2 * ITERS \in Nat /\ COUNTER > 2 * ITERS
BY SharingAssumption

LEMMA CountStart == SharingInit => CountInv
<1> SUFFICES ASSUME SharingInit PROVE CountInv OBVIOUS
<1>1. /\ arch \in Archs /\ clock = 0 /\ bench_pc = "start" /\ turn = 0 /\ t0 = 0 /\ samples = <<>>
      /\ value = [t \in Threads |-> 0] /\ pc = [t \in Threads |-> "idle"]
      /\ i = [t \in Threads |-> 0] /\ reg = [t \in Threads |-> 0]
  BY DEF SharingInit, BenchInit, Archs, Zero, Idle
<1>2. CounterInv
  <2>1. 0 \in 0 .. COUNTER - 1 BY CounterFacts
  <2> QED BY <1>1, <2>1 DEF CounterInv
<1>3. SamplesInv(2 * ITERS, 2 * ITERS)
  <2>1. <<>> \in Seq(2 * ITERS .. 2 * ITERS) /\ Len(<<>>) = 0 OBVIOUS
  <2>2. WARMUP \in Nat /\ ITERATIONS \in Nat \ {0} BY BenchAssumption
  <2> QED BY <1>1, <2>1, <2>2 DEF SamplesInv
<1>4. PhaseInv BY <1>1 DEF PhaseInv, Running, Threads
<1>5. ASSUME NEW t \in Threads PROVE ThreadInv(t)
  BY <1>1, SharingSizes DEF ThreadInv, Created
<1> QED BY <1>1, <1>2, <1>3, <1>4, <1>5 DEF CountInv, Counting, Running

(* A step of a thread, where x is 1 if it counts. *)
LEMMA ThreadStep ==
  ASSUME CountInv, PhaseInv', NEW t \in Threads, Load(t) \/ Store(t) \/ ThreadReturns(t)
  PROVE  CountInv'
<1> USE DEF Threads
<1>1. bench_pc \in Running /\ Created(t) /\ (bench_pc = "join2" => t # "t1")
  BY DEF CountInv, PhaseInv, Load, Store, ThreadReturns, Running, Created
<1>2. UNCHANGED <<arch, bench_pc, turn, t0, samples, stats>>
  BY DEF Load, Store, ThreadReturns, benchVars
<1>3. \A u : Created(u)' = Created(u) BY <1>2 DEF Created
<1>4. SamplesInv(2 * ITERS, 2 * ITERS)' BY <1>2 DEF CountInv, SamplesInv
<1>5. /\ i \in [Threads -> Int] /\ value \in [Threads -> Int] /\ reg \in [Threads -> Int]
      /\ pc \in [Threads -> {"idle", "load", "store", "returned"}]
      /\ ThreadInv(t) /\ CounterInv
  BY DEF CountInv, PhaseInv
<1>6. ITERS \in Nat \ {0} /\ COUNTER > 2 * ITERS /\ COUNTER \in Nat
  BY SharingSizes, CounterFacts
<1>7. ASSUME NEW u \in Threads, u # t
      PROVE  /\ i'[u] = i[u] /\ value'[u] = value[u] /\ reg'[u] = reg[u] /\ pc'[u] = pc[u]
             /\ ThreadInv(u)'
  <2>1. i'[u] = i[u] /\ value'[u] = value[u] /\ reg'[u] = reg[u] /\ pc'[u] = pc[u]
    BY <1>5, <1>7 DEF Load, Store, ThreadReturns
  <2>2. ThreadInv(u) BY DEF CountInv
  <2> QED BY <1>2, <1>3, <2>1, <2>2 DEF ThreadInv
<1>8. CASE Store(t)
  <2>1. value[t] = i[t] /\ i[t] < ITERS /\ reg[t] = value[t] /\ i[t] \in 0 .. ITERS
    BY <1>1, <1>5, <1>8 DEF ThreadInv, Store
  <2>2. /\ value' = [value EXCEPT ![t] = reg[t] + 1] /\ i' = [i EXCEPT ![t] = i[t] + 1]
        /\ pc' = [pc EXCEPT ![t] = "load"] /\ reg' = reg /\ Tick
    BY <1>8 DEF Store
  <2>3. value'[t] = value[t] + 1 /\ i'[t] = i[t] + 1 /\ pc'[t] = "load" BY <1>5, <2>1, <2>2
  <2>4. i' \in [Threads -> Int] /\ value' \in [Threads -> Int] /\ reg' \in [Threads -> Int]
    BY <1>5, <2>1, <2>2
  <2>5. ThreadInv(t)' BY <1>1, <1>3, <1>6, <2>1, <2>3 DEF ThreadInv
  <2> DEFINE x == value["t1"] + value["t2"]
  <2>6. x \in 0 .. 2 * ITERS - 1 /\ value'["t1"] + value'["t2"] = x + 1
    <3>1. ThreadInv("t1") /\ ThreadInv("t2") BY DEF CountInv
    <3>2. value["t1"] \in 0 .. ITERS /\ value["t2"] \in 0 .. ITERS BY <3>1 DEF ThreadInv
    <3>3. CASE t = "t1" BY <1>6, <1>7, <2>1, <2>3, <3>2, <3>3
    <3>4. CASE t = "t2" BY <1>6, <1>7, <2>1, <2>3, <3>2, <3>4
    <3> QED BY <3>3, <3>4
  <2>7. CounterInv' /\ Shows(value["t1"] + value["t2"])'
    <3>1. t0 \in 0 .. COUNTER - 1 BY <1>5 DEF CounterInv
    <3>2. clock' \in 0 .. COUNTER - 1 BY <1>5, <2>2, <3>1, Ticks
    <3>3. CounterInv' BY <1>2, <1>5, <3>2 DEF CounterInv
    <3>4. ASSUME turn >= WARMUP PROVE (clock' - t0) % COUNTER = x + 1
      <4>1. Since(t0) = x BY <1>1, <3>4 DEF CountInv, Counting, Shows
      <4> HIDE DEF x
      <4>2. Since(t0) + 1 < COUNTER BY <1>6, <2>6, <4>1
      <4> QED BY <1>5, <2>2, <3>1, <4>1, <4>2, Ticks
    <3> HIDE DEF x
    <3> QED BY <1>2, <2>6, <3>3, <3>4 DEF Shows, Since
  <2>8. bench_pc \in {"join2", "end"} => i'["t1"] = i["t1"]
    BY <1>1, <1>7 DEF Running
  <2>9. \A u \in Threads : ThreadInv(u)' BY <1>7, <2>5
  <2> QED BY <1>1, <1>2, <1>4, <2>4, <2>7, <2>8, <2>9 DEF CountInv, Running, Counting
<1>9. CASE Load(t) \/ ThreadReturns(t)
  <2>1. /\ value' = value /\ i' = i /\ clock' = clock
        /\ reg' \in [Threads -> Int]
    BY <1>5, <1>9 DEF Load, ThreadReturns
  <2>2. ThreadInv(t)'
    <3>1. CASE Load(t)
      <4>1. reg'[t] = value[t] /\ i[t] < ITERS /\ pc'[t] = "store"
        BY <1>5, <3>1 DEF Load
      <4> QED BY <1>2, <1>3, <1>5, <2>1, <4>1 DEF ThreadInv
    <3>2. CASE ThreadReturns(t)
      <4>1. i[t] = ITERS /\ pc'[t] = "returned" BY <1>5, <3>2 DEF ThreadReturns
      <4> QED BY <1>2, <1>3, <1>5, <2>1, <4>1 DEF ThreadInv
    <3> QED BY <1>9, <3>1, <3>2
  <2>3. \A u \in Threads : ThreadInv(u)' BY <1>7, <2>2
  <2>4. CounterInv' BY <1>2, <1>5, <2>1 DEF CounterInv
  <2>5. Shows(value["t1"] + value["t2"])'
    <3>1. Shows(value["t1"] + value["t2"]) BY <1>1 DEF CountInv, Counting
    <3> QED BY <1>2, <2>1, <3>1 DEF Shows, Since
  <2>6. /\ i' \in [Threads -> Int] /\ value' \in [Threads -> Int]
        /\ bench_pc' \in Running
        /\ bench_pc \in {"join2", "end"} => i["t1"] = ITERS
    BY <1>1, <1>2, <1>5, <2>1 DEF CountInv
  <2> QED BY <1>2, <1>4, <2>1, <2>3, <2>4, <2>5, <2>6 DEF CountInv, Running, Counting
<1> QED BY <1>8, <1>9

(* A step of main inside a body. *)
LEMMA BodyStep == ASSUME CountInv, PhaseInv', RunBody PROVE CountInv'
<1> USE DEF Threads
<1>1. UNCHANGED <<arch, turn, t0, samples, stats, clock, reg>>
  BY DEF RunBody, Clear, Create, Join, Body, threadVars
<1>2. bench_pc \notin {"stats", "print"} /\ bench_pc' \notin {"stats", "print"}
  BY DEF RunBody, Clear, Create, Join, Body
<1>3. CounterInv' /\ SamplesInv(2 * ITERS, 2 * ITERS)'
  BY <1>1, <1>2 DEF CountInv, CounterInv, SamplesInv
<1>4. /\ i \in [Threads -> Int] /\ value \in [Threads -> Int] /\ reg \in [Threads -> Int]
      /\ pc \in [Threads -> {"idle", "load", "store", "returned"}]
      /\ ThreadInv("t1") /\ ThreadInv("t2")
  BY DEF CountInv, PhaseInv
<1>5. ITERS \in Nat \ {0} BY SharingSizes
<1>6. ASSUME value' = value PROVE Shows(value["t1"] + value["t2"])' <=> Shows(value["t1"] + value["t2"])
  BY <1>1, <1>6 DEF Shows, Since
<1>7. CASE Clear
  <2>1. /\ bench_pc = "body" /\ bench_pc' = "create1" /\ value' = [t \in Threads |-> 0]
        /\ pc' = pc /\ i' = i /\ Shows(0)
    BY <1>7 DEF Clear, Body, Zero, threadVars, CountInv
  <2>2. value'["t1"] + value'["t2"] = 0 BY <2>1
  <2>3. Shows(value["t1"] + value["t2"])' BY <1>1, <2>1, <2>2 DEF Shows, Since
  <2>4. \A t \in Threads : pc[t] = "idle" BY <2>1 DEF CountInv, PhaseInv, Running
  <2>5. ThreadInv("t1")' /\ ThreadInv("t2")'
    BY <1>4, <1>5, <2>1, <2>4 DEF ThreadInv, Created
  <2> QED BY <1>1, <1>3, <1>4, <2>1, <2>3, <2>5 DEF CountInv, Counting, Running
<1>8. CASE Create("t1", "create1", "create2") \/ Create("t2", "create2", "join1")
  <2>1. PICK t \in Threads :
          /\ \/ t = "t1" /\ bench_pc = "create1" /\ bench_pc' = "create2"
             \/ t = "t2" /\ bench_pc = "create2" /\ bench_pc' = "join1"
          /\ value' = value
          /\ pc' = [pc EXCEPT ![t] = "load"] /\ i' = [i EXCEPT ![t] = 0]
    BY <1>8 DEF Create, Body
  <2>2. /\ pc'[t] = "load" /\ i'[t] = 0 /\ value[t] = 0
        /\ \A u \in Threads : u # t => pc'[u] = pc[u] /\ i'[u] = i[u]
    BY <1>4, <2>1 DEF ThreadInv, Created
  <2>3. ThreadInv("t1")' /\ ThreadInv("t2")'
    <3>1. ThreadInv(t)' BY <1>5, <2>1, <2>2 DEF ThreadInv
    <3>2. ASSUME NEW u \in Threads, u # t PROVE ThreadInv(u)'
      BY <1>1, <1>4, <2>1, <2>2, <3>2 DEF ThreadInv, Created
    <3> QED BY <3>1, <3>2
  <2>4. i' \in [Threads -> Int] BY <1>4, <2>1
  <2>5. Shows(value["t1"] + value["t2"])' BY <1>6, <2>1 DEF CountInv, Counting, Running
  <2> QED BY <1>1, <1>3, <1>4, <2>1, <2>3, <2>4, <2>5 DEF CountInv, Counting, Running
<1>9. CASE Join("t1", "join1", "join2") \/ Join("t2", "join2", "end")
  <2>1. PICK t \in Threads :
          /\ \/ t = "t1" /\ bench_pc = "join1" /\ bench_pc' = "join2"
             \/ t = "t2" /\ bench_pc = "join2" /\ bench_pc' = "end"
          /\ value' = value /\ i' = i /\ pc[t] = "returned"
          /\ pc' = [pc EXCEPT ![t] = "idle"]
    BY <1>9 DEF Join, Joined, Body
  <2>2. i[t] = ITERS BY <1>4, <2>1 DEF ThreadInv
  <2>3. bench_pc = "join2" => i["t1"] = ITERS BY DEF CountInv
  <2>4. ThreadInv("t1")' /\ ThreadInv("t2")'
    <3>1. \A u \in Threads : pc'[u] \in {pc[u], "idle"} BY <1>4, <2>1
    <3>2. ASSUME NEW u \in Threads PROVE ThreadInv(u)'
      BY <1>1, <1>4, <2>1, <3>1 DEF ThreadInv, Created
    <3> QED BY <3>2
  <2>5. Shows(value["t1"] + value["t2"])' BY <1>6, <2>1 DEF CountInv, Counting, Running
  <2> QED BY <1>1, <1>3, <1>4, <2>1, <2>2, <2>3, <2>4, <2>5 DEF CountInv, Counting, Running
<1> QED BY <1>7, <1>8, <1>9 DEF RunBody

LEMMA CountStep == CountInv /\ [SharingNext]_sharingVars => CountInv'
<1> SUFFICES ASSUME CountInv, [SharingNext]_sharingVars PROVE CountInv' OBVIOUS
<1>1. PhaseInv' BY PhaseStep DEF CountInv
<1>2. ASSUME NEW t \in Threads, Load(t) \/ Store(t) \/ ThreadReturns(t) PROVE CountInv'
  BY <1>1, <1>2, ThreadStep
<1>3. CASE RunBody BY <1>1, <1>3, BodyStep
<1>4. 2 * ITERS \in Int BY SharingSizes
<1>5. /\ CounterInv /\ SamplesInv(2 * ITERS, 2 * ITERS)
      /\ i \in [Threads -> Int] /\ value \in [Threads -> Int] /\ reg \in [Threads -> Int]
  BY DEF CountInv
<1>6. ASSUME UNCHANGED <<value, pc, i, reg>>, NEW t \in Threads,
             bench_pc' \notin Counting, bench_pc \in {"print", "end", "start", "stats"}
      PROVE  ThreadInv(t)'
  <2>1. pc[t] = "idle" BY <1>6 DEF CountInv, PhaseInv, Running
  <2>2. ThreadInv(t) BY DEF CountInv
  <2> QED BY <1>6, <2>1, <2>2 DEF ThreadInv, Created, Counting, Running
<1>7. CASE NextBenchmark
  <2>1. /\ bench_pc = "print" /\ NextBenchRun /\ UNCHANGED <<value, pc, i, reg>>
    BY <1>7 DEF NextBenchmark, threadVars
  <2>2. CounterInv' /\ SamplesInv(2 * ITERS, 2 * ITERS)' /\ bench_pc' = "start"
    BY <1>4, <1>5, <2>1, BenchBegins
  <2>3. \A t \in Threads : ThreadInv(t)' BY <1>6, <2>1, <2>2 DEF Counting, Running
  <2> QED BY <1>1, <1>5, <2>1, <2>2, <2>3 DEF CountInv, Counting, Running
<1>8. CASE BenchStep /\ UNCHANGED ownVars
  <2>1. UNCHANGED <<value, pc, i, reg>> BY <1>8 DEF ownVars, threadVars
  <2>2. bench_pc = "end" /\ turn >= WARMUP => Since(t0) \in 2 * ITERS .. 2 * ITERS
    <3> SUFFICES ASSUME bench_pc = "end", turn >= WARMUP
                 PROVE  Since(t0) \in 2 * ITERS .. 2 * ITERS OBVIOUS
    <3>1. Since(t0) = value["t1"] + value["t2"] BY DEF CountInv, Counting, Shows
    <3>2. value["t1"] = ITERS /\ value["t2"] = ITERS
      BY DEF CountInv, ThreadInv, Created, Threads
    <3> QED BY <1>4, <3>1, <3>2, SharingSizes
  <2>3. /\ CounterInv' /\ SamplesInv(2 * ITERS, 2 * ITERS)'
        /\ bench_pc \in {"start", "end", "stats"}
        /\ bench_pc' \in {"start", "body", "stats", "print"}
        /\ bench_pc' = "body" => Shows(0)'
    BY <1>4, <1>5, <1>8, <2>2, BenchTurns
  <2>4. \A t \in Threads : ThreadInv(t)' BY <1>6, <2>1, <2>3 DEF Counting, Running
  <2> QED BY <1>1, <1>5, <2>1, <2>3, <2>4 DEF CountInv, Counting, Running
<1>9. CASE UNCHANGED sharingVars
  <2>1. UNCHANGED <<arch, bench_pc, turn, t0, samples, stats, clock, value, pc, i, reg>>
    BY <1>9 DEF sharingVars, ownVars, threadVars, benchVars
  <2>2. CounterInv' /\ SamplesInv(2 * ITERS, 2 * ITERS)' BY <1>5, <2>1 DEF CounterInv, SamplesInv
  <2>3. ASSUME NEW t \in Threads PROVE ThreadInv(t)'
    BY <2>1 DEF CountInv, ThreadInv, Created
  <2> QED BY <1>1, <1>5, <2>1, <2>2, <2>3 DEF CountInv, Shows, Since
<1> QED BY <1>2, <1>3, <1>7, <1>8, <1>9 DEF SharingNext

LEMMA CountMeasured == CountInv => MeasuredWhole
<1> SUFFICES ASSUME CountInv PROVE MeasuredWhole OBVIOUS
<1>1. 2 * ITERS \in Int BY SharingSizes
<1>2. Measures(2 * ITERS, 2 * ITERS) BY <1>1, BenchMeasures DEF CountInv
<1>3. ASSUME bench_pc = "end" PROVE value = [t \in Threads |-> ITERS]
  <2>1. value["t1"] = ITERS /\ value["t2"] = ITERS /\ value \in [Threads -> Int]
    BY <1>3 DEF CountInv, ThreadInv, Created, Threads
  <2> QED BY <2>1 DEF Threads
<1> QED BY <1>2, <1>3 DEF MeasuredWhole

(***************************************************************************)
(* The samples of ch03: the timer shows the operations of the body so far  *)
(* and what interrupted it.  A holds the blocks of the list, the first     *)
(* allocated one first.                                                    *)
(***************************************************************************)
Listing(A, h) ==
  /\ A \in [1 .. h -> Addr]
  /\ \A x, y \in 1 .. h : A[x] = A[y] => x = y
  /\ list_head = IF h = 0 THEN NULL ELSE A[h]
  /\ \A x \in 1 .. h : val[A[x]] = x - 1 /\ next[A[x]] = IF x = 1 THEN NULL ELSE A[x - 1]

(* What is left of a traversal: x nodes. *)
Left(A, x) ==
  /\ x \in 0 .. LIST_NODES
  /\ m_n = IF x = 0 THEN NULL ELSE A[x]
  /\ sum \in Int /\ 2 * sum = LIST_NODES * (LIST_NODES - 1) - x * (x - 1)
  /\ Shows(LIST_NODES - x + interrupts)

EmptyLoopInv ==
  /\ bench_pc \in {"start", "body", "end", "stats", "print"}
  /\ list_head = NULL
  /\ IF bench_pc = "body" THEN m_i \in 0 .. INNER_OPS /\ Shows(m_i + interrupts) ELSE m_i = 0
  /\ bench_pc = "end" => Shows(INNER_OPS + interrupts)

ReadInv ==
  /\ bench_pc \in {"start", "body", "second", "end", "stats", "print"}
  /\ list_head = NULL /\ m_i = 0
  /\ bench_pc = "body" => Shows(interrupts)
  /\ bench_pc = "second" =>
       /\ Shows(1 + interrupts)
       /\ inner_t0 \in 0 .. COUNTER - 1 /\ Since(inner_t0) \in 1 .. 1 + interrupts
  /\ bench_pc = "end" => Shows(2 + interrupts) /\ elapsed \in 1 .. 1 + INTERRUPTS

BuildInv ==
  /\ bench_pc \in {"build", "exited"}
  /\ m_i \in 0 .. LIST_NODES /\ \E A : Listing(A, m_i)

TraverseInv ==
  /\ bench_pc \in {"start", "body", "walk", "end", "stats", "print"}
  /\ \E A : /\ Listing(A, LIST_NODES)
            /\ bench_pc = "walk" => \E x : Left(A, x)
  /\ bench_pc = "body" => Shows(interrupts)
  /\ bench_pc = "end" => /\ Shows(LIST_NODES + interrupts)
                         /\ sum \in Int /\ 2 * sum = LIST_NODES * (LIST_NODES - 1)

MicroInv ==
  /\ workload \in {"empty_loop", "read_counter", "build", "traverse"}
  /\ CounterInv /\ interrupts \in 0 .. INTERRUPTS
  /\ val \in [Addr -> Int] /\ next \in [Addr -> Addr \cup {NULL}]
  /\ workload = "empty_loop" => EmptyLoopInv
  /\ workload = "read_counter" => ReadInv
  /\ workload = "build" => BuildInv
  /\ workload = "traverse" => TraverseInv
  /\ workload # "build" => SamplesInv(Cost, Cost + INTERRUPTS)

LEMMA MicroSizes ==
  /\ INNER_OPS \in Nat \ {0} /\ LIST_NODES \in Nat \ {0} /\ INTERRUPTS \in Nat
  /\ NULL \notin Addr /\ COUNTER \in Nat \ {0}
  /\ INNER_OPS + INTERRUPTS < COUNTER /\ 2 + INTERRUPTS < COUNTER
  /\ LIST_NODES + INTERRUPTS < COUNTER
  /\ Cost \in Nat \ {0}
BY MicroAssumption, CounterFacts DEF Cost

LEMMA MicroStart == MicroInit => MicroInv
<1> SUFFICES ASSUME MicroInit PROVE MicroInv OBVIOUS
<1>1. /\ arch \in Archs /\ clock = 0 /\ bench_pc = "start" /\ turn = 0 /\ t0 = 0 /\ samples = <<>>
      /\ workload = "empty_loop" /\ m_i = 0 /\ list_head = NULL /\ interrupts = 0
      /\ val = [a \in Addr |-> 0] /\ next = [a \in Addr |-> NULL]
  BY DEF MicroInit, BenchInit, Archs
<1>2. CounterInv
  <2>1. 0 \in 0 .. COUNTER - 1 BY MicroSizes
  <2> QED BY <1>1, <2>1 DEF CounterInv
<1>3. SamplesInv(Cost, Cost + INTERRUPTS)
  <2>1. <<>> \in Seq(Cost .. Cost + INTERRUPTS) /\ Len(<<>>) = 0 OBVIOUS
  <2>2. WARMUP \in Nat /\ ITERATIONS \in Nat \ {0} BY BenchAssumption
  <2> QED BY <1>1, <2>1, <2>2 DEF SamplesInv
<1>4. EmptyLoopInv BY <1>1 DEF EmptyLoopInv
<1>5. interrupts \in 0 .. INTERRUPTS BY <1>1, MicroSizes
<1> QED BY <1>1, <1>2, <1>3, <1>4, <1>5 DEF MicroInv

(* A tick shows. *)
LEMMA TickShows ==
  ASSUME CounterInv, NEW x \in Nat, Shows(x), x + 1 < COUNTER,
         Tick, UNCHANGED <<arch, turn, t0>>
  PROVE  CounterInv' /\ (turn' >= WARMUP => Since(t0)' = x + 1)
<1>1. t0 \in 0 .. COUNTER - 1 BY DEF CounterInv
<1>2. clock' \in 0 .. COUNTER - 1 BY <1>1, Ticks
<1>3. CounterInv' BY <1>2 DEF CounterInv
<1>4. ASSUME turn >= WARMUP PROVE (clock' - t0) % COUNTER = x + 1
  <2>1. Since(t0) = x BY <1>4 DEF Shows
  <2> QED BY <1>1, <2>1, Ticks
<1> QED BY <1>3, <1>4 DEF Since

(* What a step inside a body leaves alone. *)
LEMMA InBody ==
  ASSUME MicroInv, UNCHANGED <<workload, turn, samples, stats>>,
         bench_pc \notin {"stats", "print"}, bench_pc' \notin {"stats", "print"}
  PROVE  /\ workload # "build" => SamplesInv(Cost, Cost + INTERRUPTS)'
         /\ Cost' = Cost
<1>1. Cost' = Cost BY DEF Cost
<1>2. ASSUME workload # "build" PROVE SamplesInv(Cost, Cost + INTERRUPTS)'
  BY <1>1, <1>2 DEF MicroInv, SamplesInv
<1> QED BY <1>1, <1>2

(***************************************************************************)
(* The blocks of the list are in use.                                      *)
(***************************************************************************)
FollowsNext(u) ==
  u = [m \in 0 .. LIST_NODES |->
         IF m = 0 THEN {list_head} ELSE u[m - 1] \cup {next[a] : a \in u[m - 1] \ {NULL}}]

LEMMA BlocksListed ==
  ASSUME NEW h \in 0 .. LIST_NODES, NEW A, Listing(A, h), NEW x \in 1 .. h
  PROVE  A[x] \in BlocksInUse
<1> DEFINE len == LIST_NODES
           From(m) == {y \in 1 .. h : y >= h - m}
           W == [m \in 0 .. len |-> {A[y] : y \in From(m)} \cup (IF m >= h THEN {NULL} ELSE {})]
           u == CHOOSE u : FollowsNext(u)
<1>1. len \in Nat \ {0} /\ NULL \notin Addr BY MicroSizes
<1>2. /\ \A y \in 1 .. h : A[y] \in Addr /\ A[y] # NULL
      /\ list_head = IF h = 0 THEN NULL ELSE A[h]
      /\ \A y \in 1 .. h : next[A[y]] = IF y = 1 THEN NULL ELSE A[y - 1]
  BY <1>1 DEF Listing
<1>3. FollowsNext(W)
  <2>1. W[0] = {list_head}
    <3>1. CASE h = 0
      <4>1. From(0) = {} BY <3>1
      <4> QED BY <1>1, <1>2, <3>1, <4>1
    <3>2. CASE h # 0
      <4>1. From(0) = {h} BY <3>2
      <4>2. W[0] = {A[h]} BY <1>1, <3>2, <4>1
      <4> QED BY <1>2, <3>2, <4>2
    <3> QED BY <3>1, <3>2
  <2>2. ASSUME NEW m \in 1 .. len
        PROVE  W[m] = W[m - 1] \cup {next[a] : a \in W[m - 1] \ {NULL}}
    <3>1. /\ W[m] = {A[y] : y \in From(m)} \cup (IF m >= h THEN {NULL} ELSE {})
          /\ W[m - 1] = {A[y] : y \in From(m - 1)} \cup (IF m - 1 >= h THEN {NULL} ELSE {})
      BY <1>1
    <3>2. W[m - 1] \ {NULL} = {A[y] : y \in From(m - 1)} BY <1>2, <3>1
    <3> HIDE DEF W
    <3>3. ASSUME NEW e \in W[m] PROVE e \in W[m - 1] \cup {next[a] : a \in W[m - 1] \ {NULL}}
      <4>1. CASE \E y \in From(m) : e = A[y]
        <5>1. PICK y \in From(m) : e = A[y] BY <4>1
        <5>2. CASE y >= h - (m - 1) BY <3>1, <5>1, <5>2
        <5>3. CASE y = h - m
          <6>1. y + 1 \in From(m - 1) /\ y + 1 # 1 /\ (y + 1) - 1 = y BY <5>1, <5>3
          <6>2. A[y + 1] \in W[m - 1] \ {NULL} /\ next[A[y + 1]] = e BY <1>2, <3>2, <5>1, <6>1
          <6> QED BY <6>2
        <5> QED BY <5>1, <5>2, <5>3
      <4>2. CASE e = NULL /\ m >= h
        <5>1. CASE m - 1 >= h BY <3>1, <4>2, <5>1
        <5>2. CASE m = h
          <6>1. 1 \in From(m - 1) BY <5>2
          <6>2. A[1] \in W[m - 1] \ {NULL} /\ next[A[1]] = e BY <1>2, <3>2, <4>2, <6>1
          <6> QED BY <6>2
        <5> QED BY <4>2, <5>1, <5>2
      <4> QED BY <3>1, <4>1, <4>2
    <3>4. ASSUME NEW e \in W[m - 1] PROVE e \in W[m]
      <4>1. From(m - 1) \subseteq From(m) OBVIOUS
      <4>2. m - 1 >= h => m >= h OBVIOUS
      <4> HIDE DEF From
      <4> QED BY <3>1, <4>1, <4>2
    <3>5. ASSUME NEW a \in W[m - 1] \ {NULL} PROVE next[a] \in W[m]
      <4>1. PICK y \in From(m - 1) : a = A[y] BY <3>2
      <4>2. CASE y = 1
        <5>1. m >= h /\ next[a] = NULL BY <1>2, <4>1, <4>2
        <5> QED BY <3>1, <5>1
      <4>3. CASE y # 1
        <5>1. y - 1 \in From(m) /\ next[a] = A[y - 1] BY <1>2, <4>1, <4>3
        <5> QED BY <3>1, <5>1
      <4> QED BY <4>2, <4>3
    <3> QED BY <3>3, <3>4, <3>5
  <2>3. W = [m \in 0 .. len |-> W[m]] OBVIOUS
  <2>4. \A m \in 0 .. len : m # 0 => m \in 1 .. len OBVIOUS
  <2> HIDE DEF W
  <2> QED BY <2>1, <2>2, <2>3, <2>4 DEF FollowsNext
<1>4. FollowsNext(u) BY <1>3
<1>5. BlocksInUse = u[len] BY DEF BlocksInUse, FollowsNext
<1> HIDE DEF u, W
<1>6. u[0] = {list_head}
      /\ \A m \in 1 .. len : u[m] = u[m - 1] \cup {next[a] : a \in u[m - 1] \ {NULL}}
  <2>1. 0 \in 0 .. len /\ \A m \in 1 .. len : m \in 0 .. len /\ m # 0 BY <1>1
  <2> QED BY <1>4, <2>1 DEF FollowsNext
<1> DEFINE Bad == {m \in 0 .. len : \E y \in From(m) : A[y] \notin u[m]}
<1>7. Bad = {}
  <2>1. SUFFICES ASSUME Bad # {} PROVE FALSE OBVIOUS
  <2>2. PICK m \in Bad : \A z \in Bad : m <= z
    <3>1. Bad \in SUBSET Nat OBVIOUS
    <3> HIDE DEF Bad
    <3> QED BY <2>1, <3>1, LeastNumber
  <2>3. PICK y \in From(m) : A[y] \notin u[m] OBVIOUS
  <2>4. CASE m = 0
    <3>1. y = h /\ h # 0 BY <2>3, <2>4
    <3> QED BY <1>2, <1>6, <2>3, <2>4, <3>1
  <2>5. CASE m # 0
    <3>1. m \in 1 .. len /\ m - 1 \in 0 .. len
      <4>1. m \in 0 .. len OBVIOUS
      <4> HIDE DEF Bad, len
      <4> QED BY <1>1, <2>5, <4>1
    <3>2. m - 1 \notin Bad BY <2>2, <3>1
    <3>3. \A z \in From(m - 1) : A[z] \in u[m - 1] BY <3>1, <3>2
    <3>4. CASE y >= h - (m - 1)
      <4>1. y \in From(m - 1) BY <2>3, <3>4
      <4> QED BY <1>6, <2>3, <3>1, <3>3, <4>1
    <3>5. CASE y = h - m
      <4>1. y + 1 \in From(m - 1) /\ y + 1 # 1 /\ (y + 1) - 1 = y BY <2>3, <3>1, <3>5
      <4>2. A[y + 1] \in u[m - 1] \ {NULL} /\ next[A[y + 1]] = A[y] BY <1>2, <3>3, <4>1
      <4> QED BY <1>6, <2>3, <3>1, <4>2
    <3> QED BY <2>3, <3>1, <3>4, <3>5
  <2> QED BY <2>4, <2>5
<1>8. x \in From(len) BY <1>1
<1>9. len \in 0 .. len /\ len \notin Bad BY <1>1, <1>7
<1> QED BY <1>5, <1>8, <1>9

(***************************************************************************)
(* The steps of the program.                                               *)
(***************************************************************************)
LEMMA EmptyLoopStep ==
  ASSUME MicroInv, EmptyLoop \/ EmptyLoopEnds PROVE MicroInv'
<1>1. /\ workload = "empty_loop" /\ bench_pc = "body"
      /\ UNCHANGED <<workload, arch, turn, t0, samples, stats, interrupts, list_head, val, next>>
  BY DEF EmptyLoop, EmptyLoopEnds, At, GoTo, benchVars, listVars
<1>2. EmptyLoopInv /\ CounterInv BY <1>1 DEF MicroInv
<1>3. m_i \in 0 .. INNER_OPS /\ Shows(m_i + interrupts) /\ list_head = NULL
      /\ interrupts \in 0 .. INTERRUPTS
  BY <1>1, <1>2 DEF EmptyLoopInv, MicroInv
<1>4. CASE EmptyLoop
  <2>1. bench_pc' = bench_pc /\ m_i' = m_i + 1 /\ m_i < INNER_OPS /\ Tick
    BY <1>4 DEF EmptyLoop, benchVars
  <2>2. m_i + interrupts \in Nat /\ m_i + interrupts + 1 < COUNTER /\ m_i' \in 0 .. INNER_OPS
        /\ m_i' + interrupts' = m_i + interrupts + 1
    BY <1>1, <1>3, <2>1, MicroSizes
  <2>3. CounterInv' /\ (turn' >= WARMUP => Since(t0)' = m_i + interrupts + 1)
    BY <1>1, <1>2, <1>3, <2>1, <2>2, TickShows
  <2>4. Shows(m_i + interrupts)' BY <2>2, <2>3 DEF Shows
  <2>5. EmptyLoopInv' BY <1>1, <1>3, <2>1, <2>2, <2>4 DEF EmptyLoopInv
  <2>6. SamplesInv(Cost, Cost + INTERRUPTS)' BY <1>1, <2>1, InBody
  <2> QED BY <1>1, <2>3, <2>5, <2>6 DEF MicroInv
<1>5. CASE EmptyLoopEnds
  <2>1. bench_pc' = "end" /\ m_i' = 0 /\ m_i = INNER_OPS /\ clock' = clock
    BY <1>5 DEF EmptyLoopEnds, GoTo
  <2>2. Shows(INNER_OPS + interrupts)' BY <1>1, <1>3, <2>1 DEF Shows, Since
  <2>3. EmptyLoopInv' BY <1>1, <1>3, <2>1, <2>2 DEF EmptyLoopInv
  <2>4. SamplesInv(Cost, Cost + INTERRUPTS)' BY <1>1, <2>1, InBody
  <2>5. CounterInv' BY <1>1, <1>2, <2>1 DEF CounterInv
  <2> QED BY <1>1, <2>3, <2>4, <2>5 DEF MicroInv
<1> QED BY <1>4, <1>5

LEMMA ReadStep ==
  ASSUME MicroInv, ReadFirst \/ ReadSecond PROVE MicroInv'
<1>1. /\ workload = "read_counter" /\ Tick
      /\ UNCHANGED <<workload, arch, turn, t0, samples, stats, interrupts, list_head, val, next, m_i>>
  BY DEF ReadFirst, ReadSecond, At, GoTo, listVars
<1>2. ReadInv /\ CounterInv /\ interrupts \in 0 .. INTERRUPTS BY <1>1 DEF MicroInv
<1>3. clock \in 0 .. COUNTER - 1 /\ t0 \in 0 .. COUNTER - 1 BY <1>2 DEF CounterInv
<1>4. CASE ReadFirst
  <2>1. bench_pc = "body" /\ bench_pc' = "second" /\ inner_t0' = clock
    BY <1>2, <1>4, ReadsClock DEF ReadFirst, At, GoTo
  <2>2. Shows(interrupts) BY <1>2, <2>1 DEF ReadInv
  <2>3. interrupts \in Nat /\ interrupts + 1 < COUNTER /\ 1 + interrupts = interrupts + 1
    BY <1>2, MicroSizes
  <2>4. CounterInv' /\ (turn' >= WARMUP => Since(t0)' = interrupts + 1)
    BY <1>1, <1>2, <2>2, <2>3, TickShows
  <2>5. Since(inner_t0)' = 1
    <3>1. (clock - clock) % COUNTER = 0 BY <1>2, <1>3, Ticks
    <3>2. Since(clock) = 0 /\ 0 + 1 < COUNTER BY <1>2, <3>1, MicroSizes DEF Since
    <3>3. (clock' - clock) % COUNTER = 0 + 1 BY <1>1, <1>2, <1>3, <3>2, Ticks
    <3> QED BY <2>1, <3>3 DEF Since
  <2>6. Shows(1 + interrupts)' BY <1>1, <2>3, <2>4 DEF Shows
  <2>7. ReadInv'
    <3>1. 1 \in 1 .. 1 + interrupts' BY <1>1, <2>3
    <3> QED BY <1>1, <1>2, <1>3, <2>1, <2>5, <2>6, <3>1 DEF ReadInv
  <2>8. SamplesInv(Cost, Cost + INTERRUPTS)' BY <1>1, <2>1, InBody
  <2> QED BY <1>1, <2>4, <2>7, <2>8 DEF MicroInv
<1>5. CASE ReadSecond
  <2>1. bench_pc = "second" /\ bench_pc' = "end" /\ elapsed' = Since(inner_t0)
    BY <1>2, <1>5, ReadsClock DEF ReadSecond, At, GoTo, Since
  <2>2. Shows(1 + interrupts) /\ Since(inner_t0) \in 1 .. 1 + interrupts
    BY <1>2, <2>1 DEF ReadInv
  <2>3. 1 + interrupts \in Nat /\ (1 + interrupts) + 1 < COUNTER
        /\ (1 + interrupts) + 1 = 2 + interrupts
    BY <1>2, MicroSizes
  <2>4. CounterInv' /\ (turn' >= WARMUP => Since(t0)' = (1 + interrupts) + 1)
    BY <1>1, <1>2, <2>2, <2>3, TickShows
  <2>5. Shows(2 + interrupts)' BY <1>1, <2>3, <2>4 DEF Shows
  <2>6. elapsed' \in 1 .. 1 + INTERRUPTS BY <1>2, <2>1, <2>2, MicroSizes
  <2>7. ReadInv' BY <1>1, <1>2, <2>1, <2>5, <2>6 DEF ReadInv
  <2>8. SamplesInv(Cost, Cost + INTERRUPTS)' BY <1>1, <2>1, InBody
  <2> QED BY <1>1, <2>4, <2>7, <2>8 DEF MicroInv
<1> QED BY <1>4, <1>5

LEMMA BuildStep ==
  ASSUME MicroInv, BuildListFails \/ \E a \in Addr : BuildNode(a) PROVE MicroInv'
<1>1. /\ workload = "build" /\ bench_pc = "build"
      /\ UNCHANGED <<workload, arch, turn, t0, samples, stats, interrupts>>
  BY DEF BuildListFails, BuildNode, At, GoTo, benchVars
<1>2. /\ BuildInv /\ CounterInv /\ interrupts \in 0 .. INTERRUPTS
      /\ val \in [Addr -> Int] /\ next \in [Addr -> Addr \cup {NULL}]
  BY <1>1 DEF MicroInv
<1>3. CASE BuildListFails
  <2>1. bench_pc' = "exited" /\ UNCHANGED <<m_i, list_head, val, next, clock>>
    BY <1>3 DEF BuildListFails, GoTo, listVars, bodyVars
  <2>2. BuildInv' BY <1>2, <2>1 DEF BuildInv, Listing
  <2>3. CounterInv' BY <1>1, <1>2, <2>1 DEF CounterInv
  <2> QED BY <1>1, <1>2, <2>1, <2>2, <2>3 DEF MicroInv
<1>4. ASSUME NEW a \in Addr, BuildNode(a) PROVE MicroInv'
  <2>1. /\ m_i < LIST_NODES /\ a \notin BlocksInUse /\ m_i' = m_i + 1 /\ list_head' = a
        /\ val' = [val EXCEPT ![a] = m_i] /\ next' = [next EXCEPT ![a] = list_head]
        /\ Tick /\ bench_pc' = "build"
    BY <1>1, <1>4 DEF BuildNode, Linked, benchVars
  <2>2. PICK A, h : Listing(A, h) /\ h = m_i BY <1>2 DEF BuildInv
  <2>3. h \in 0 .. LIST_NODES BY <1>2, <2>2 DEF BuildInv
  <2>0. PICK B : B = [x \in 1 .. h + 1 |-> IF x = h + 1 THEN a ELSE A[x]] OBVIOUS
  <2>4. \A x \in 1 .. h : A[x] \in Addr /\ A[x] # a
    <3>1. \A x \in 1 .. h : A[x] \in BlocksInUse BY <2>2, <2>3, BlocksListed
    <3> QED BY <2>1, <2>2, <3>1 DEF Listing
  <2>5. h \in Nat /\ m_i' = h + 1 /\ h + 1 \in 0 .. LIST_NODES BY <2>1, <2>2, <2>3, MicroSizes
  <2>6. /\ list_head = IF h = 0 THEN NULL ELSE A[h]
        /\ \A x, y \in 1 .. h : A[x] = A[y] => x = y
        /\ \A x \in 1 .. h : val[A[x]] = x - 1 /\ next[A[x]] = IF x = 1 THEN NULL ELSE A[x - 1]
    BY <2>2 DEF Listing
  <2>7. B \in [1 .. h + 1 -> Addr] /\ B[h + 1] = a /\ \A x \in 1 .. h : B[x] = A[x]
    BY <2>0, <2>4, <2>5
  <2>8. \A x, y \in 1 .. h + 1 : B[x] = B[y] => x = y
    <3>1. \A x \in 1 .. h + 1 : x = h + 1 \/ x \in 1 .. h BY <2>5
    <3> QED BY <2>4, <2>6, <2>7, <3>1
  <2>9. ASSUME NEW x \in 1 .. h + 1
        PROVE  val'[B[x]] = x - 1 /\ next'[B[x]] = IF x = 1 THEN NULL ELSE B[x - 1]
    <3>1. CASE x = h + 1
      <4>1. val'[a] = h /\ next'[a] = list_head BY <1>2, <2>1, <2>2
      <4>2. x - 1 = h /\ (x = 1 <=> h = 0) /\ (h # 0 => h \in 1 .. h) BY <2>5, <3>1
      <4> QED BY <2>6, <2>7, <3>1, <4>1, <4>2
    <3>2. CASE x # h + 1
      <4>1. x \in 1 .. h /\ (x # 1 => x - 1 \in 1 .. h) BY <2>5, <3>2
      <4>2. val'[A[x]] = val[A[x]] /\ next'[A[x]] = next[A[x]] BY <1>2, <2>1, <2>4, <4>1
      <4> QED BY <2>6, <2>7, <4>1, <4>2
    <3> QED BY <3>1, <3>2
  <2>10. Listing(B, h + 1)'
    <3>1. list_head' = IF h + 1 = 0 THEN NULL ELSE B[h + 1] BY <2>1, <2>5, <2>7
    <3> QED BY <2>5, <2>7, <2>8, <2>9, <3>1 DEF Listing
  <2>11. BuildInv' BY <2>1, <2>5, <2>10 DEF BuildInv
  <2>12. CounterInv'
    <3>1. t0 \in 0 .. COUNTER - 1 BY <1>2 DEF CounterInv
    <3>2. clock' \in 0 .. COUNTER - 1 BY <1>2, <2>1, <3>1, Ticks
    <3> QED BY <1>1, <1>2, <3>2 DEF CounterInv
  <2>13. val' \in [Addr -> Int] /\ next' \in [Addr -> Addr \cup {NULL}]
    <3>1. list_head \in Addr \cup {NULL} /\ h \in Int
      <4>1. h # 0 => h \in 1 .. h BY <2>5
      <4> QED BY <2>4, <2>5, <2>6, <4>1
    <3> QED BY <1>2, <2>1, <2>2, <3>1
  <2> QED BY <1>1, <1>2, <2>11, <2>12, <2>13 DEF MicroInv
<1> QED BY <1>3, <1>4

LEMMA Halves == ASSUME NEW x \in Int, NEW y \in Int, 2 * x = y PROVE x = y \div 2
OBVIOUS

LEMMA TraverseStep ==
  ASSUME MicroInv, TraverseBegins \/ TraverseNode \/ TraverseEnds PROVE MicroInv'
<1>1. /\ workload = "traverse" /\ bench_pc \in {"body", "walk"} /\ bench_pc' \in {"walk", "end"}
      /\ UNCHANGED <<workload, arch, turn, t0, samples, stats, interrupts, list_head, val, next>>
  BY DEF TraverseBegins, TraverseNode, TraverseEnds, At, GoTo, benchVars, listVars
<1>2. /\ TraverseInv /\ CounterInv /\ interrupts \in 0 .. INTERRUPTS
      /\ val \in [Addr -> Int] /\ next \in [Addr -> Addr \cup {NULL}]
  BY <1>1 DEF MicroInv
<1>3. PICK A : Listing(A, LIST_NODES) /\ (bench_pc = "walk" => \E x : Left(A, x))
  BY <1>2 DEF TraverseInv
<1>4. Listing(A, LIST_NODES)' BY <1>1, <1>3 DEF Listing
<1>5. SamplesInv(Cost, Cost + INTERRUPTS)' BY <1>1, InBody
<1>6. LIST_NODES \in Nat \ {0} /\ LIST_NODES + INTERRUPTS < COUNTER /\ NULL \notin Addr
  BY MicroSizes
<1>7. CASE TraverseBegins
  <2>1. bench_pc = "body" /\ bench_pc' = "walk" /\ sum' = 0 /\ m_n' = list_head /\ clock' = clock
    BY <1>7 DEF TraverseBegins, At, GoTo
  <2>2. Shows(interrupts) BY <1>2, <2>1 DEF TraverseInv
  <2>3. Left(A, LIST_NODES)'
    <3>1. list_head = A[LIST_NODES] BY <1>3, <1>6 DEF Listing
    <3>2. LIST_NODES - LIST_NODES + interrupts = interrupts BY <1>2, <1>6
    <3>3. Shows(LIST_NODES - LIST_NODES + interrupts)' BY <1>1, <2>1, <2>2, <3>2 DEF Shows, Since
    <3>4. 2 * 0 = LIST_NODES * (LIST_NODES - 1) - LIST_NODES * (LIST_NODES - 1)
      <4>1. LIST_NODES * (LIST_NODES - 1) \in Int BY <1>6
      <4> QED BY <4>1
    <3> QED BY <1>6, <2>1, <3>1, <3>3, <3>4 DEF Left
  <2>4. TraverseInv' BY <1>4, <2>1, <2>3 DEF TraverseInv
  <2>5. CounterInv' BY <1>1, <1>2, <2>1 DEF CounterInv
  <2> QED BY <1>1, <1>2, <1>5, <2>4, <2>5 DEF MicroInv
<1>8. CASE TraverseNode
  <2>1. /\ bench_pc = "walk" /\ bench_pc' = "walk" /\ m_n # NULL /\ Tick
        /\ sum' = sum + val[m_n] /\ m_n' = next[m_n]
    BY <1>8 DEF TraverseNode, At, benchVars
  <2>2. PICK x : Left(A, x) BY <1>3, <2>1
  <2>3. /\ x \in 1 .. LIST_NODES /\ m_n = A[x] /\ sum \in Int
        /\ 2 * sum = LIST_NODES * (LIST_NODES - 1) - x * (x - 1)
        /\ Shows(LIST_NODES - x + interrupts)
    BY <2>1, <2>2 DEF Left
  <2>4. val[m_n] = x - 1 /\ next[m_n] = IF x = 1 THEN NULL ELSE A[x - 1]
    BY <1>3, <2>3 DEF Listing
  <2>5. sum' = sum + (x - 1) /\ sum' \in Int BY <2>1, <2>3, <2>4
  <2>6. 2 * sum' = LIST_NODES * (LIST_NODES - 1) - (x - 1) * ((x - 1) - 1)
    <3> DEFINE T == LIST_NODES * (LIST_NODES - 1)
    <3>1. T \in Int BY <1>6
    <3>2. x \in Int /\ x * (x - 1) - 2 * (x - 1) = (x - 1) * ((x - 1) - 1) BY <2>3
    <3>3. 2 * sum = T - x * (x - 1) BY <2>3
    <3> HIDE DEF T
    <3>4. 2 * (sum + (x - 1)) = T - (x * (x - 1) - 2 * (x - 1)) BY <2>3, <3>1, <3>3
    <3> QED BY <2>5, <3>2, <3>4 DEF T
  <2> DEFINE y == LIST_NODES - x + interrupts
  <2>7. y \in Nat /\ y + 1 < COUNTER /\ LIST_NODES - (x - 1) + interrupts = y + 1
    BY <1>2, <1>6, <2>3, MicroSizes
  <2>8. CounterInv' /\ (turn' >= WARMUP => Since(t0)' = y + 1)
    <3>1. Shows(y) BY <2>3
    <3> HIDE DEF y
    <3> QED BY <1>1, <1>2, <2>1, <2>7, <3>1, TickShows
  <2>9. Left(A, x - 1)'
    <3> HIDE DEF y
    <3>1. x - 1 \in 0 .. LIST_NODES BY <1>6, <2>3
    <3>2. m_n' = IF x - 1 = 0 THEN NULL ELSE A[x - 1] BY <2>1, <2>3, <2>4
    <3>3. Shows(LIST_NODES - (x - 1) + interrupts)' BY <1>1, <2>7, <2>8 DEF Shows
    <3> QED BY <2>5, <2>6, <3>1, <3>2, <3>3 DEF Left
  <2>10. TraverseInv' BY <1>4, <2>1, <2>9 DEF TraverseInv
  <2> QED BY <1>1, <1>2, <1>5, <2>8, <2>10 DEF MicroInv
<1>9. CASE TraverseEnds
  <2>1. bench_pc = "walk" /\ bench_pc' = "end" /\ m_n = NULL /\ UNCHANGED <<clock, sum>>
    BY <1>9 DEF TraverseEnds, At, GoTo, bodyVars
  <2>2. PICK x : Left(A, x) BY <1>3, <2>1
  <2>3. x = 0
    <3>1. x \in 0 .. LIST_NODES /\ (x # 0 => m_n = A[x]) BY <2>2 DEF Left
    <3>2. x # 0 => A[x] \in Addr BY <1>3, <3>1 DEF Listing
    <3> QED BY <1>6, <2>1, <3>1, <3>2
  <2>4. sum \in Int /\ 2 * sum = LIST_NODES * (LIST_NODES - 1) /\ Shows(LIST_NODES + interrupts)
    <3>1. /\ sum \in Int /\ 2 * sum = LIST_NODES * (LIST_NODES - 1) - 0 * (0 - 1)
          /\ Shows(LIST_NODES - 0 + interrupts)
      BY <2>2, <2>3 DEF Left
    <3>2. LIST_NODES - 0 = LIST_NODES /\ LIST_NODES * (LIST_NODES - 1) \in Int BY <1>6
    <3> QED BY <3>1, <3>2
  <2>5. Shows(LIST_NODES + interrupts)' BY <1>1, <2>1, <2>4 DEF Shows, Since
  <2>6. TraverseInv' BY <1>4, <2>1, <2>4, <2>5 DEF TraverseInv
  <2>7. CounterInv' BY <1>1, <1>2, <2>1 DEF CounterInv
  <2> QED BY <1>1, <1>2, <1>5, <2>6, <2>7 DEF MicroInv
<1> QED BY <1>7, <1>8, <1>9

LEMMA InterruptStep == ASSUME MicroInv, Interrupt PROVE MicroInv'
<1>1. /\ bench_pc \in {"body", "second", "walk"} /\ interrupts < INTERRUPTS /\ Tick
      /\ interrupts' = interrupts + 1
      /\ UNCHANGED <<workload, arch, bench_pc, turn, t0, samples, stats, list_head, val, next,
                     m_i, inner_t0, elapsed, m_n, sum>>
  BY DEF Interrupt, benchVars, listVars, bodyVars
<1>2. CounterInv /\ interrupts \in Nat /\ interrupts' \in 0 .. INTERRUPTS
  BY <1>1, MicroSizes DEF MicroInv
<1>3. CounterInv'
  <2>1. t0 \in 0 .. COUNTER - 1 BY <1>2 DEF CounterInv
  <2>2. clock' \in 0 .. COUNTER - 1 BY <1>1, <1>2, <2>1, Ticks
  <2> QED BY <1>1, <1>2, <2>2 DEF CounterInv
<1>4. ASSUME NEW x \in Int, x + interrupts \in Nat, x + INTERRUPTS < COUNTER,
             Shows(x + interrupts)
      PROVE  turn' >= WARMUP => Since(t0)' = x + interrupts'
  <2> DEFINE y == x + interrupts
  <2>1. y \in Nat /\ y + 1 < COUNTER /\ y + 1 = x + interrupts' /\ Shows(y)
    BY <1>1, <1>2, <1>4, MicroSizes
  <2> HIDE DEF y
  <2>2. turn' >= WARMUP => Since(t0)' = y + 1 BY <1>1, <1>2, <2>1, TickShows
  <2> QED BY <2>1, <2>2
<1>5. /\ workload # "build" => SamplesInv(Cost, Cost + INTERRUPTS)'
  BY <1>1, InBody
<1>6. CASE workload = "empty_loop"
  <2>1. bench_pc = "body" /\ m_i \in 0 .. INNER_OPS /\ Shows(m_i + interrupts) /\ list_head = NULL
    BY <1>1, <1>6 DEF MicroInv, EmptyLoopInv
  <2>2. m_i \in Int /\ m_i + interrupts \in Nat /\ m_i + INTERRUPTS < COUNTER
    BY <1>2, <2>1, MicroSizes
  <2>3. turn' >= WARMUP => Since(t0)' = m_i + interrupts' BY <1>4, <2>1, <2>2
  <2>4. EmptyLoopInv' BY <1>1, <2>1, <2>3 DEF EmptyLoopInv, Shows
  <2> QED BY <1>1, <1>2, <1>3, <1>5, <1>6, <2>4 DEF MicroInv
<1>7. CASE workload = "read_counter"
  <2>1. ReadInv /\ bench_pc \in {"body", "second"} BY <1>1, <1>7 DEF MicroInv, ReadInv
  <2>2. CASE bench_pc = "body"
    <3>1. Shows(0 + interrupts)
      <4>1. 0 + interrupts = interrupts BY <1>2
      <4> QED BY <2>1, <2>2, <4>1 DEF ReadInv
    <3>2. turn' >= WARMUP => Since(t0)' = 0 + interrupts' BY <1>2, <1>4, <3>1, MicroSizes
    <3>3. 0 + interrupts' = interrupts' BY <1>1, <1>2
    <3>4. ReadInv' BY <1>1, <2>1, <2>2, <3>2, <3>3 DEF ReadInv, Shows
    <3> QED BY <1>1, <1>2, <1>3, <1>5, <1>7, <3>4 DEF MicroInv
  <2>3. CASE bench_pc = "second"
    <3>1. /\ Shows(1 + interrupts)
          /\ inner_t0 \in 0 .. COUNTER - 1 /\ Since(inner_t0) \in 1 .. 1 + interrupts
      BY <2>1, <2>3 DEF ReadInv
    <3>2. turn' >= WARMUP => Since(t0)' = 1 + interrupts' BY <1>2, <1>4, <3>1, MicroSizes
    <3>3. Since(inner_t0) + 1 < COUNTER /\ Since(inner_t0) \in Nat BY <1>1, <1>2, <3>1, MicroSizes
    <3>4. (clock' - inner_t0) % COUNTER = Since(inner_t0) + 1 BY <1>1, <1>2, <3>1, <3>3, Ticks
    <3>5. Since(inner_t0)' = Since(inner_t0) + 1 BY <1>1, <3>4 DEF Since
    <3>6. Since(inner_t0)' \in 1 .. 1 + interrupts' BY <1>1, <1>2, <3>1, <3>5
    <3>7. ReadInv' BY <1>1, <2>1, <2>3, <3>1, <3>2, <3>6 DEF ReadInv, Shows
    <3> QED BY <1>1, <1>2, <1>3, <1>5, <1>7, <3>7 DEF MicroInv
  <2> QED BY <2>1, <2>2, <2>3
<1>8. CASE workload = "traverse"
  <2>1. TraverseInv /\ bench_pc \in {"body", "walk"} BY <1>1, <1>8 DEF MicroInv, TraverseInv
  <2>2. PICK A : Listing(A, LIST_NODES) /\ (bench_pc = "walk" => \E x : Left(A, x))
    BY <2>1 DEF TraverseInv
  <2>3. Listing(A, LIST_NODES)' BY <1>1, <2>2 DEF Listing
  <2>4. CASE bench_pc = "body"
    <3>1. Shows(0 + interrupts)
      <4>1. 0 + interrupts = interrupts BY <1>2
      <4> QED BY <2>1, <2>4, <4>1 DEF TraverseInv
    <3>2. turn' >= WARMUP => Since(t0)' = 0 + interrupts' BY <1>2, <1>4, <3>1, MicroSizes
    <3>3. 0 + interrupts' = interrupts' BY <1>1, <1>2
    <3>4. TraverseInv' BY <1>1, <2>1, <2>3, <2>4, <3>2, <3>3 DEF TraverseInv, Shows
    <3> QED BY <1>1, <1>2, <1>3, <1>5, <1>8, <3>4 DEF MicroInv
  <2>5. CASE bench_pc = "walk"
    <3>1. PICK x : Left(A, x) BY <2>2, <2>5
    <3>2. x \in 0 .. LIST_NODES /\ Shows(LIST_NODES - x + interrupts) BY <3>1 DEF Left
    <3>3. LIST_NODES - x \in Int /\ LIST_NODES - x + interrupts \in Nat
          /\ LIST_NODES - x + INTERRUPTS < COUNTER
      BY <1>2, <3>2, MicroSizes
    <3>4. turn' >= WARMUP => Since(t0)' = LIST_NODES - x + interrupts' BY <1>4, <3>2, <3>3
    <3>5. Left(A, x)' BY <1>1, <3>1, <3>4 DEF Left, Shows
    <3>6. TraverseInv' BY <1>1, <2>1, <2>3, <2>5, <3>5 DEF TraverseInv
    <3> QED BY <1>1, <1>2, <1>3, <1>5, <1>8, <3>6 DEF MicroInv
  <2> QED BY <2>1, <2>4, <2>5
<1>9. workload # "build" BY <1>1 DEF MicroInv, BuildInv
<1> QED BY <1>6, <1>7, <1>8, <1>9 DEF MicroInv

LEMMA MicroBenchStep == ASSUME MicroInv, MicroBench PROVE MicroInv'
<1>1. /\ BenchStep /\ interrupts' = 0
      /\ UNCHANGED <<workload, list_head, val, next, m_i, inner_t0, elapsed, m_n, sum>>
  BY DEF MicroBench, listVars, bodyVars
<1>2. bench_pc \in {"start", "end", "stats"} BY <1>1 DEF BenchStep, Start, EndTurn, bench_stats
<1>3. workload # "build" BY <1>2 DEF MicroInv, BuildInv
<1>4. PICK lower, upper : lower = Cost /\ upper = Cost + INTERRUPTS OBVIOUS
<1>5. lower \in Nat /\ upper \in Nat /\ upper = lower + INTERRUPTS /\ INTERRUPTS \in Nat BY <1>4, MicroSizes
<1>6. SamplesInv(lower, upper) /\ CounterInv BY <1>3, <1>4 DEF MicroInv
<1>7. ASSUME bench_pc = "end", turn >= WARMUP PROVE Since(t0) \in lower .. upper
  <2>1. Shows(Cost + interrupts) /\ interrupts \in 0 .. INTERRUPTS
    BY <1>3, <1>7 DEF MicroInv, Cost, EmptyLoopInv, ReadInv, TraverseInv
  <2>2. Since(t0) = lower + interrupts BY <1>4, <1>7, <2>1 DEF Shows
  <2> QED BY <1>5, <2>1, <2>2
<1>8. /\ CounterInv' /\ SamplesInv(lower, upper)'
      /\ bench_pc' \in {"start", "body", "stats", "print"}
      /\ bench_pc' = "body" => Shows(0)'
  BY <1>1, <1>5, <1>6, <1>7, BenchTurns
<1>9. SamplesInv(Cost, Cost + INTERRUPTS)'
  <2>1. Cost' = lower /\ (Cost + INTERRUPTS)' = upper BY <1>1, <1>4 DEF Cost
  <2> QED BY <1>8, <2>1 DEF SamplesInv
<1>10. interrupts' \in 0 .. INTERRUPTS /\ 0 + 0 = 0 BY <1>1, <1>5
<1>11. bench_pc' = "body" => Shows(interrupts)' BY <1>1, <1>8 DEF Shows
<1>12. CASE workload = "empty_loop"
  <2>1. EmptyLoopInv BY <1>12 DEF MicroInv
  <2>2. m_i = 0 /\ list_head = NULL BY <1>2, <2>1 DEF EmptyLoopInv
  <2>3. bench_pc' = "body" => Shows(m_i + interrupts)'
    <3>1. m_i' + interrupts' = 0 BY <1>1, <2>2
    <3> QED BY <1>8, <3>1 DEF Shows
  <2>4. 0 \in 0 .. INNER_OPS BY MicroSizes
  <2>5. EmptyLoopInv' BY <1>1, <1>8, <2>2, <2>3, <2>4 DEF EmptyLoopInv
  <2> QED BY <1>1, <1>8, <1>9, <1>10, <1>12, <2>5 DEF MicroInv
<1>13. CASE workload = "read_counter"
  <2>1. ReadInv BY <1>13 DEF MicroInv
  <2>2. ReadInv' BY <1>1, <1>8, <1>11, <2>1 DEF ReadInv
  <2> QED BY <1>1, <1>8, <1>9, <1>10, <1>13, <2>2 DEF MicroInv
<1>14. CASE workload = "traverse"
  <2>1. PICK A : Listing(A, LIST_NODES) BY <1>14 DEF MicroInv, TraverseInv
  <2>2. Listing(A, LIST_NODES)' BY <1>1, <2>1 DEF Listing
  <2>3. TraverseInv' BY <1>8, <1>11, <2>2 DEF TraverseInv
  <2> QED BY <1>1, <1>8, <1>9, <1>10, <1>14, <2>3 DEF MicroInv
<1> QED BY <1>3, <1>12, <1>13, <1>14 DEF MicroInv

LEMMA NextWorkloadStep == ASSUME MicroInv, NextWorkload PROVE MicroInv'
<1>1. /\ m_i' = 0 /\ UNCHANGED <<list_head, val, next, inner_t0, elapsed, m_n, sum, interrupts>>
      /\ CounterInv
  BY DEF NextWorkload, Follows, listVars, MicroInv
<1>2. ASSUME NEW lower \in Int, NEW upper \in Int, NextBenchRun
      PROVE  CounterInv' /\ SamplesInv(lower, upper)' /\ bench_pc' = "start"
  BY <1>1, <1>2, BenchBegins
<1>3. INNER_OPS \in Int /\ LIST_NODES \in Nat /\ INTERRUPTS \in Nat BY MicroSizes
<1>4. CASE Follows("empty_loop", "print", "read_counter") /\ NextBenchRun
  <2>1. workload = "empty_loop" /\ workload' = "read_counter" BY <1>4 DEF Follows, At
  <2>2. CounterInv' /\ SamplesInv(2, 2 + INTERRUPTS)' /\ bench_pc' = "start" BY <1>2, <1>3, <1>4
  <2>3. list_head = NULL BY <2>1 DEF MicroInv, EmptyLoopInv
  <2>4. ReadInv' BY <1>1, <2>2, <2>3 DEF ReadInv
  <2>5. Cost' = 2 BY <2>1 DEF Cost
  <2>6. SamplesInv(Cost, Cost + INTERRUPTS)' BY <2>2, <2>5 DEF SamplesInv
  <2> QED BY <1>1, <2>1, <2>2, <2>4, <2>6 DEF MicroInv
<1>5. CASE Follows("read_counter", "print", "build") /\ bench_pc' = "build"
           /\ UNCHANGED <<arch, clock, turn, t0, samples, stats>>
  <2>1. workload = "read_counter" /\ workload' = "build" BY <1>5 DEF Follows, At
  <2>2. CounterInv' BY <1>1, <1>5 DEF CounterInv
  <2>3. list_head = NULL BY <2>1 DEF MicroInv, ReadInv
  <2>4. BuildInv'
    <3>1. PICK A : A = [x \in 1 .. 0 |-> NULL] OBVIOUS
    <3>2. A \in [1 .. 0 -> Addr] BY <3>1
    <3>3. Listing(A, 0)' BY <1>1, <2>3, <3>2 DEF Listing
    <3> QED BY <1>1, <1>3, <1>5, <3>3 DEF BuildInv
  <2> QED BY <1>1, <2>1, <2>2, <2>4 DEF MicroInv
<1>6. CASE m_i = LIST_NODES /\ Follows("build", "build", "traverse") /\ NextBenchRun
  <2>1. workload = "build" /\ workload' = "traverse" BY <1>6 DEF Follows, At
  <2>2. /\ CounterInv' /\ SamplesInv(LIST_NODES, LIST_NODES + INTERRUPTS)'
        /\ bench_pc' = "start"
    BY <1>2, <1>3, <1>6
  <2>3. PICK A : Listing(A, LIST_NODES) BY <1>6, <2>1 DEF MicroInv, BuildInv
  <2>4. Listing(A, LIST_NODES)' BY <1>1, <2>3 DEF Listing
  <2>5. TraverseInv' BY <2>2, <2>4 DEF TraverseInv
  <2>6. Cost' = LIST_NODES BY <2>1 DEF Cost
  <2>7. SamplesInv(Cost, Cost + INTERRUPTS)' BY <2>2, <2>6 DEF SamplesInv
  <2> QED BY <1>1, <2>1, <2>2, <2>5, <2>7 DEF MicroInv
<1> QED BY <1>4, <1>5, <1>6 DEF NextWorkload

LEMMA MicroStep == MicroInv /\ [MicroNext]_microVars => MicroInv'
<1> SUFFICES ASSUME MicroInv, [MicroNext]_microVars PROVE MicroInv' OBVIOUS
<1>1. CASE UNCHANGED microVars
  <2>1. UNCHANGED <<workload, arch, bench_pc, turn, t0, samples, stats, list_head, val, next,
                    m_i, inner_t0, elapsed, m_n, sum, interrupts, clock>>
    BY <1>1 DEF microVars, listVars, bodyVars, benchVars
  <2>2. Cost' = Cost BY <2>1 DEF Cost
  <2>3. CounterInv' /\ (workload # "build" => SamplesInv(Cost, Cost + INTERRUPTS)')
    BY <2>1, <2>2 DEF MicroInv, CounterInv, SamplesInv
  <2>4. (EmptyLoopInv => EmptyLoopInv') /\ (ReadInv => ReadInv')
    BY <2>1 DEF EmptyLoopInv, ReadInv, Shows, Since
  <2>5. BuildInv => BuildInv' BY <2>1 DEF BuildInv, Listing
  <2>6. TraverseInv => TraverseInv' BY <2>1 DEF TraverseInv, Listing, Left, Shows, Since
  <2> QED BY <2>1, <2>3, <2>4, <2>5, <2>6 DEF MicroInv
<1> QED BY <1>1, EmptyLoopStep, ReadStep, BuildStep, TraverseStep, InterruptStep, MicroBenchStep,
           NextWorkloadStep DEF MicroNext

LEMMA MicroMeasured == MicroInv => WorkloadsMeasured
<1> SUFFICES ASSUME MicroInv PROVE WorkloadsMeasured OBVIOUS
<1>1. ASSUME workload # "build" PROVE Measures(Cost, Cost + INTERRUPTS)
  <2>1. PICK lower, upper : lower = Cost /\ upper = Cost + INTERRUPTS OBVIOUS
  <2>2. lower \in Int /\ upper \in Int BY <2>1, MicroSizes
  <2>3. SamplesInv(lower, upper) BY <1>1, <2>1 DEF MicroInv
  <2>4. Measures(lower, upper) BY <2>2, <2>3, BenchMeasures
  <2> QED BY <2>1, <2>4
<1>2. At("read_counter", "end") => elapsed \in 1 .. 1 + INTERRUPTS
  BY DEF MicroInv, ReadInv, At
<1>3. ASSUME At("traverse", "end") PROVE sum = (LIST_NODES * (LIST_NODES - 1)) \div 2
  <2>1. sum \in Int /\ 2 * sum = LIST_NODES * (LIST_NODES - 1)
    BY <1>3 DEF MicroInv, TraverseInv, At
  <2>2. LIST_NODES * (LIST_NODES - 1) \in Int BY MicroSizes
  <2> QED BY <2>1, <2>2, Halves
<1> QED BY <1>1, <1>2, <1>3 DEF WorkloadsMeasured

(* At every moment the program that runs has its invariant.  *)
WholeInv ==
  /\ program \in {"ch02", "ch03", "scripts"}
  /\ program = "ch02" => CountInv
  /\ program = "ch03" => MicroInv

(* Every sample of chapters 2 and 3 is the cost of one whole body, and the *)
(* statistics printed are of all of them (BENCH_RUN, lines 85-100 of       *)
(* benchmark.h, and bench_stats): for all numbers of turns, operations,    *)
(* nodes and interrupts, and whatever the linker and malloc do.            *)
THEOREM SamplesAlwaysWhole == HarnessSpec => []SamplesAreWhole
<1>1. HarnessInit => WholeInv
  BY CountStart, MicroStart DEF HarnessInit, WholeInv
<1>2. WholeInv /\ [HarnessNext]_harnessVars => WholeInv'
  <2> SUFFICES ASSUME WholeInv, [HarnessNext]_harnessVars PROVE WholeInv'
    OBVIOUS
  <2>1. program' = program BY DEF HarnessNext, harnessVars
  <2>2. CASE program = "ch02"
    <3>1. [SharingNext]_sharingVars BY <2>2 DEF HarnessNext, harnessVars
    <3> QED BY <2>1, <2>2, <3>1, CountStep DEF WholeInv
  <2>3. CASE program = "ch03"
    <3>1. [MicroNext]_microVars BY <2>3 DEF HarnessNext, harnessVars
    <3> QED BY <2>1, <2>3, <3>1, MicroStep DEF WholeInv
  <2> QED BY <2>1, <2>2, <2>3 DEF WholeInv
<1>3. WholeInv => SamplesAreWhole
  BY CountMeasured, MicroMeasured DEF WholeInv, SamplesAreWhole
<1> QED BY <1>1, <1>2, <1>3, PTL DEF HarnessSpec

(***************************************************************************)
(* The searches of chapter 9, for every N and whatever rand() returns.     *)
(* D[n] are the nodes of the subtree at n.  As the code has no parent      *)
(* pointers, that an insertion keeps the order above the leaf it appends   *)
(* follows from what the descent has seen: where cur is in the left        *)
(* subtree of n, the key went left there.                                  *)
(***************************************************************************)
Sides == {"left", "right"}
TreeNode == [key : Present, left : Nat, right : Nat]
TreeNodes == DOMAIN node

SetupInv ==
  /\ bst_pc \in {"shuffle", "insert", "descend", "bst_search", "arr_search", "done", "exited"}
  /\ setup_i \in 0 .. N
  /\ bst_pc \in {"shuffle", "descend"} => setup_i < N
  /\ bst_pc \in {"bst_search", "arr_search", "done"} => setup_i = N
  /\ keys \in [0 .. N - 1 -> Present]
  /\ \A v \in Present : \E m \in 0 .. N - 1 : keys[m] = v

NodesInv ==
  /\ node \in Seq(TreeNode)
  /\ bst_root = IF node = <<>> THEN Nil ELSE 1
  /\ bst_pc = "shuffle" => node = <<>>
  /\ bst_pc # "shuffle" =>
       \A m \in 0 .. setup_i - 1 : \E x \in TreeNodes : node[x].key = keys[m]

Under(D, c) == IF c = Nil THEN {} ELSE D[c]

IsTree(D) ==
  /\ D \in [TreeNodes -> SUBSET TreeNodes]
  /\ TreeNodes # {} => D[1] = TreeNodes
  /\ \A p \in TreeNodes, s \in Sides :
       node[p][s] # Nil => node[p][s] \in TreeNodes /\ node[p][s] > p
  /\ \A p \in TreeNodes :
       /\ D[p] = {p} \cup Under(D, node[p]["left"]) \cup Under(D, node[p]["right"])
       /\ \A x \in D[p] : x >= p
       /\ \A x \in Under(D, node[p]["left"]) : node[x].key < node[p].key
       /\ \A x \in Under(D, node[p]["right"]) : node[x].key > node[p].key

(* A node has one parent, which is in every subtree that it is not the     *)
(* root of.                                                                *)
HasParents(D) ==
  \A p \in TreeNodes, s \in Sides : node[p][s] # Nil =>
    /\ \A m \in TreeNodes : node[p][s] \in D[m] => node[p][s] = m \/ p \in D[m]
    /\ \A m \in TreeNodes, r \in Sides : node[m][r] = node[p][s] => m = p /\ r = s

InsertPath(D) ==
  bst_pc = "descend" =>
    /\ cur \in TreeNodes
    /\ \A p \in TreeNodes :
         /\ cur \in Under(D, node[p]["left"]) => keys[setup_i] < node[p].key
         /\ cur \in Under(D, node[p]["right"]) => keys[setup_i] > node[p].key

SearchPath(D) ==
  bst_pc = "bst_search" =>
    /\ key \in Int /\ cur \in {Nil} \cup TreeNodes
    /\ key \in Present => \E x \in Under(D, cur) : node[x].key = key

TreeInv == \E D : IsTree(D) /\ HasParents(D) /\ InsertPath(D) /\ SearchPath(D)

Answer == IF key \in Present THEN 1 ELSE 0

IntervalInv ==
  /\ lo \in 0 .. N /\ hi \in 0 .. N
  /\ bst_pc \notin {"arr_search", "done"} => lo = 0 /\ hi = N
  /\ bst_pc = "arr_search" =>
       /\ key \in Int /\ lo <= hi
       /\ key \in Present => \E m \in lo .. hi - 1 : sorted[m] = key
  /\ found = [tree  |-> IF bst_pc \in {"arr_search", "done"} THEN Answer ELSE Unasked,
              array |-> IF bst_pc = "done" THEN Answer ELSE Unasked]

LEMMA SortedFacts ==
  /\ N \in Nat \ {0} /\ LookupKey \subseteq Int
  /\ \A m \in 0 .. N - 1 : sorted[m] = 3 * m + 1 /\ sorted[m] \in Present
  /\ Present \subseteq Int
  /\ \A v \in Present : \E m \in 0 .. N - 1 : v = sorted[m]
BY BstAssumption DEF sorted, Present

LEMMA BstStart == BstInit => SetupInv /\ NodesInv /\ TreeInv /\ IntervalInv
<1> SUFFICES ASSUME BstInit PROVE SetupInv /\ NodesInv /\ TreeInv /\ IntervalInv
  OBVIOUS
<1>1. keys = sorted /\ sorted \in [0 .. N - 1 -> Present]
  BY SortedFacts DEF BstInit, sorted
<1>2. SetupInv
  <2>1. bst_pc = "shuffle" /\ setup_i = N - 1 BY DEF BstInit
  <2>2. \A v \in Present : \E m \in 0 .. N - 1 : keys[m] = v BY <1>1, SortedFacts
  <2>3. setup_i \in 0 .. N /\ setup_i < N BY <2>1, SortedFacts
  <2> QED BY <1>1, <2>1, <2>2, <2>3 DEF SetupInv
<1>3. NodesInv BY DEF BstInit, NodesInv
<1>4. TreeInv
  <2>1. node = <<>> /\ TreeNodes = {} BY DEF BstInit, TreeNodes
  <2> DEFINE D == [p \in TreeNodes |-> {}]
  <2>2. D \in [TreeNodes -> SUBSET TreeNodes] OBVIOUS
  <2>3. bst_pc = "shuffle" BY DEF BstInit
  <2>4. IsTree(D) /\ HasParents(D) /\ InsertPath(D) /\ SearchPath(D)
    BY <2>1, <2>2, <2>3 DEF IsTree, HasParents, InsertPath, SearchPath
  <2> QED BY <2>4 DEF TreeInv
<1>5. IntervalInv BY SortedFacts DEF BstInit, IntervalInv
<1> QED BY <1>2, <1>3, <1>4, <1>5

(* The shuffle keeps the keys. *)
LEMMA SetupStep == SetupInv /\ [BstNext]_bstVars => SetupInv'
<1> SUFFICES ASSUME SetupInv, [BstNext]_bstVars PROVE SetupInv' OBVIOUS
<1> USE SortedFacts
<1>0. Present' = Present BY DEF Present, sorted
<1>1. CASE Shuffle
  <2>1. PICK j \in 0 .. setup_i :
          keys' = [keys EXCEPT ![setup_i] = keys[j], ![j] = keys[setup_i]]
    BY <1>1 DEF Shuffle
  <2>2. /\ setup_i \in 0 .. N - 1 /\ setup_i > 0 /\ setup_i' = setup_i - 1
        /\ bst_pc = "shuffle" /\ bst_pc' = "shuffle"
    BY <1>1 DEF Shuffle, SetupInv
  <2>3. keys \in [0 .. N - 1 -> Present] /\ j \in 0 .. N - 1
    BY <2>2 DEF SetupInv
  <2>4. keys' \in [0 .. N - 1 -> Present] BY <2>1, <2>2, <2>3
  <2>5. ASSUME NEW v \in Present PROVE \E m \in 0 .. N - 1 : keys'[m] = v
    <3>1. PICK m \in 0 .. N - 1 : keys[m] = v BY DEF SetupInv
    <3>2. keys'[IF m = j THEN setup_i ELSE IF m = setup_i THEN j ELSE m] = v
      BY <2>1, <2>2, <2>3, <3>1
    <3> QED BY <2>2, <2>3, <3>1, <3>2
  <2> QED BY <1>0, <2>2, <2>4, <2>5 DEF SetupInv
<1>2. CASE ~ Shuffle
  <2>1. keys' = keys
    BY <1>2 DEF BstNext, ShuffleDone, InsertRoot, InsertBegin, InsertDescends, InsertEnds,
                InsertFails, SetupReturns, BstDescend, BstReturn, ArrHalve, ArrReturn,
                bstVars, setupVars
  <2>2. /\ bst_pc \in {"shuffle", "insert", "descend", "bst_search", "arr_search", "done",
                       "exited"}
        /\ setup_i \in 0 .. N
        /\ bst_pc \in {"shuffle", "descend"} => setup_i < N
        /\ bst_pc \in {"bst_search", "arr_search", "done"} => setup_i = N
    BY DEF SetupInv
  <2> DEFINE Goal == /\ bst_pc' \in {"shuffle", "insert", "descend", "bst_search",
                                    "arr_search", "done", "exited"}
                     /\ setup_i' \in 0 .. N
                     /\ bst_pc' \in {"shuffle", "descend"} => setup_i' < N
                     /\ bst_pc' \in {"bst_search", "arr_search", "done"} => setup_i' = N
  <2>3. ASSUME ShuffleDone \/ InsertBegin PROVE Goal
    <3>1. bst_pc' \in {"insert", "descend"} /\ setup_i' = setup_i /\ setup_i < N
      BY <2>2, <2>3 DEF ShuffleDone, InsertBegin, setupVars
    <3> QED BY <2>2, <3>1
  <2>4. ASSUME InsertRoot \/ InsertEnds PROVE Goal
    <3>1. bst_pc' = "insert" /\ setup_i' = setup_i + 1 /\ setup_i < N
      BY <2>2, <2>4 DEF InsertRoot, InsertEnds
    <3> QED BY <2>2, <3>1
  <2>5. ASSUME InsertDescends \/ BstDescend \/ ArrHalve \/ UNCHANGED bstVars PROVE Goal
    <3>1. bst_pc' = bst_pc /\ setup_i' = setup_i
      BY <2>5 DEF InsertDescends, BstDescend, ArrHalve, setupVars, bstVars
    <3> QED BY <2>2, <3>1
  <2>6. ASSUME InsertFails PROVE Goal
    BY <2>2, <2>6 DEF InsertFails, setupVars
  <2>7. ASSUME SetupReturns PROVE Goal
    BY <2>2, <2>7 DEF SetupReturns, setupVars
  <2>8. ASSUME BstReturn \/ ArrReturn PROVE Goal
    BY <2>2, <2>8 DEF BstReturn, ArrReturn, setupVars
  <2>9. Goal BY <1>2, <2>3, <2>4, <2>5, <2>6, <2>7, <2>8 DEF BstNext
  <2>10. keys \in [0 .. N - 1 -> Present] /\ \A v \in Present : \E m \in 0 .. N - 1 : keys[m] = v
    BY DEF SetupInv
  <2> HIDE DEF Goal
  <2> QED BY <1>0, <2>1, <2>9, <2>10 DEF SetupInv, Goal
<1> QED BY <1>1, <1>2

(* What InsertEnds appends: a leaf, linked on side s of cur. *)
Appended(s, h) ==
  LET new == Len(node) + 1
  IN /\ new \notin TreeNodes /\ new \in Nat \ {Nil} /\ \A p \in TreeNodes : p < new
     /\ node' \in Seq(TreeNode)
     /\ DOMAIN node' = TreeNodes \cup {new}
     /\ \A p \in TreeNodes : node'[p].key = node[p].key
     /\ \A p \in TreeNodes, r \in Sides :
          node'[p][r] = IF p = cur /\ r = s THEN new ELSE node[p][r]
     /\ node'[new].key = h
     /\ \A r \in Sides : node'[new][r] = Nil

LEMMA AppendsLeaf ==
  ASSUME NEW s \in Sides, NEW h \in Present, node \in Seq(TreeNode), cur \in TreeNodes,
         node' = Append([node EXCEPT ![cur][s] = Len(node) + 1], Leaf(h))
  PROVE  Appended(s, h)
<1> DEFINE new == Len(node) + 1
           linked == [node[cur] EXCEPT ![s] = new]
           all == [node EXCEPT ![cur] = linked]
<1>1. /\ Len(node) \in Nat /\ TreeNodes = 1 .. Len(node)
      /\ \A p \in TreeNodes : node[p] \in TreeNode
  BY DEF TreeNodes
<1>2. /\ linked \in TreeNode /\ linked.key = node[cur].key /\ linked[s] = new
      /\ \A r \in Sides : r # s => linked[r] = node[cur][r]
  <2>1. node[cur] \in TreeNode /\ new \in Nat BY <1>1
  <2>2. CASE s = "left" BY <2>1, <2>2 DEF TreeNode, Sides
  <2>3. CASE s = "right" BY <2>1, <2>3 DEF TreeNode, Sides
  <2> QED BY <2>2, <2>3 DEF Sides
<1>3. /\ all \in Seq(TreeNode) /\ Len(all) = Len(node)
      /\ \A p \in TreeNodes : all[p] = IF p = cur THEN linked ELSE node[p]
  <2> HIDE DEF linked
  <2> QED BY <1>1, <1>2
<1>4. Leaf(h) \in TreeNode /\ Leaf(h).key = h /\ \A r \in Sides : Leaf(h)[r] = Nil
  BY DEF Leaf, TreeNode, Sides, Nil
<1>5. node' = Append(all, Leaf(h)) OBVIOUS
<1>6. /\ node' \in Seq(TreeNode) /\ DOMAIN node' = TreeNodes \cup {new}
      /\ \A p \in TreeNodes : node'[p] = all[p]
      /\ node'[new] = Leaf(h)
  <2> DEFINE e == Leaf(h)
  <2> HIDE DEF all, linked, e
  <2>1. /\ all \in Seq(TreeNode) /\ Len(all) = Len(node) /\ e \in TreeNode
        /\ node' = Append(all, e)
    BY <1>3, <1>4, <1>5 DEF e
  <2>2. /\ node' \in Seq(TreeNode) /\ Len(node') = Len(node) + 1
        /\ \A p \in 1 .. Len(node) : node'[p] = all[p]
        /\ node'[Len(node) + 1] = e
    <3>1. Append(all, e) \in Seq(TreeNode) /\ Len(Append(all, e)) = Len(all) + 1
      BY <2>1, AppendFacts
    <3>2. \A p \in 1 .. Len(all) : Append(all, e)[p] = all[p] BY <2>1, AppendFacts
    <3>3. Append(all, e)[Len(all) + 1] = e BY <2>1, AppendFacts
    <3> QED BY <2>1, <3>1, <3>2, <3>3, Zenon
  <2>3. DOMAIN node' = 1 .. Len(node) + 1 BY <2>2
  <2>4. 1 .. Len(node) + 1 = (1 .. Len(node)) \cup {Len(node) + 1} BY <1>1
  <2> QED BY <1>1, <2>2, <2>3, <2>4 DEF e
<1>7. \A p \in TreeNodes : node'[p].key = node[p].key
  <2> HIDE DEF all, linked
  <2> QED BY <1>2, <1>3, <1>6
<1>8. \A p \in TreeNodes, r \in Sides :
        node'[p][r] = IF p = cur /\ r = s THEN new ELSE node[p][r]
  <2> HIDE DEF all, linked
  <2> QED BY <1>2, <1>3, <1>6
<1> HIDE DEF all, linked
<1> QED BY <1>1, <1>4, <1>6, <1>7, <1>8 DEF Appended, Nil

(* The key of an insertion is in the tree when setup goes on to the next. *)
LEMMA NodesStep ==
  SetupInv /\ NodesInv /\ (bst_pc = "descend" => cur \in TreeNodes) /\ [BstNext]_bstVars
    => NodesInv'
<1> SUFFICES ASSUME SetupInv, NodesInv, bst_pc = "descend" => cur \in TreeNodes,
                    [BstNext]_bstVars
             PROVE  NodesInv'
  OBVIOUS
<1> USE SortedFacts
<1>0. Present' = Present /\ TreeNode' = TreeNode BY DEF Present, sorted, TreeNode
<1>1. CASE Shuffle \/ ShuffleDone
  <2>1. /\ node' = node /\ bst_root' = bst_root /\ node = <<>> /\ bst_pc = "shuffle"
        /\ bst_pc' = "insert" => setup_i' = 0
        /\ bst_pc' \in {"shuffle", "insert"}
    BY <1>1 DEF Shuffle, ShuffleDone, setupVars, NodesInv
  <2> QED BY <1>0, <2>1 DEF NodesInv
<1>2. CASE InsertRoot
  <2>1. /\ node' = <<Leaf(keys[setup_i])>> /\ bst_root' = 1 /\ keys' = keys
        /\ bst_pc = "insert" /\ bst_pc' = "insert" /\ setup_i' = setup_i + 1
        /\ bst_root = Nil /\ setup_i < N
    BY <1>2 DEF InsertRoot
  <2>2. node = <<>> BY <2>1 DEF NodesInv, Nil
  <2>3. setup_i = 0
    <3>1. \A m \in 0 .. setup_i - 1 : FALSE
      BY <2>1, <2>2 DEF NodesInv, TreeNodes
    <3>2. setup_i \in Nat BY DEF SetupInv
    <3>3. setup_i > 0 => 0 \in 0 .. setup_i - 1 BY <3>2
    <3> QED BY <3>1, <3>2, <3>3
  <2>4. keys[setup_i] \in Present BY <2>1, <2>3 DEF SetupInv
  <2>5. Leaf(keys[setup_i]) \in TreeNode /\ Leaf(keys[setup_i]).key = keys[setup_i]
    BY <2>4 DEF Leaf, TreeNode, Nil
  <2>6. /\ node' \in Seq(TreeNode) /\ node' # <<>> /\ TreeNodes' = {1}
        /\ node'[1].key = keys[0]
    BY <2>1, <2>3, <2>5 DEF TreeNodes
  <2> QED BY <1>0, <2>1, <2>3, <2>6 DEF NodesInv
<1>3. CASE InsertEnds
  <2> DEFINE h == keys[setup_i]
             s == SideOf(h, node[cur])
  <2>1. /\ bst_root' = bst_root /\ keys' = keys /\ bst_pc = "descend" /\ bst_pc' = "insert"
        /\ setup_i' = setup_i + 1 /\ setup_i \in 0 .. N - 1 /\ cur \in TreeNodes
        /\ setup_i \in Nat
    BY <1>3 DEF InsertEnds, SetupInv
  <2>2. h \in Present /\ s \in Sides BY <2>1 DEF SetupInv, SideOf, Sides
  <2>3. \A m \in 0 .. setup_i - 1 : \E x \in TreeNodes : node[x].key = keys[m]
    BY <2>1 DEF NodesInv
  <2>4. CASE h = node[cur].key
    <3>1. node' = node BY <1>3, <2>4 DEF InsertEnds, Appends
    <3>2. \A m \in 0 .. setup_i : \E x \in TreeNodes : node[x].key = keys[m]
      BY <2>1, <2>3, <2>4
    <3>3. setup_i' - 1 = setup_i /\ TreeNodes' = TreeNodes BY <2>1, <3>1 DEF TreeNodes
    <3> QED BY <1>0, <2>1, <3>1, <3>2, <3>3 DEF NodesInv
  <2>5. CASE h # node[cur].key
    <3>1. node' = Append([node EXCEPT ![cur][s] = Len(node) + 1], Leaf(h))
      BY <1>3, <2>5 DEF InsertEnds, Appends
    <3>2. Appended(s, h)
      <4> HIDE DEF s, h
      <4> QED BY <2>1, <2>2, <3>1, AppendsLeaf DEF NodesInv
    <3>3. \A m \in 0 .. setup_i : \E x \in DOMAIN node' : node'[x].key = keys[m]
      BY <2>1, <2>3, <3>2 DEF Appended
    <3>4. setup_i' - 1 = setup_i /\ TreeNodes' = DOMAIN node' BY <2>1 DEF TreeNodes
    <3>5. node' # <<>> /\ node # <<>> /\ node' \in Seq(TreeNode)
      <4>1. DOMAIN node # {} /\ DOMAIN node' # {} BY <2>1, <3>2 DEF Appended, TreeNodes
      <4>2. DOMAIN <<>> = {} OBVIOUS
      <4> QED BY <3>2, <4>1, <4>2 DEF Appended
    <3> QED BY <1>0, <2>1, <3>3, <3>4, <3>5 DEF NodesInv
  <2> QED BY <2>4, <2>5
<1>4. CASE ~ (Shuffle \/ ShuffleDone \/ InsertRoot \/ InsertEnds)
  <2>1. /\ node' = node /\ bst_root' = bst_root /\ keys' = keys /\ setup_i' = setup_i
        /\ bst_pc # "shuffle" => bst_pc' # "shuffle"
        /\ bst_pc = "shuffle" => bst_pc' = "shuffle"
    BY <1>4 DEF BstNext, InsertBegin, InsertDescends, InsertFails, SetupReturns, BstDescend,
                BstReturn, ArrHalve, ArrReturn, bstVars, setupVars
  <2>2. TreeNodes' = TreeNodes BY <2>1 DEF TreeNodes
  <2> QED BY <1>0, <2>1, <2>2 DEF NodesInv
<1> QED BY <1>1, <1>2, <1>3, <1>4

(* Appending a leaf where the descent has ended.                           *)
LEMMA InsertTree ==
  ASSUME NEW D, NEW s \in Sides, NEW h \in Int, IsTree(D), HasParents(D), Appended(s, h),
         cur \in TreeNodes, node[cur][s] = Nil, 1 \in TreeNodes, TreeNodes \subseteq Nat,
         \A p \in TreeNodes : node[p].key \in Int,
         s = "left" => h < node[cur].key, s = "right" => h > node[cur].key,
         \A p \in TreeNodes :
           /\ cur \in Under(D, node[p]["left"]) => h < node[p].key
           /\ cur \in Under(D, node[p]["right"]) => h > node[p].key
  PROVE  \E E : IsTree(E)' /\ HasParents(E)'
<1> DEFINE new == Len(node) + 1
           All == TreeNodes \cup {new}
           Grafted == [p \in All |-> IF p = new THEN {new}
                                    ELSE IF cur \in D[p] THEN D[p] \cup {new} ELSE D[p]]
           U(p, r) == Under(D, node[p][r])
<1>0. PICK E : E = Grafted OBVIOUS
<1> DEFINE V(p, r) == Under(E, node'[p][r])
<1>1. /\ new \notin TreeNodes /\ new \in Nat /\ new # Nil /\ \A p \in TreeNodes : p < new
      /\ TreeNodes' = All
      /\ \A p \in TreeNodes : node'[p].key = node[p].key
      /\ \A p \in TreeNodes, r \in Sides :
           node'[p][r] = IF p = cur /\ r = s THEN new ELSE node[p][r]
      /\ node'[new].key = h
      /\ \A r \in Sides : node'[new][r] = Nil
  BY DEF Appended, TreeNodes
<1>2. /\ \A p \in TreeNodes : D[p] \in SUBSET TreeNodes
      /\ D[1] = TreeNodes
      /\ \A p \in TreeNodes, r \in Sides :
           node[p][r] # Nil => node[p][r] \in TreeNodes /\ node[p][r] > p
      /\ \A p \in TreeNodes :
           /\ D[p] = {p} \cup U(p, "left") \cup U(p, "right")
           /\ \A x \in D[p] : x >= p
           /\ \A x \in U(p, "left") : node[x].key < node[p].key
           /\ \A x \in U(p, "right") : node[x].key > node[p].key
  BY DEF IsTree
<1>3. /\ E \in [All -> SUBSET All] /\ E[new] = {new}
      /\ \A p \in TreeNodes : E[p] = IF cur \in D[p] THEN D[p] \cup {new} ELSE D[p]
  <2>1. \A p \in TreeNodes : p # new BY <1>1
  <2> QED BY <1>0, <1>2, <2>1
<1> HIDE DEF new
<1>4. \A p \in TreeNodes, r \in Sides : U(p, r) \subseteq D[p] /\ U(p, r) \subseteq TreeNodes
  BY <1>2 DEF Sides
<1>5. \A r \in Sides : cur \notin U(cur, r)
  <2> SUFFICES ASSUME NEW r \in Sides, cur \in U(cur, r) PROVE FALSE OBVIOUS
  <2>1. node[cur][r] # Nil BY DEF Under
  <2>2. node[cur][r] \in TreeNodes /\ node[cur][r] > cur BY <1>2, <2>1
  <2>3. cur \in D[node[cur][r]] BY <2>1 DEF Under
  <2>4. cur >= node[cur][r] BY <1>2, <2>2, <2>3
  <2>5. cur \in Int /\ node[cur][r] \in Int
    <3>1. TreeNodes \subseteq Int OBVIOUS
    <3> QED BY <2>2, <3>1
  <2> PICK child \in Int : child = node[cur][r] BY <2>5
  <2>6. child > cur /\ cur >= child BY <2>2, <2>4
  <2> QED BY <2>5, <2>6
<1>6. \A p \in TreeNodes, r \in Sides :
        V(p, r) = IF p = cur /\ r = s THEN {new}
                  ELSE IF cur \in U(p, r) THEN U(p, r) \cup {new} ELSE U(p, r)
  <2> SUFFICES ASSUME NEW p \in TreeNodes, NEW r \in Sides
               PROVE  V(p, r) = IF p = cur /\ r = s THEN {new}
                                ELSE IF cur \in U(p, r) THEN U(p, r) \cup {new} ELSE U(p, r)
    OBVIOUS
  <2>1. CASE p = cur /\ r = s
    <3>1. node'[p][r] = new BY <1>1, <2>1
    <3> QED BY <1>1, <1>3, <2>1, <3>1 DEF Under
  <2>2. CASE ~ (p = cur /\ r = s)
    <3>1. node'[p][r] = node[p][r] BY <1>1, <2>2
    <3>2. node[p][r] # Nil => node[p][r] \in TreeNodes BY <1>2
    <3> QED BY <1>3, <2>2, <3>1, <3>2 DEF Under
  <2> QED BY <2>1, <2>2
<1>7. ASSUME NEW p \in TreeNodes
      PROVE  /\ E[p] = {p} \cup V(p, "left") \cup V(p, "right")
             /\ \A x \in E[p] : x >= p
             /\ \A x \in V(p, "left") : node'[x].key < node'[p].key
             /\ \A x \in V(p, "right") : node'[x].key > node'[p].key
  <2>1. "left" \in Sides /\ "right" \in Sides /\ s \in {"left", "right"} BY DEF Sides
  <2>2. E[p] = {p} \cup V(p, "left") \cup V(p, "right")
    <3>1. CASE p = cur
      <4>1. U(cur, s) = {} BY DEF Under
      <4>2. cur \in D[cur] BY <1>2
      <4>3. D[cur] = {cur} \cup U(cur, "left") \cup U(cur, "right") BY <1>2
      <4>4. E[cur] = D[cur] \cup {new} BY <1>3, <4>2
      <4>5. /\ V(cur, s) = {new}
            /\ \A r \in Sides : r # s => V(cur, r) = U(cur, r)
        BY <1>5, <1>6
      <4> HIDE DEF U, V
      <4>6. CASE s = "left" BY <2>1, <3>1, <4>1, <4>3, <4>4, <4>5, <4>6
      <4>7. CASE s = "right" BY <2>1, <3>1, <4>1, <4>3, <4>4, <4>5, <4>7
      <4> QED BY <2>1, <4>6, <4>7
    <3>2. CASE p # cur
      <4>1. D[p] = {p} \cup U(p, "left") \cup U(p, "right") BY <1>2
      <4>2. /\ V(p, "left") = IF cur \in U(p, "left") THEN U(p, "left") \cup {new} ELSE U(p, "left")
            /\ V(p, "right") = IF cur \in U(p, "right") THEN U(p, "right") \cup {new}
                              ELSE U(p, "right")
        BY <1>6, <2>1, <3>2
      <4>3. E[p] = IF cur \in D[p] THEN D[p] \cup {new} ELSE D[p] BY <1>3
      <4> QED BY <3>2, <4>1, <4>2, <4>3
    <3> QED BY <3>1, <3>2
  <2>3. \A x \in E[p] : x >= p BY <1>1, <1>2, <1>3
  <2>4. ASSUME NEW r \in Sides, NEW x \in V(p, r)
        PROVE  \/ x = new /\ p = cur /\ r = s
               \/ x = new /\ cur \in U(p, r)
               \/ x \in U(p, r) /\ x \in TreeNodes
    BY <1>4, <1>6, <2>4
  <2>5. ASSUME NEW x \in V(p, "left") PROVE node'[x].key < node'[p].key
    <3>1. node'[p].key = node[p].key BY <1>1
    <3>2. ASSUME x = new, p = cur, s = "left" PROVE node'[x].key < node[p].key
      BY <1>1, <3>2
    <3>3. ASSUME x = new, cur \in U(p, "left") PROVE node'[x].key < node[p].key
      BY <1>1, <3>3
    <3>4. ASSUME x \in U(p, "left"), x \in TreeNodes PROVE node'[x].key < node[p].key
      BY <1>1, <1>2, <3>4
    <3> HIDE DEF U, V
    <3> QED BY <2>1, <2>4, <2>5, <3>1, <3>2, <3>3, <3>4
  <2>6. ASSUME NEW x \in V(p, "right") PROVE node'[x].key > node'[p].key
    <3>1. node'[p].key = node[p].key BY <1>1
    <3>2. ASSUME x = new, p = cur, s = "right" PROVE node'[x].key > node[p].key
      BY <1>1, <3>2
    <3>3. ASSUME x = new, cur \in U(p, "right") PROVE node'[x].key > node[p].key
      BY <1>1, <3>3
    <3>4. ASSUME x \in U(p, "right"), x \in TreeNodes PROVE node'[x].key > node[p].key
      BY <1>1, <1>2, <3>4
    <3> HIDE DEF U, V
    <3> QED BY <2>1, <2>4, <2>6, <3>1, <3>2, <3>3, <3>4
  <2> QED BY <2>2, <2>3, <2>5, <2>6
<1>8. IsTree(E)'
  <2>1. E[1] = All BY <1>2, <1>3
  <2>2. \A p \in All, r \in Sides : node'[p][r] # Nil => node'[p][r] \in All /\ node'[p][r] > p
    BY <1>1, <1>2
  <2>3. /\ E[new] = {new} \cup V(new, "left") \cup V(new, "right")
        /\ \A x \in E[new] : x >= new
        /\ V(new, "left") = {} /\ V(new, "right") = {}
    BY <1>1, <1>3 DEF Under, Sides
  <2> QED BY <1>1, <1>3, <1>7, <2>1, <2>2, <2>3 DEF IsTree
<1>9. HasParents(E)'
  <2> SUFFICES ASSUME NEW p \in All, NEW r \in Sides, node'[p][r] # Nil
               PROVE  /\ \A m \in All : node'[p][r] \in E[m] => node'[p][r] = m \/ p \in E[m]
                      /\ \A m \in All, q \in Sides : node'[m][q] = node'[p][r] => m = p /\ q = r
    BY <1>1 DEF HasParents
  <2>1. p \in TreeNodes BY <1>1
  <2>2. CASE p = cur /\ r = s
    <3>1. node'[p][r] = new BY <1>1, <2>2
    <3>2. \A m \in All : new \in E[m] => new = m \/ cur \in E[m]
      BY <1>1, <1>2, <1>3
    <3>3. ASSUME NEW m \in All, NEW q \in Sides, node'[m][q] = new
          PROVE  m = cur /\ q = s
      <4>1. m \in TreeNodes BY <1>1, <3>3
      <4>2. node[m][q] # new BY <1>1, <1>2, <4>1
      <4> QED BY <1>1, <3>3, <4>1, <4>2
    <3> QED BY <2>2, <3>1, <3>2, <3>3
  <2>3. CASE ~ (p = cur /\ r = s)
    <3> DEFINE c == node[p][r]
    <3>1. node'[p][r] = c BY <1>1, <2>1, <2>3
    <3>2. c # Nil /\ c \in TreeNodes /\ c # new
      <4>1. c # Nil BY <3>1
      <4>2. c \in TreeNodes BY <1>2, <2>1, <4>1
      <4> QED BY <1>1, <4>1, <4>2
    <3>3. /\ \A m \in TreeNodes : c \in D[m] => c = m \/ p \in D[m]
          /\ \A m \in TreeNodes, q \in Sides : node[m][q] = c => m = p /\ q = r
      BY <2>1, <3>2 DEF HasParents
    <3> HIDE DEF c
    <3>4. \A m \in All : c \in E[m] => c = m \/ p \in E[m] BY <1>3, <3>2, <3>3
    <3>5. \A m \in All, q \in Sides : node'[m][q] = c => m = p /\ q = r
      BY <1>1, <3>2, <3>3
    <3> QED BY <3>1, <3>4, <3>5
  <2> QED BY <2>2, <2>3
<1> QED BY <1>8, <1>9

(* Where the nodes do not change, D stays as it is: a descent of           *)
(* bst_insert and of bst_search.                                           *)
LEMMA DescentStep ==
  ASSUME SetupInv, NodesInv, [BstNext]_bstVars, node' = node, NEW D,
         IsTree(D), HasParents(D), InsertPath(D), SearchPath(D)
  PROVE  InsertPath(D)' /\ SearchPath(D)'
<1> USE SortedFacts
<1>0. TreeNodes' = TreeNodes /\ Present' = Present /\ TreeNodes \subseteq Nat
  BY DEF TreeNodes, Present, sorted, NodesInv
<1>1. /\ \A p \in TreeNodes, s \in Sides :
           node[p][s] # Nil => node[p][s] \in TreeNodes /\ node[p][s] > p
      /\ \A p \in TreeNodes : D[p] \in SUBSET TreeNodes /\ \A x \in D[p] : x >= p
      /\ \A p \in TreeNodes : node[p].key \in Present /\ node[p].key \in Int
  <2>1. \A p \in TreeNodes : node[p] \in TreeNode BY DEF NodesInv, TreeNodes
  <2> QED BY <2>1 DEF IsTree, TreeNode
<1>2. "left" \in Sides /\ "right" \in Sides /\ \A h, p : SideOf(h, p) \in Sides
  BY DEF Sides, SideOf
<1>3. InsertPath(D)'
  <2>1. CASE InsertBegin
    <3>1. cur' = bst_root /\ bst_root # Nil BY <2>1 DEF InsertBegin
    <3>2. cur' = 1 /\ node # <<>> BY <3>1 DEF NodesInv
    <3>3. 1 \in TreeNodes
      <4>1. Len(node) \in Nat /\ TreeNodes = 1 .. Len(node) BY DEF NodesInv, TreeNodes
      <4>2. Len(node) # 0 BY <3>2 DEF NodesInv
      <4> QED BY <4>1, <4>2
    <3>4. ASSUME NEW p \in TreeNodes, NEW s \in Sides, 1 \in Under(D, node[p][s]) PROVE FALSE
      <4>1. node[p][s] # Nil /\ 1 \in D[node[p][s]] BY <3>4 DEF Under
      <4>2. node[p][s] \in TreeNodes /\ node[p][s] > p /\ p > 0
        BY <1>0, <1>1, <4>1 DEF TreeNodes, NodesInv
      <4>3. 1 >= node[p][s] BY <1>1, <4>1, <4>2
      <4>4. \A m \in TreeNodes : m \in Int BY <1>0
      <4>5. p \in Int /\ node[p][s] \in Int BY <4>2, <4>4
      <4> QED BY <4>2, <4>3, <4>5
    <3> QED BY <1>0, <1>2, <3>2, <3>3, <3>4 DEF InsertPath
  <2>2. CASE InsertDescends
    <3> DEFINE h == keys[setup_i]
               s == SideOf(h, node[cur])
               c == node[cur][s]
    <3>1. /\ bst_pc = "descend" /\ keys' = keys /\ setup_i' = setup_i /\ cur' = c
          /\ c # Nil /\ h # node[cur].key
      BY <2>2 DEF InsertDescends, setupVars
    <3>2. /\ cur \in TreeNodes
          /\ \A p \in TreeNodes :
               /\ cur \in Under(D, node[p]["left"]) => h < node[p].key
               /\ cur \in Under(D, node[p]["right"]) => h > node[p].key
      BY <3>1 DEF InsertPath
    <3>3. s \in Sides /\ c \in TreeNodes BY <1>1, <1>2, <3>1, <3>2
    <3>4. /\ h \in Int /\ node[cur].key \in Int
          /\ s = "left" => h < node[cur].key
          /\ s = "right" => h > node[cur].key
      <4>1. setup_i \in 0 .. N - 1 BY <3>1 DEF SetupInv
      <4>2. h \in Int BY <4>1 DEF SetupInv
      <4>3. s = IF h < node[cur].key THEN "left" ELSE "right" BY DEF SideOf
      <4>4. node[cur].key \in Int BY <1>1, <3>2
      <4> HIDE DEF h, s
      <4> QED BY <3>1, <4>2, <4>3, <4>4
    <3>5. ASSUME NEW p \in TreeNodes, NEW r \in Sides, c \in Under(D, node[p][r])
          PROVE  cur \in Under(D, node[p][r]) \/ (p = cur /\ r = s)
      <4> HIDE DEF s
      <4>1. node[p][r] # Nil /\ c \in D[node[p][r]] BY <3>5 DEF Under
      <4>2. node[p][r] \in TreeNodes BY <1>1, <4>1
      <4>3. c = node[p][r] \/ cur \in D[node[p][r]]
        BY <3>1, <3>2, <3>3, <4>1, <4>2 DEF HasParents
      <4>4. c = node[p][r] => p = cur /\ r = s
        BY <3>1, <3>2, <3>3 DEF HasParents
      <4> QED BY <4>1, <4>3, <4>4 DEF Under
    <3> HIDE DEF c, s, h
    <3>6. ASSUME NEW p \in TreeNodes
          PROVE  /\ c \in Under(D, node[p]["left"]) => h < node[p].key
                 /\ c \in Under(D, node[p]["right"]) => h > node[p].key
      <4>1. ASSUME c \in Under(D, node[p]["left"]) PROVE h < node[p].key
        <5>1. cur \in Under(D, node[p]["left"]) \/ (p = cur /\ "left" = s)
          BY <1>2, <3>5, <4>1
        <5>2. cur \in Under(D, node[p]["left"]) => h < node[p].key BY <3>2
        <5>3. p = cur /\ "left" = s => h < node[p].key BY <3>4
        <5> QED BY <5>1, <5>2, <5>3
      <4>2. ASSUME c \in Under(D, node[p]["right"]) PROVE h > node[p].key
        <5>1. cur \in Under(D, node[p]["right"]) \/ (p = cur /\ "right" = s)
          BY <1>2, <3>5, <4>2
        <5>2. cur \in Under(D, node[p]["right"]) => h > node[p].key BY <3>2
        <5>3. p = cur /\ "right" = s => h > node[p].key BY <3>4
        <5> QED BY <5>1, <5>2, <5>3
      <4> QED BY <4>1, <4>2
    <3> QED BY <1>0, <3>1, <3>3, <3>6 DEF InsertPath, h
  <2>3. CASE ~ (InsertBegin \/ InsertDescends)
    <3>1. \/ bst_pc' # "descend"
          \/ bst_pc' = bst_pc /\ cur' = cur /\ keys' = keys /\ setup_i' = setup_i
      BY <2>3 DEF BstNext, Shuffle, ShuffleDone, InsertRoot, InsertEnds, InsertFails, SetupReturns,
                  BstDescend, BstReturn, ArrHalve, ArrReturn, bstVars, setupVars
    <3> QED BY <1>0, <3>1 DEF InsertPath
  <2> QED BY <2>1, <2>2, <2>3
<1>4. SearchPath(D)'
  <2>1. CASE SetupReturns
    <3>1. /\ setup_i = N /\ cur' = bst_root /\ key' \in LookupKey /\ bst_pc = "insert"
      BY <2>1 DEF SetupReturns
    <3>2. ASSUME NEW v \in Present PROVE \E x \in TreeNodes : node[x].key = v
      <4>1. PICK m \in 0 .. N - 1 : keys[m] = v BY DEF SetupInv
      <4>2. \A q \in 0 .. N - 1 : \E x \in TreeNodes : node[x].key = keys[q]
        BY <3>1 DEF NodesInv
      <4> QED BY <4>1, <4>2
    <3>3. TreeNodes # {}
      <4>1. 0 \in 0 .. N - 1 OBVIOUS
      <4>2. sorted[0] \in Present BY <4>1
      <4> QED BY <3>2, <4>2
    <3>4. D[1] = TreeNodes /\ 1 \in TreeNodes /\ bst_root = 1
      <4>1. node # <<>> BY <3>3 DEF TreeNodes
      <4>2. bst_root = 1 /\ D[1] = TreeNodes BY <3>3, <4>1 DEF NodesInv, IsTree
      <4>3. Len(node) \in Nat /\ TreeNodes = 1 .. Len(node) BY DEF NodesInv, TreeNodes
      <4> QED BY <3>3, <4>2, <4>3
    <3>5. Under(D, cur') = TreeNodes BY <3>1, <3>4 DEF Under, Nil
    <3> QED BY <1>0, <3>1, <3>2, <3>4, <3>5 DEF SearchPath
  <2>2. CASE BstDescend
    <3> DEFINE s == SideOf(key, node[cur])
               c == node[cur][s]
    <3>1. /\ bst_pc = "bst_search" /\ cur # Nil /\ node[cur].key # key
          /\ cur' = c /\ key' = key
      BY <2>2 DEF BstDescend, searchVars
    <3>2. /\ key \in Int /\ cur \in TreeNodes
          /\ key \in Present => \E x \in D[cur] : node[x].key = key
      BY <3>1 DEF SearchPath, Under
    <3>3. c \in {Nil} \cup TreeNodes BY <1>1, <1>2, <3>2
    <3>4. ASSUME key \in Present PROVE \E x \in Under(D, c) : node[x].key = key
      <4>1. PICK x \in D[cur] : node[x].key = key BY <3>2, <3>4
      <4>2. /\ D[cur] = {cur} \cup Under(D, node[cur]["left"]) \cup Under(D, node[cur]["right"])
            /\ \A y \in Under(D, node[cur]["left"]) : node[y].key < node[cur].key
            /\ \A y \in Under(D, node[cur]["right"]) : node[y].key > node[cur].key
        BY <3>2 DEF IsTree
      <4>3. node[cur].key \in Int BY <1>1, <3>2
      <4>4. \/ x \in Under(D, node[cur]["left"]) /\ key < node[cur].key
            \/ x \in Under(D, node[cur]["right"]) /\ key > node[cur].key
        BY <3>1, <4>1, <4>2
      <4>5. s = IF key < node[cur].key THEN "left" ELSE "right" BY DEF SideOf
      <4>6. key > node[cur].key => ~ (key < node[cur].key) BY <3>2, <4>3
      <4>7. x \in Under(D, c)
        <5> HIDE DEF s
        <5> QED BY <4>4, <4>5, <4>6
      <4> QED BY <4>1, <4>7
    <3> HIDE DEF c
    <3> QED BY <1>0, <3>1, <3>2, <3>3, <3>4 DEF SearchPath
  <2>3. CASE ~ (SetupReturns \/ BstDescend)
    <3>1. \/ bst_pc' # "bst_search"
          \/ bst_pc' = bst_pc /\ cur' = cur /\ key' = key
      BY <2>3 DEF BstNext, Shuffle, ShuffleDone, InsertRoot, InsertBegin, InsertDescends,
                  InsertEnds, InsertFails, BstReturn, ArrHalve, ArrReturn, bstVars, searchVars
    <3> QED BY <1>0, <3>1 DEF SearchPath
  <2> QED BY <2>1, <2>2, <2>3
<1> QED BY <1>3, <1>4

LEMMA TreeStep ==
  SetupInv /\ NodesInv /\ TreeInv /\ [BstNext]_bstVars => TreeInv'
<1> SUFFICES ASSUME SetupInv, NodesInv, TreeInv, [BstNext]_bstVars PROVE TreeInv' OBVIOUS
<1> USE SortedFacts
<1>1. PICK D : IsTree(D) /\ HasParents(D) /\ InsertPath(D) /\ SearchPath(D) BY DEF TreeInv
<1>2. CASE node' = node
  <2>1. IsTree(D)' BY <1>1, <1>2 DEF IsTree, TreeNodes
  <2>2. HasParents(D)' BY <1>1, <1>2 DEF HasParents, TreeNodes
  <2>3. InsertPath(D)' /\ SearchPath(D)' BY <1>1, <1>2, DescentStep
  <2> QED BY <2>1, <2>2, <2>3 DEF TreeInv
<1>3. CASE InsertRoot
  <2> DEFINE E == [p \in {1} |-> {1}]
  <2>1. /\ node' = <<Leaf(keys[setup_i])>> /\ bst_pc' = "insert"
    BY <1>3 DEF InsertRoot
  <2>2. /\ TreeNodes' = {1} /\ \A s \in Sides : node'[1][s] = Nil
    BY <2>1 DEF TreeNodes, Leaf, Sides
  <2>3. E \in [{1} -> SUBSET {1}] /\ E[1] = {1} OBVIOUS
  <2> HIDE DEF E
  <2>4. IsTree(E)'
    <3>1. \A p \in {1} : Under(E, node'[p]["left"]) = {} /\ Under(E, node'[p]["right"]) = {}
      BY <2>2 DEF Under, Sides
    <3> QED BY <2>2, <2>3, <3>1 DEF IsTree
  <2>5. HasParents(E)' BY <2>2 DEF HasParents
  <2>6. InsertPath(E)' /\ SearchPath(E)' BY <2>1 DEF InsertPath, SearchPath
  <2> QED BY <2>4, <2>5, <2>6 DEF TreeInv
<1>4. CASE InsertEnds /\ node' # node
  <2> DEFINE h == keys[setup_i]
             s == SideOf(h, node[cur])
  <2>1. /\ bst_pc = "descend" /\ bst_pc' = "insert" /\ h # node[cur].key
        /\ node[cur][s] = Nil
        /\ node' = Append([node EXCEPT ![cur][s] = Len(node) + 1], Leaf(h))
    BY <1>4 DEF InsertEnds, Appends
  <2>2. /\ cur \in TreeNodes
        /\ \A p \in TreeNodes :
             /\ cur \in Under(D, node[p]["left"]) => h < node[p].key
             /\ cur \in Under(D, node[p]["right"]) => h > node[p].key
    BY <1>1, <2>1 DEF InsertPath
  <2>3. setup_i \in 0 .. N - 1 BY <2>1 DEF SetupInv
  <2>4. h \in Present /\ h \in Int BY <2>3 DEF SetupInv
  <2>5. s \in Sides BY DEF SideOf, Sides
  <2>6. \A p \in TreeNodes : node[p].key \in Int
    <3>1. \A p \in TreeNodes : node[p] \in TreeNode BY DEF NodesInv, TreeNodes
    <3> QED BY <3>1 DEF TreeNode
  <2>7. (s = "left" => h < node[cur].key) /\ (s = "right" => h > node[cur].key)
    <3>1. s = IF h < node[cur].key THEN "left" ELSE "right" BY DEF SideOf
    <3>2. node[cur].key \in Int BY <2>2, <2>6
    <3> HIDE DEF s, h
    <3> QED BY <2>1, <2>4, <3>1, <3>2
  <2>8. 1 \in TreeNodes /\ TreeNodes \subseteq Nat
    <3>1. Len(node) \in Nat /\ TreeNodes = 1 .. Len(node) BY DEF NodesInv, TreeNodes
    <3> QED BY <2>2, <3>1
  <2> HIDE DEF s, h
  <2>9. Appended(s, h) BY <2>1, <2>2, <2>4, <2>5, AppendsLeaf DEF NodesInv
  <2>10. PICK E : IsTree(E)' /\ HasParents(E)'
    BY <1>1, <2>1, <2>2, <2>4, <2>5, <2>6, <2>7, <2>8, <2>9, InsertTree
  <2>11. InsertPath(E)' /\ SearchPath(E)' BY <2>1 DEF InsertPath, SearchPath
  <2> QED BY <2>10, <2>11 DEF TreeInv
<1>5. node' = node \/ InsertRoot \/ (InsertEnds /\ node' # node)
  BY DEF BstNext, Shuffle, ShuffleDone, InsertBegin, InsertDescends, InsertFails, SetupReturns,
         BstDescend, BstReturn, ArrHalve, ArrReturn, bstVars, setupVars
<1> QED BY <1>2, <1>3, <1>4, <1>5

(* The middle of an interval lies in it.                                   *)
LEMMA Middle ==
  ASSUME NEW a \in Nat, NEW b \in Nat, a < b
  PROVE  a + (b - a) \div 2 \in a .. b - 1
OBVIOUS

LEMMA IntervalStep ==
  SetupInv /\ NodesInv /\ TreeInv /\ IntervalInv /\ [BstNext]_bstVars => IntervalInv'
<1> SUFFICES ASSUME SetupInv, NodesInv, TreeInv, IntervalInv, [BstNext]_bstVars
             PROVE  IntervalInv'
  OBVIOUS
<1> USE SortedFacts
<1>0. /\ Present' = Present /\ lo \in 0 .. N /\ hi \in 0 .. N
      /\ \A m : sorted[m]' = sorted[m]
  BY DEF Present, sorted, IntervalInv
<1>1. CASE SetupReturns
  BY <1>0, <1>1 DEF SetupReturns, IntervalInv
<1>2. CASE BstReturn
  <2>1. PICK D : IsTree(D) /\ SearchPath(D) BY DEF TreeInv
  <2>2. /\ bst_pc = "bst_search" /\ bst_pc' = "arr_search" /\ key' = key /\ lo' = lo /\ hi' = hi
        /\ cur # Nil => node[cur].key = key
        /\ found' = [found EXCEPT !.tree = IF cur # Nil THEN 1 ELSE 0]
    BY <1>2 DEF BstReturn
  <2>3. key \in Int /\ lo = 0 /\ hi = N
        /\ found = [tree |-> Unasked, array |-> Unasked]
    BY <2>1, <2>2 DEF SearchPath, IntervalInv
  <2>4. (IF cur # Nil THEN 1 ELSE 0) = Answer
    <3>1. CASE cur = Nil
      <4>1. ~ (key \in Present) BY <2>1, <2>2, <3>1 DEF SearchPath, Under
      <4> QED BY <3>1, <4>1 DEF Answer
    <3>2. CASE cur # Nil
      <4>1. cur \in TreeNodes BY <2>1, <2>2, <3>2 DEF SearchPath
      <4>2. node[cur] \in TreeNode BY <4>1 DEF NodesInv, TreeNodes
      <4>3. key \in Present BY <2>2, <3>2, <4>2 DEF TreeNode
      <4> QED BY <3>2, <4>3 DEF Answer
    <3> QED BY <3>1, <3>2
  <2>5. found' = [tree |-> Answer, array |-> Unasked] BY <2>2, <2>3, <2>4
  <2>6. Answer' = Answer BY <1>0, <2>2 DEF Answer
  <2>7. key \in Present => \E m \in 0 .. N - 1 : sorted[m] = key OBVIOUS
  <2> QED BY <1>0, <2>2, <2>3, <2>5, <2>6, <2>7 DEF IntervalInv
<1>3. CASE ArrHalve
  <2>1. /\ bst_pc = "arr_search" /\ bst_pc' = "arr_search" /\ key' = key /\ found' = found
        /\ lo < hi /\ sorted[mid] # key /\ Halve
    BY <1>3 DEF ArrHalve
  <2>2. /\ key \in Int /\ lo \in Nat /\ hi \in Nat /\ hi <= N
        /\ key \in Present => \E m \in lo .. hi - 1 : sorted[m] = key
    BY <2>1 DEF IntervalInv
  <2>3. mid \in lo .. hi - 1 /\ mid \in 0 .. N - 1
    <3>1. mid \in lo .. hi - 1 BY <2>1, <2>2, Middle DEF mid
    <3> QED BY <2>2, <3>1
  <2>4. sorted[mid] = 3 * mid + 1 /\ mid \in Nat BY <2>3
  <2>5. Answer' = Answer BY <1>0, <2>1 DEF Answer
  <2>6. CASE sorted[mid] < key
    <3>1. lo' = mid + 1 /\ hi' = hi BY <2>1, <2>6 DEF Halve
    <3>2. ASSUME NEW m \in lo .. hi - 1, sorted[m] = key PROVE m \in mid + 1 .. hi - 1
      <4>1. sorted[m] = 3 * m + 1 /\ m \in Nat BY <2>2, <3>2
      <4> QED BY <2>2, <2>4, <2>6, <3>2, <4>1
    <3>3. key \in Present => \E m \in mid + 1 .. hi - 1 : sorted[m] = key BY <2>2, <3>2
    <3>4. mid + 1 \in 0 .. N /\ mid + 1 <= hi BY <2>2, <2>3
    <3> QED BY <1>0, <2>1, <2>2, <2>5, <3>1, <3>3, <3>4 DEF IntervalInv
  <2>7. CASE ~ (sorted[mid] < key)
    <3>1. lo' = lo /\ hi' = mid BY <2>1, <2>7 DEF Halve
    <3>2. ASSUME NEW m \in lo .. hi - 1, sorted[m] = key PROVE m \in lo .. mid - 1
      <4>1. sorted[m] = 3 * m + 1 /\ m \in Nat BY <2>2, <3>2
      <4> QED BY <2>1, <2>2, <2>4, <2>7, <3>2, <4>1
    <3>3. key \in Present => \E m \in lo .. mid - 1 : sorted[m] = key BY <2>2, <3>2
    <3>4. mid \in 0 .. N /\ lo <= mid BY <2>2, <2>3
    <3> QED BY <1>0, <2>1, <2>2, <2>5, <3>1, <3>3, <3>4 DEF IntervalInv
  <2> QED BY <2>6, <2>7
<1>4. CASE ArrReturn
  <2>1. /\ bst_pc = "arr_search" /\ bst_pc' = "done" /\ key' = key /\ lo' = lo /\ hi' = hi
        /\ lo < hi => sorted[mid] = key
        /\ found' = [found EXCEPT !.array = IF lo < hi THEN 1 ELSE 0]
    BY <1>4 DEF ArrReturn
  <2>2. /\ key \in Int /\ lo \in Nat /\ hi \in Nat /\ hi <= N
        /\ key \in Present => \E m \in lo .. hi - 1 : sorted[m] = key
        /\ found = [tree |-> Answer, array |-> Unasked]
    BY <2>1 DEF IntervalInv
  <2>3. (IF lo < hi THEN 1 ELSE 0) = Answer
    <3>1. CASE lo < hi
      <4>1. mid \in lo .. hi - 1 BY <2>2, <3>1, Middle DEF mid
      <4>2. mid \in 0 .. N - 1 BY <2>2, <4>1
      <4>3. key \in Present BY <2>1, <3>1, <4>2
      <4> QED BY <3>1, <4>3 DEF Answer
    <3>2. CASE ~ (lo < hi)
      <4>1. ~ (key \in Present) BY <2>2, <3>2
      <4> QED BY <3>2, <4>1 DEF Answer
    <3> QED BY <3>1, <3>2
  <2>4. found' = [tree |-> Answer, array |-> Answer] BY <2>1, <2>2, <2>3
  <2>5. Answer' = Answer BY <1>0, <2>1 DEF Answer
  <2> QED BY <1>0, <2>1, <2>4, <2>5 DEF IntervalInv
<1>5. CASE ~ (SetupReturns \/ BstReturn \/ ArrHalve \/ ArrReturn)
  <2>1. /\ lo' = lo /\ hi' = hi /\ key' = key /\ found' = found
        /\ \/ bst_pc' = bst_pc
           \/ bst_pc \notin {"arr_search", "done"} /\ bst_pc' \notin {"arr_search", "done"}
    BY <1>5 DEF BstNext, Shuffle, ShuffleDone, InsertRoot, InsertBegin, InsertDescends, InsertEnds,
                InsertFails, BstDescend, bstVars, searchVars
  <2>2. Answer' = Answer BY <1>0, <2>1 DEF Answer
  <2> QED BY <1>0, <2>1, <2>2 DEF IntervalInv
<1> QED BY <1>1, <1>2, <1>3, <1>4, <1>5

(* bst_search and arr_search answer alike, and rightly: for every number   *)
(* of keys, every order of insertion and every key that is looked up       *)
(* (lines 34-64, 75-84 and 86-117 of ch09/ex9_1).                          *)
THEOREM SearchesAgreeAlways == BstSpec => []SearchesAgree
<1> DEFINE BstInv == SetupInv /\ NodesInv /\ TreeInv /\ IntervalInv
<1>1. BstInit => BstInv BY BstStart
<1>2. BstInv /\ [BstNext]_bstVars => BstInv'
  <2> SUFFICES ASSUME BstInv, [BstNext]_bstVars PROVE BstInv' OBVIOUS
  <2>1. SetupInv' BY SetupStep
  <2>2. bst_pc = "descend" => cur \in TreeNodes BY DEF TreeInv, InsertPath
  <2>3. NodesInv' BY <2>2, NodesStep
  <2>4. TreeInv' BY TreeStep
  <2>5. IntervalInv' BY IntervalStep
  <2> QED BY <2>1, <2>3, <2>4, <2>5
<1>3. BstInv => SearchesAgree
  BY DEF IntervalInv, Answer, SearchesAgree, Unasked
<1> QED BY <1>1, <1>2, <1>3, PTL DEF BstSpec

(***************************************************************************)
(* The device table of chapter 1, for every number of devices and buckets. *)
(* The sorted array holds every device in ascending order, and the chain   *)
(* of its bucket holds every device that has been inserted; a lookup has   *)
(* not passed by the device it is asked for.                               *)
(***************************************************************************)
Entry(m) == [device_id |-> m * 7 + 3, config_val |-> m]

Entries == {Entry(m) : m \in 0 .. NUM_ENTRIES - 1}

(* The entry is in one of the places. *)
Holds(s, m) == \E x \in 1 .. Len(s) : s[x] = Entry(m)

Ascending(s) == \A x, l \in 1 .. Len(s) : x < l => s[x].device_id <= s[l].device_id

TableInv ==
  /\ dev_pc \in {"fill", "hash", "bsearch", "chain", "done", "exited"}
  /\ entry \in 0 .. NUM_ENTRIES
  /\ sorted_table \in Seq(Entries)
  /\ dev_pc = "fill" => /\ Len(sorted_table) = entry
                        /\ \A x \in 1 .. entry : sorted_table[x] = Entry(x - 1)
  /\ dev_pc # "fill" => /\ Len(sorted_table) = NUM_ENTRIES
                        /\ Ascending(sorted_table)
                        /\ \A m \in 0 .. NUM_ENTRIES - 1 : Holds(sorted_table, m)

ChainInv ==
  /\ hash_table \in [Buckets -> Seq(Entries)]
  /\ dev_pc # "fill" =>
       \A x \in 1 .. entry, m \in 0 .. NUM_ENTRIES - 1 :
         sorted_table[x] = Entry(m) => Holds(hash_table[hash_fn(m * 7 + 3)], m)
  /\ dev_pc \in {"bsearch", "chain", "done"} => entry = NUM_ENTRIES

Known == {m \in 0 .. NUM_ENTRIES - 1 : m * 7 + 3 = id}

Config == IF Known = {} THEN Absent ELSE CHOOSE m \in Known : TRUE

LookupInv ==
  /\ id \in Nat
  /\ low \in 0 .. NUM_ENTRIES /\ high \in 0 .. NUM_ENTRIES
  /\ dev_pc \in {"fill", "hash"} => low = 0 /\ high = NUM_ENTRIES
  /\ dev_pc = "bsearch" =>
       \A m \in Known : \E x \in low + 1 .. high : sorted_table[x] = Entry(m)
  /\ dev_pc = "chain" => link \in Seq(Entries) /\ \A m \in Known : Holds(link, m)
  /\ bsearch_val = IF dev_pc \in {"chain", "done"} THEN Config ELSE Open
  /\ hash_val = IF dev_pc = "done" THEN Config ELSE Open

DevInv == TableInv /\ ChainInv /\ LookupInv

LEMMA DevSizes ==
  /\ NUM_ENTRIES \in Nat \ {0} /\ TABLE_BUCKETS \in Nat \ {0} /\ LookupId \subseteq Nat
BY DeviceAssumption

LEMMA EntryFacts ==
  /\ \A m \in 0 .. NUM_ENTRIES - 1 :
       Entry(m) \in Entries /\ Entry(m).device_id = m * 7 + 3 /\ Entry(m).config_val = m
  /\ \A e \in Entries : /\ e.config_val \in 0 .. NUM_ENTRIES - 1
                        /\ e.device_id = e.config_val * 7 + 3 /\ e.device_id \in Nat
                        /\ e = Entry(e.config_val)
BY DevSizes DEF Entry, Entries

(* Which configuration a lookup is to give. *)
LEMMA ConfigFacts ==
  ASSUME id \in Nat
  PROVE  /\ Known = {} => Config = Absent
         /\ \A m \in Known : Config = m
         /\ \A e \in Entries : e.device_id = id <=> e.config_val \in Known
<1>1. Known = {} => Config = Absent BY DEF Config
<1>2. ASSUME NEW m \in Known PROVE Config = m
  <2>1. \A l \in Known : l = m BY DevSizes DEF Known
  <2>2. Known # {} /\ (CHOOSE l \in Known : TRUE) \in Known OBVIOUS
  <2> QED BY <2>1, <2>2 DEF Config
<1>3. ASSUME NEW e \in Entries PROVE e.device_id = id <=> e.config_val \in Known
  BY EntryFacts DEF Known
<1> QED BY <1>1, <1>2, <1>3

LEMMA BucketFacts == \A d \in Nat : hash_fn(d) \in Buckets
BY DevSizes DEF hash_fn, Buckets

LEMMA DevStart == DevInit => DevInv
<1> SUFFICES ASSUME DevInit PROVE DevInv OBVIOUS
<1>1. sorted_table = <<>> /\ dev_pc = "fill" /\ entry = 0 /\ hash_table = [b \in Buckets |-> <<>>]
  BY DEF DevInit
<1>2. TableInv BY <1>1, DevSizes DEF TableInv
<1>3. ChainInv BY <1>1 DEF ChainInv
<1>4. LookupInv BY <1>1, DevSizes DEF DevInit, LookupInv
<1> QED BY <1>2, <1>3, <1>4 DEF DevInv

(* What qsort does to the filled table. *)
LEMMA SortFacts ==
  ASSUME NEW s \in Seq(Entries), Len(s) = NUM_ENTRIES,
         \A x \in 1 .. NUM_ENTRIES : s[x] = Entry(x - 1),
         NEW z, z = qsort(s)
  PROVE  /\ z \in Seq(Entries) /\ Len(z) = NUM_ENTRIES
         /\ Ascending(z) /\ \A m \in 0 .. NUM_ENTRIES - 1 : Holds(z, m)
<1> DEFINE I == 1 .. NUM_ENTRIES
           Sorts(p) == /\ Range(p) = I
                       /\ \A m, h \in I : m < h => ~ cmp_cfg(s[p[h]], s[p[m]])
           q == CHOOSE p \in [I -> I] : Sorts(p)
           self == [m \in I |-> m]
<1>1. DOMAIN s = I BY DevSizes
<1>2. \A m \in I : s[m] \in Entries /\ s[m].device_id = (m - 1) * 7 + 3 /\ s[m] = Entry(m - 1)
  BY DevSizes DEF Entry
<1>3. self \in [I -> I] /\ Sorts(self)
  <2>1. Range(self) = I BY DEF Range
  <2>2. ASSUME NEW m \in I, NEW h \in I, m < h PROVE ~ cmp_cfg(s[self[h]], s[self[m]])
    <3>1. self[m] = m /\ self[h] = h OBVIOUS
    <3>2. s[m].device_id = (m - 1) * 7 + 3 /\ s[h].device_id = (h - 1) * 7 + 3 BY <1>2
    <3> HIDE DEF self
    <3>3. ~ (s[h].device_id < s[m].device_id) BY <2>2, <3>2
    <3> QED BY <3>1, <3>3 DEF cmp_cfg
  <2> QED BY <2>1, <2>2
<1>4. q \in [I -> I] /\ Sorts(q)
  <2> HIDE DEF self, Sorts
  <2> QED BY <1>3
<1>5. z = [m \in I |-> s[q[m]]] BY <1>1 DEF qsort
<1> HIDE DEF q
<1>6. \A m \in I : z[m] = s[q[m]] /\ q[m] \in I BY <1>4, <1>5
<1>7. z \in Seq(Entries) /\ Len(z) = NUM_ENTRIES BY <1>2, <1>5, <1>6, DevSizes
<1>8. Ascending(z)
  <2> SUFFICES ASSUME NEW m \in I, NEW h \in I, m < h PROVE z[m].device_id <= z[h].device_id
    BY <1>7 DEF Ascending
  <2>1. ~ (z[h].device_id < z[m].device_id) BY <1>4, <1>6 DEF cmp_cfg
  <2>2. z[h].device_id \in Nat /\ z[m].device_id \in Nat
    <3>1. z[h] \in Entries /\ z[m] \in Entries BY <1>2, <1>6
    <3> QED BY <3>1, EntryFacts
  <2> QED BY <2>1, <2>2
<1>9. ASSUME NEW m \in 0 .. NUM_ENTRIES - 1 PROVE Holds(z, m)
  <2>1. m + 1 \in I /\ (m + 1) - 1 = m BY DevSizes
  <2>2. PICK h \in I : q[h] = m + 1 BY <1>4, <2>1 DEF Range
  <2>3. z[h] = Entry(m) BY <1>2, <1>6, <2>1, <2>2
  <2> QED BY <1>7, <2>3 DEF Holds
<1> QED BY <1>7, <1>8, <1>9

LEMMA TableStep == TableInv /\ [DevNext]_devVars => TableInv'
<1> SUFFICES ASSUME TableInv, [DevNext]_devVars PROVE TableInv' OBVIOUS
<1> USE DevSizes
<1>1. CASE Fill
  <2> DEFINE e == Entry(entry)
  <2>1. /\ sorted_table' = Append(sorted_table, e) /\ entry' = entry + 1
        /\ dev_pc = "fill" /\ dev_pc' = "fill" /\ entry < NUM_ENTRIES
    BY <1>1 DEF Fill, Entry
  <2>2. e \in Entries /\ entry \in 0 .. NUM_ENTRIES - 1 BY <2>1, EntryFacts DEF TableInv
  <2>3. /\ sorted_table \in Seq(Entries) /\ Len(sorted_table) = entry
        /\ \A x \in 1 .. entry : sorted_table[x] = Entry(x - 1)
    BY <2>1 DEF TableInv
  <2>4. /\ sorted_table' \in Seq(Entries) /\ Len(sorted_table') = entry + 1
        /\ \A x \in 1 .. entry : sorted_table'[x] = sorted_table[x]
        /\ sorted_table'[entry + 1] = e
    <3> HIDE DEF e
    <3> QED BY <2>1, <2>2, <2>3
  <2>5. ASSUME NEW x \in 1 .. entry + 1 PROVE sorted_table'[x] = Entry(x - 1)
    <3>1. CASE x \in 1 .. entry BY <2>3, <2>4, <3>1
    <3>2. CASE x = entry + 1
      <4>1. x - 1 = entry BY <2>2, <3>2
      <4> QED BY <2>4, <3>2, <4>1
    <3> QED BY <2>2, <3>1, <3>2
  <2> QED BY <2>1, <2>2, <2>4, <2>5 DEF TableInv
<1>2. CASE Sort
  <2>1. /\ sorted_table' = qsort(sorted_table) /\ entry' = 0 /\ dev_pc' = "hash"
        /\ dev_pc = "fill" /\ entry = NUM_ENTRIES
    BY <1>2 DEF Sort
  <2>2. /\ sorted_table \in Seq(Entries) /\ Len(sorted_table) = NUM_ENTRIES
        /\ \A x \in 1 .. NUM_ENTRIES : sorted_table[x] = Entry(x - 1)
    BY <2>1 DEF TableInv
  <2>3. /\ sorted_table' \in Seq(Entries) /\ Len(sorted_table') = NUM_ENTRIES
        /\ Ascending(sorted_table')
        /\ \A m \in 0 .. NUM_ENTRIES - 1 : Holds(sorted_table', m)
    BY <2>1, <2>2, SortFacts
  <2> QED BY <2>1, <2>3 DEF TableInv
<1>3. CASE HashInsert
  <2>1. /\ sorted_table' = sorted_table /\ entry' = entry + 1 /\ dev_pc' = dev_pc
        /\ dev_pc = "hash" /\ entry < NUM_ENTRIES
    BY <1>3 DEF HashInsert
  <2> QED BY <2>1 DEF TableInv
<1>4. ASSUME \/ HashInsertFails \/ TablesDone \/ BsearchHalve \/ BsearchReturn
             \/ HashWalk \/ HashReturn \/ UNCHANGED devVars
      PROVE  TableInv'
  <2>1. /\ sorted_table' = sorted_table /\ entry' = entry
        /\ \/ dev_pc' = dev_pc
           \/ dev_pc # "fill" /\ dev_pc' \in {"bsearch", "chain", "done", "exited"}
    BY <1>4 DEF HashInsertFails, TablesDone, BsearchHalve, BsearchReturn, HashWalk, HashReturn,
                devVars, tables
  <2> QED BY <2>1 DEF TableInv
<1> QED BY <1>1, <1>2, <1>3, <1>4 DEF DevNext

LEMMA ChainStep == TableInv /\ ChainInv /\ [DevNext]_devVars => ChainInv'
<1> SUFFICES ASSUME TableInv, ChainInv, [DevNext]_devVars PROVE ChainInv' OBVIOUS
<1> USE DevSizes
<1>1. CASE Fill BY <1>1 DEF Fill, ChainInv
<1>2. CASE Sort BY <1>2 DEF Sort, ChainInv
<1>3. CASE HashInsert
  <2> DEFINE e == sorted_table[entry + 1]
             b == hash_fn(e.device_id)
             old == hash_table[b]
             new == <<e>> \o old
  <2>1. /\ hash_table' = [hash_table EXCEPT ![b] = new] /\ entry' = entry + 1
        /\ sorted_table' = sorted_table /\ dev_pc = "hash" /\ dev_pc' = "hash"
        /\ entry < NUM_ENTRIES
    BY <1>3 DEF HashInsert, lookup
  <2>2. /\ entry \in 0 .. NUM_ENTRIES - 1 /\ sorted_table \in Seq(Entries)
        /\ Len(sorted_table) = NUM_ENTRIES
    BY <2>1 DEF TableInv
  <2>3. e \in Entries BY <2>2
  <2>4. b \in Buckets /\ hash_table \in [Buckets -> Seq(Entries)]
    BY <2>3, EntryFacts, BucketFacts DEF ChainInv
  <2>5. old \in Seq(Entries) BY <2>4
  <2> HIDE DEF old
  <2>6. /\ new \in Seq(Entries) /\ Len(new) = Len(old) + 1 /\ Len(old) \in Nat
        /\ new[1] = e /\ \A x \in 1 .. Len(old) : new[x + 1] = old[x]
    <3> HIDE DEF e
    <3> QED BY <2>3, <2>5
  <2>7. /\ hash_table' \in [Buckets -> Seq(Entries)] /\ hash_table'[b] = new
        /\ \A c \in Buckets : c # b => hash_table'[c] = hash_table[c]
    <3> HIDE DEF b, new
    <3> QED BY <2>1, <2>4, <2>6
  <2>8. ASSUME NEW x \in 1 .. entry + 1, NEW m \in 0 .. NUM_ENTRIES - 1, sorted_table[x] = Entry(m)
        PROVE  Holds(hash_table'[hash_fn(m * 7 + 3)], m)
    <3> DEFINE c == hash_fn(m * 7 + 3)
    <3>1. c \in Buckets BY BucketFacts
    <3>2. CASE x = entry + 1
      <4>1. e = Entry(m) /\ e.device_id = m * 7 + 3 BY <2>8, <3>2, EntryFacts
      <4>2. c = b BY <4>1
      <4>3. new[1] = Entry(m) /\ 1 \in 1 .. Len(new) BY <2>6, <4>1
      <4>4. Holds(new, m)
        <5> HIDE DEF new
        <5> QED BY <4>3 DEF Holds
      <4> QED BY <2>7, <4>2, <4>4
    <3>3. CASE x # entry + 1
      <4>1. x \in 1 .. entry BY <2>2, <3>3
      <4>2. Holds(hash_table[c], m) BY <2>1, <2>8, <4>1 DEF ChainInv
      <4>3. CASE c = b
        <5>1. Holds(old, m) BY <4>2, <4>3 DEF old
        <5>2. PICK h \in 1 .. Len(old) : old[h] = Entry(m) BY <5>1 DEF Holds
        <5> HIDE DEF new
        <5>3. new[h + 1] = Entry(m) /\ h + 1 \in 1 .. Len(new) BY <2>6, <5>2
        <5>4. Holds(new, m) BY <5>3 DEF Holds
        <5> QED BY <2>7, <4>3, <5>4
      <4>4. CASE c # b
        <5>1. hash_table'[c] = hash_table[c] BY <2>7, <3>1, <4>4
        <5> QED BY <4>2, <5>1
      <4> QED BY <4>3, <4>4
    <3> QED BY <3>2, <3>3
  <2> QED BY <2>1, <2>7, <2>8 DEF ChainInv
<1>4. ASSUME \/ HashInsertFails \/ TablesDone \/ BsearchHalve \/ BsearchReturn
             \/ HashWalk \/ HashReturn \/ UNCHANGED devVars
      PROVE  ChainInv'
  <2>1. /\ sorted_table' = sorted_table /\ entry' = entry /\ hash_table' = hash_table
        /\ \/ dev_pc' = dev_pc
           \/ dev_pc # "fill" /\ dev_pc' = "exited"
           \/ dev_pc # "fill" /\ entry = NUM_ENTRIES
    BY <1>4 DEF HashInsertFails, TablesDone, BsearchHalve, BsearchReturn, HashWalk, HashReturn,
                devVars, tables, ChainInv
  <2> QED BY <2>1 DEF ChainInv
<1> QED BY <1>1, <1>2, <1>3, <1>4 DEF DevNext

LEMMA LookupStep == DevInv /\ [DevNext]_devVars => LookupInv'
<1> SUFFICES ASSUME TableInv, ChainInv, LookupInv, [DevNext]_devVars PROVE LookupInv'
  BY DEF DevInv
<1> USE DevSizes
<1>1. ASSUME Fill \/ Sort \/ HashInsert \/ HashInsertFails \/ UNCHANGED devVars PROVE LookupInv'
  <2>1. UNCHANGED lookup
    BY <1>1 DEF Fill, Sort, HashInsert, HashInsertFails, devVars
  <2>2. Known' = Known /\ Config' = Config BY <2>1 DEF lookup, Known, Config
  <2>3. CASE UNCHANGED devVars BY <2>2, <2>3 DEF devVars, tables, lookup, LookupInv
  <2>4. CASE ~ UNCHANGED devVars
    <3>1. dev_pc \in {"fill", "hash"} /\ dev_pc' \in {"fill", "hash", "exited"}
      BY <1>1, <2>4 DEF Fill, Sort, HashInsert, HashInsertFails
    <3> QED BY <2>1, <2>2, <3>1 DEF lookup, LookupInv
  <2> QED BY <2>3, <2>4
<1>2. CASE TablesDone
  <2>1. /\ id' \in Nat /\ dev_pc = "hash" /\ dev_pc' = "bsearch" /\ sorted_table' = sorted_table
        /\ low' = 0 /\ high' = NUM_ENTRIES /\ bsearch_val' = Open /\ hash_val' = Open
    BY <1>2 DEF TablesDone, LookupInv, tables
  <2>2. \A m \in 0 .. NUM_ENTRIES - 1 : \E x \in 1 .. NUM_ENTRIES : sorted_table[x] = Entry(m)
    BY <2>1 DEF TableInv, Holds
  <2>3. Known' \subseteq 0 .. NUM_ENTRIES - 1 BY DEF Known
  <2>4. \A m \in Known' : \E x \in 0 + 1 .. NUM_ENTRIES : sorted_table[x] = Entry(m)
    BY <2>2, <2>3
  <2> QED BY <2>1, <2>4 DEF LookupInv
<1>3. CASE BsearchHalve
  <2> DEFINE here == middle + 1
             p == sorted_table[here]
  <2>1. /\ dev_pc = "bsearch" /\ dev_pc' = "bsearch" /\ low < high /\ p.device_id # id
        /\ IF p.device_id < id THEN low' = here /\ high' = high
                               ELSE high' = middle /\ low' = low
        /\ sorted_table' = sorted_table /\ id' = id
        /\ bsearch_val' = bsearch_val /\ hash_val' = hash_val
    BY <1>3 DEF BsearchHalve, Probe, tables
  <2>2. /\ sorted_table \in Seq(Entries) /\ Len(sorted_table) = NUM_ENTRIES /\ Ascending(sorted_table)
        /\ low \in 0 .. NUM_ENTRIES /\ high \in 0 .. NUM_ENTRIES /\ id \in Nat
        /\ \A m \in Known : \E x \in low + 1 .. high : sorted_table[x] = Entry(m)
    BY <2>1 DEF TableInv, LookupInv
  <2>3. middle \in low .. high - 1
    <3>1. low \in Int /\ high \in Int /\ low < high BY <2>1, <2>2
    <3> QED BY ONLY <3>1 DEF middle
  <2> HIDE DEF here
  <2>4. here = middle + 1 /\ here \in 1 .. NUM_ENTRIES BY <2>2, <2>3 DEF here
  <2>5. p \in Entries /\ p.device_id \in Nat BY <2>2, <2>4, EntryFacts
  <2>6. Known' = Known /\ Config' = Config BY <2>1 DEF Known, Config
  <2>7. ASSUME NEW m \in Known PROVE \E x \in low' + 1 .. high' : sorted_table[x] = Entry(m)
    <3>1. PICK x \in low + 1 .. high : sorted_table[x] = Entry(m) BY <2>2
    <3>2. sorted_table[x].device_id = id BY <3>1, EntryFacts DEF Known
    <3>3. x \in 1 .. NUM_ENTRIES /\ x # here BY <2>1, <2>2, <3>1, <3>2
    <3>4. /\ x < here => id <= p.device_id
          /\ here < x => p.device_id <= id
      BY <2>2, <2>4, <3>2, <3>3 DEF Ascending
    <3>5. x \in low' + 1 .. high'
      <4> HIDE DEF p
      <4>1. CASE p.device_id < id
        <5>1. here < x BY <2>2, <2>4, <2>5, <3>3, <3>4, <4>1
        <5> QED BY <2>1, <2>2, <2>4, <3>1, <4>1, <5>1
      <4>2. CASE ~ (p.device_id < id)
        <5>1. x < here BY <2>1, <2>2, <2>4, <2>5, <3>3, <3>4, <4>2
        <5> QED BY <2>1, <2>2, <2>3, <2>4, <3>1, <4>2, <5>1
      <4> QED BY <4>1, <4>2
    <3> QED BY <3>1, <3>5
  <2>8. low' \in 0 .. NUM_ENTRIES /\ high' \in 0 .. NUM_ENTRIES
    <3> HIDE DEF p
    <3> QED BY <2>1, <2>2, <2>3, <2>4
  <2>9. bsearch_val = Open /\ hash_val = Open BY <2>1 DEF LookupInv
  <2> HIDE DEF p
  <2> QED BY <2>1, <2>2, <2>6, <2>7, <2>8, <2>9 DEF LookupInv
<1>4. CASE BsearchReturn
  <2>1. /\ dev_pc = "bsearch" /\ dev_pc' = "chain" /\ (low < high => Probe.device_id = id)
        /\ bsearch_val' = IF low < high THEN Probe.config_val ELSE Absent
        /\ link' = hash_table[hash_fn(id)]
        /\ id' = id /\ low' = low /\ high' = high /\ hash_val' = hash_val
    BY <1>4 DEF BsearchReturn
  <2>2. /\ sorted_table \in Seq(Entries) /\ Len(sorted_table) = NUM_ENTRIES
        /\ low \in 0 .. NUM_ENTRIES /\ high \in 0 .. NUM_ENTRIES /\ id \in Nat
        /\ \A m \in Known : \E x \in low + 1 .. high : sorted_table[x] = Entry(m)
        /\ hash_val = Open
    BY <2>1 DEF TableInv, LookupInv
  <2>3. Known' = Known /\ Config' = Config BY <2>1 DEF Known, Config
  <2>4. bsearch_val' = Config
    <3>1. CASE low < high
      <4>1. middle + 1 \in 1 .. NUM_ENTRIES BY <2>2, <3>1 DEF middle
      <4>2. Probe \in Entries BY <2>2, <4>1 DEF Probe
      <4> QED BY <2>1, <2>2, <3>1, <4>2, ConfigFacts
    <3>2. CASE ~ (low < high)
      <4>1. Known = {} BY <2>2, <3>2
      <4> QED BY <2>1, <2>2, <3>2, <4>1, ConfigFacts
    <3> QED BY <3>1, <3>2
  <2>5. link' \in Seq(Entries) BY <2>1, <2>2, BucketFacts DEF ChainInv
  <2>6. ASSUME NEW m \in Known PROVE Holds(link', m)
    <3>1. m \in 0 .. NUM_ENTRIES - 1 /\ m * 7 + 3 = id BY DEF Known
    <3>2. entry = NUM_ENTRIES BY <2>1 DEF ChainInv
    <3>3. PICK x \in 1 .. NUM_ENTRIES : sorted_table[x] = Entry(m)
      BY <2>1, <3>1 DEF TableInv, Holds
    <3> QED BY <2>1, <3>1, <3>2, <3>3 DEF ChainInv
  <2> QED BY <2>1, <2>2, <2>3, <2>4, <2>5, <2>6 DEF LookupInv
<1>5. CASE HashWalk
  <2>1. /\ dev_pc = "chain" /\ dev_pc' = "chain" /\ link # <<>> /\ Head(link).device_id # id
        /\ link' = Tail(link) /\ id' = id /\ low' = low /\ high' = high
        /\ bsearch_val' = bsearch_val /\ hash_val' = hash_val
    BY <1>5 DEF HashWalk
  <2>2. link \in Seq(Entries) /\ \A m \in Known : Holds(link, m) BY <2>1 DEF LookupInv
  <2>3. Known' = Known /\ Config' = Config BY <2>1 DEF Known, Config
  <2>4. /\ link' \in Seq(Entries) /\ Len(link) \in Nat /\ Len(link') = Len(link) - 1
        /\ \A x \in 1 .. Len(link') : link'[x] = link[x + 1]
    BY <2>1, <2>2
  <2>5. ASSUME NEW m \in Known PROVE Holds(link', m)
    <3>1. PICK x \in 1 .. Len(link) : link[x] = Entry(m) BY <2>2 DEF Holds
    <3>2. x # 1 BY <2>1, <3>1, EntryFacts DEF Known
    <3>3. x - 1 \in 1 .. Len(link') /\ (x - 1) + 1 = x BY <2>4, <3>1, <3>2
    <3>4. link'[x - 1] = Entry(m) BY <2>4, <3>1, <3>3
    <3> QED BY <3>3, <3>4 DEF Holds
  <2> QED BY <2>1, <2>3, <2>4, <2>5 DEF LookupInv
<1>6. CASE HashReturn
  <2>1. /\ dev_pc = "chain" /\ dev_pc' = "done" /\ (link # <<>> => Head(link).device_id = id)
        /\ hash_val' = IF link # <<>> THEN Head(link).config_val ELSE Absent
        /\ id' = id /\ low' = low /\ high' = high /\ link' = link /\ bsearch_val' = bsearch_val
    BY <1>6 DEF HashReturn
  <2>2. link \in Seq(Entries) /\ (\A m \in Known : Holds(link, m)) /\ id \in Nat
    BY <2>1 DEF LookupInv
  <2>3. Known' = Known /\ Config' = Config BY <2>1 DEF Known, Config
  <2>4. hash_val' = Config
    <3>1. CASE link # <<>>
      <4>1. Head(link) \in Entries BY <2>2, <3>1
      <4> QED BY <2>1, <2>2, <3>1, <4>1, ConfigFacts
    <3>2. CASE link = <<>>
      <4>1. Known = {} BY <2>2, <3>2 DEF Holds
      <4> QED BY <2>1, <2>2, <3>2, <4>1, ConfigFacts
    <3> QED BY <3>1, <3>2
  <2> QED BY <2>1, <2>2, <2>3, <2>4 DEF LookupInv
<1> QED BY <1>1, <1>2, <1>3, <1>4, <1>5, <1>6 DEF DevNext

(* The bisection and the walk along a chain agree on every device, whether *)
(* it is in the tables or not (lines 48-90).                               *)
THEOREM LookupsAlwaysAgree == DevSpec => []LookupsAgree
<1>1. DevInit => DevInv BY DevStart
<1>2. DevInv /\ [DevNext]_devVars => DevInv' BY TableStep, ChainStep, LookupStep DEF DevInv
<1>3. DevInv => LookupsAgree
  <2> SUFFICES ASSUME DevInv PROVE LookupsAgree OBVIOUS
  <2>1. {bsearch_val, hash_val} \subseteq {Open, Config} BY DEF DevInv, LookupInv
  <2> QED BY <2>1 DEF LookupsAgree, Config, Known
<1> QED BY <1>1, <1>2, <1>3, PTL DEF DevSpec

(***************************************************************************)
(* The scripts, with any stubs and any failures.  Every exercise ends with *)
(* a line of results, so one that fails at an allocation has not printed   *)
(* all of them.                                                            *)
(***************************************************************************)
IsExercise(s) == Len(s) \in Nat \ {0} /\ s[Len(s)] = "print"

NeighboursInv ==
  \A b \in Bins : (b < bin => printed[b] = ResultLines(b)) /\ (b > bin => printed[b] = 0)

ProgramInv == /\ bin \in Bins /\ bin <= built
              /\ phase \in 1 .. Len(EX_BINS[bin]) + 1
              /\ printed[bin] = Printed(bin, phase - 1)

RunInv ==
  /\ run_pc \in {"build", "loop", "program", "ended"}
  /\ built \in 0 .. 17 /\ bin \in 1 .. 18
  /\ status \in Nat /\ (run_pc # "ended" => status = 0)
  /\ printed \in [Bins -> Nat]
  /\ NeighboursInv
  /\ run_pc = "build" => bin = 1
  /\ run_pc \in {"build", "loop"} => (bin \in Bins => printed[bin] = 0)
  /\ run_pc = "program" => ProgramInv
  /\ run_pc = "ended" => IF status = 0 THEN bin > built
                         ELSE bin \in Bins => printed[bin] < ResultLines(bin)

LEMMA ExercisesPrint == Len(EX_BINS) = 17 /\ Bins = 1 .. 17 /\ \A b \in Bins : IsExercise(EX_BINS[b])
<1>1. IsExercise(ex1_1) BY DEF IsExercise, ex1_1
<1>2. IsExercise(ex1_2) BY DEF IsExercise, ex1_2
<1>3. IsExercise(ex2_1)
  <2>1. ex2_1 = [p \in 1 .. 11 |-> IF p = 1 THEN "malloc" ELSE "print"] BY DEF ex2_1
  <2> QED BY <2>1 DEF IsExercise
<1>4. IsExercise(ex2_2) BY DEF IsExercise, ex2_2
<1>5. IsExercise(ex3_1) BY DEF IsExercise, ex3_1
<1>6. IsExercise(ex4_1) BY DEF IsExercise, ex4_1
<1>7. IsExercise(ex4_2) BY DEF IsExercise, ex4_2
<1>8. IsExercise(ex5_1) BY DEF IsExercise, ex5_1
<1>9. IsExercise(ex6_1) BY DEF IsExercise, ex6_1
<1>10. IsExercise(ex7_1) BY DEF IsExercise, ex7_1
<1>11. IsExercise(ex8_1) BY DEF IsExercise, ex8_1
<1>12. IsExercise(ex9_1) BY DEF IsExercise, ex9_1
<1>13. IsExercise(ex10_1) BY DEF IsExercise, ex10_1
<1>14. IsExercise(ex12_1) BY DEF IsExercise, ex12_1
<1>15. IsExercise(ex13_1) BY DEF IsExercise, ex13_1
<1>16. IsExercise(ex16_1) BY DEF IsExercise, ex16_1
<1>17. IsExercise(ex17_1) BY DEF IsExercise, ex17_1
<1>18. Len(EX_BINS) = 17 BY DEF EX_BINS
<1>19. ASSUME NEW b \in Bins PROVE IsExercise(EX_BINS[b])
  <2>1. b \in 1 .. 17 BY <1>18 DEF Bins
  <2>2. \/ EX_BINS[b] = ex1_1 \/ EX_BINS[b] = ex1_2 \/ EX_BINS[b] = ex2_1 \/ EX_BINS[b] = ex2_2
        \/ EX_BINS[b] = ex3_1 \/ EX_BINS[b] = ex4_1 \/ EX_BINS[b] = ex4_2 \/ EX_BINS[b] = ex5_1
        \/ EX_BINS[b] = ex6_1 \/ EX_BINS[b] = ex7_1 \/ EX_BINS[b] = ex8_1 \/ EX_BINS[b] = ex9_1
        \/ EX_BINS[b] = ex10_1 \/ EX_BINS[b] = ex12_1 \/ EX_BINS[b] = ex13_1
        \/ EX_BINS[b] = ex16_1 \/ EX_BINS[b] = ex17_1
    BY <2>1 DEF EX_BINS
  <2> QED BY <1>1, <1>2, <1>3, <1>4, <1>5, <1>6, <1>7, <1>8, <1>9, <1>10, <1>11, <1>12, <1>13,
             <1>14, <1>15, <1>16, <1>17, <2>2
<1>20. Bins = 1 .. 17 BY <1>18 DEF Bins
<1> QED BY <1>18, <1>19, <1>20

LEMMA CountFacts ==
  ASSUME NEW b \in Bins, NEW p \in Nat, p < Len(EX_BINS[b])
  PROVE  /\ Printed(b, 0) = 0 /\ Printed(b, p) \in Nat
         /\ EX_BINS[b][p + 1] = "print" => Printed(b, p + 1) = Printed(b, p) + 1
         /\ EX_BINS[b][p + 1] # "print" => Printed(b, p + 1) = Printed(b, p)
         /\ Printed(b, p) < ResultLines(b)
<1> DEFINE s == EX_BINS[b]
           S(q) == {x \in 1 .. q : s[x] = "print"}
<1>1. Len(s) \in Nat \ {0} /\ s[Len(s)] = "print" BY ExercisesPrint DEF IsExercise
<1> HIDE DEF s
<1>2. p < Len(s) BY DEF s
<1>3. \A q \in Nat : IsFiniteSet(S(q))
  <2> SUFFICES ASSUME NEW q \in Nat PROVE IsFiniteSet(S(q)) OBVIOUS
  <2>1. IsFiniteSet(1 .. q) BY FS_Interval
  <2>2. S(q) \in SUBSET (1 .. q) OBVIOUS
  <2> QED BY <2>1, <2>2, FS_Subset
<1>4. \A q \in Nat : Printed(b, q) = Cardinality(S(q)) BY DEF Printed, s
<1>5. Printed(b, 0) = 0
  <2>1. S(0) = {} OBVIOUS
  <2> QED BY <1>4, <2>1, FS_EmptySet
<1>6. Printed(b, p) \in Nat BY <1>3, <1>4, FS_CardinalityType
<1>7. ASSUME s[p + 1] = "print" PROVE Printed(b, p + 1) = Printed(b, p) + 1
  <2>1. S(p + 1) = S(p) \cup {p + 1} /\ p + 1 \notin S(p) BY <1>7
  <2> HIDE DEF S
  <2>2. Cardinality(S(p + 1)) = Cardinality(S(p)) + 1 BY <1>3, <2>1, FS_AddElement
  <2> QED BY <1>4, <2>2
<1>8. ASSUME s[p + 1] # "print" PROVE Printed(b, p + 1) = Printed(b, p)
  <2>1. S(p + 1) = S(p) BY <1>8
  <2> HIDE DEF S
  <2> QED BY <1>4, <2>1
<1>9. Printed(b, p) < ResultLines(b)
  <2>1. S(p) \in SUBSET S(Len(s)) /\ Len(s) \in S(Len(s)) /\ Len(s) \notin S(p) BY <1>1, <1>2
  <2>2. ResultLines(b) = Cardinality(S(Len(s))) /\ IsFiniteSet(S(Len(s)))
    BY <1>1, <1>3, <1>4 DEF ResultLines, s
  <2> HIDE DEF S
  <2>3. Cardinality(S(p)) <= Cardinality(S(Len(s))) /\ Cardinality(S(p)) # Cardinality(S(Len(s)))
    BY <2>1, <2>2, FS_Subset
  <2>4. Cardinality(S(p)) \in Nat /\ Cardinality(S(Len(s))) \in Nat
    BY <1>3, <2>2, FS_CardinalityType
  <2> QED BY <1>4, <2>2, <2>3, <2>4
<1> QED BY <1>5, <1>6, <1>7, <1>8, <1>9 DEF s

LEMMA RunStart == RunInit => RunInv
<1> SUFFICES ASSUME RunInit PROVE RunInv OBVIOUS
<1>1. /\ bin = 1 /\ status = 0 /\ printed = [b \in Bins |-> 0] /\ run_pc \in {"build", "loop"}
      /\ built \in 0 .. 17
  <2>1. Len(EX_BINS) = 17 BY ExercisesPrint
  <2>2. \/ run_pc = "loop" /\ built \in 0 .. Len(EX_BINS)
        \/ run_pc = "build" /\ built = 0
    BY DEF RunInit
  <2>3. bin = 1 /\ status = 0 /\ printed = [b \in Bins |-> 0] BY DEF RunInit
  <2> QED BY <2>1, <2>2, <2>3
<1>2. NeighboursInv BY <1>1, ExercisesPrint DEF NeighboursInv
<1> QED BY <1>1, <1>2, ExercisesPrint DEF RunInv

LEMMA RunStepInv == RunInv /\ [RunNext]_runVars => RunInv'
<1> SUFFICES ASSUME RunInv, [RunNext]_runVars PROVE RunInv' OBVIOUS
<1>0. Len(EX_BINS) = 17 /\ Bins = 1 .. 17 BY ExercisesPrint
<1> USE <1>0
<1>1. ASSUME Rests \/ UNCHANGED runVars PROVE RunInv'
  <2>1. UNCHANGED runVars BY <1>1 DEF Rests
  <2> QED BY <2>1 DEF runVars, choices, threads, RunInv, NeighboursInv, ProgramInv
<1>2. ASSUME Build \/ BuildFails PROVE RunInv'
  <2>1. /\ run_pc = "build" /\ bin = 1 /\ bin' = bin /\ printed' = printed /\ status = 0
        /\ \/ run_pc' \in {"build", "loop"} /\ built' \in 0 .. 17 /\ status' = status
           \/ run_pc' = "ended" /\ status' = 2 /\ built' = built
    BY <1>2 DEF Build, BuildFails, RunInv
  <2>2. printed[1] = 0 /\ 1 \in Bins BY <2>1 DEF RunInv
  <2>3. 0 < ResultLines(1)
    <3>1. 0 < Len(EX_BINS[1]) BY ExercisesPrint DEF IsExercise
    <3>2. Printed(1, 0) = 0 /\ Printed(1, 0) < ResultLines(1) BY <2>2, <3>1, CountFacts
    <3> QED BY <3>2
  <2>4. NeighboursInv' BY <2>1 DEF RunInv, NeighboursInv
  <2> QED BY <2>1, <2>2, <2>3, <2>4 DEF RunInv
<1>3. CASE StartBin
  <2>1. /\ run_pc = "loop" /\ run_pc' = "program" /\ bin <= built /\ phase' = 1
        /\ bin' = bin /\ built' = built /\ status' = status /\ printed' = printed
    BY <1>3 DEF StartBin
  <2>2. bin \in Bins /\ printed[bin] = 0 BY <2>1 DEF RunInv
  <2>3. Len(EX_BINS[bin]) \in Nat \ {0} BY <2>2, ExercisesPrint DEF IsExercise
  <2>4. Printed(bin, 1 - 1) = 0 BY <2>2, <2>3, CountFacts
  <2>5. NeighboursInv' BY <2>1 DEF RunInv, NeighboursInv
  <2>6. ProgramInv' BY <2>1, <2>2, <2>3, <2>4 DEF ProgramInv
  <2> QED BY <2>1, <2>5, <2>6 DEF RunInv
<1>4. CASE LoopEnds
  <2>1. /\ run_pc = "loop" /\ run_pc' = "ended" /\ bin > built
        /\ UNCHANGED <<built, bin, phase, status, printed>>
    BY <1>4 DEF LoopEnds
  <2>2. NeighboursInv' BY <2>1 DEF RunInv, NeighboursInv
  <2> QED BY <2>1, <2>2 DEF RunInv
<1>5. ASSUME Produce \/ Consume PROVE RunInv'
  <2>1. UNCHANGED <<run_pc, built, bin, phase, status, printed>>
    BY <1>5 DEF Produce, Consume
  <2> QED BY <2>1 DEF RunInv, NeighboursInv, ProgramInv
<1>6. ASSUME Prints \/ Allocates \/ ThreadsJoined PROVE RunInv'
  <2>1. /\ run_pc = "program" /\ phase <= Len(EX_BINS[bin]) /\ phase' = phase + 1
        /\ UNCHANGED <<run_pc, built, bin, status>>
        /\ \/ EX_BINS[bin][phase] = "print" /\ printed' = [printed EXCEPT ![bin] = @ + 1]
           \/ EX_BINS[bin][phase] # "print" /\ printed' = printed
    BY <1>6 DEF Prints, Allocates, ThreadsJoined, TwoThreads, Doing
  <2>2. ProgramInv /\ printed \in [Bins -> Nat] /\ NeighboursInv BY <2>1 DEF RunInv
  <2>3. bin \in Bins /\ Len(EX_BINS[bin]) \in Nat
    BY <2>2, ExercisesPrint DEF IsExercise, ProgramInv
  <2> DEFINE p == phase - 1
  <2>4. p \in Nat /\ p < Len(EX_BINS[bin]) /\ p + 1 = phase
    <3>1. phase \in 1 .. Len(EX_BINS[bin]) + 1 BY <2>2 DEF ProgramInv
    <3> QED BY <2>1, <2>3, <3>1
  <2>5. printed' \in [Bins -> Nat] /\ printed'[bin] = Printed(bin, phase)
    <3>1. /\ EX_BINS[bin][phase] = "print" => Printed(bin, phase) = Printed(bin, p) + 1
          /\ EX_BINS[bin][phase] # "print" => Printed(bin, phase) = Printed(bin, p)
      <4> HIDE DEF p
      <4>1. /\ EX_BINS[bin][p + 1] = "print" => Printed(bin, p + 1) = Printed(bin, p) + 1
            /\ EX_BINS[bin][p + 1] # "print" => Printed(bin, p + 1) = Printed(bin, p)
        BY <2>3, <2>4, CountFacts
      <4> QED BY <2>4, <4>1
    <3>2. printed[bin] = Printed(bin, p) BY <2>2 DEF ProgramInv
    <3> HIDE DEF p
    <3>3. Printed(bin, p) \in Nat BY <2>3, <2>4, CountFacts
    <3>4. CASE EX_BINS[bin][phase] = "print"
      <4>1. printed' = [printed EXCEPT ![bin] = printed[bin] + 1] BY <2>1, <3>4
      <4>2. printed[bin] + 1 \in Nat /\ printed[bin] + 1 = Printed(bin, phase) BY <3>1, <3>2, <3>3, <3>4
      <4> QED BY <2>2, <2>3, <4>1, <4>2
    <3>5. CASE EX_BINS[bin][phase] # "print" BY <2>1, <2>2, <3>1, <3>2, <3>5
    <3> QED BY <3>4, <3>5
  <2>6. \A b \in Bins : b # bin => printed'[b] = printed[b] BY <2>1, <2>2
  <2>7. ProgramInv'
    <3>1. phase' \in 1 .. Len(EX_BINS[bin]) + 1 /\ phase' - 1 = phase BY <2>1, <2>3, <2>4
    <3> QED BY <2>1, <2>2, <2>5, <3>1 DEF ProgramInv
  <2>8. NeighboursInv'
    <3>1. \A b \in Bins : (b < bin => b # bin) /\ (b > bin => b # bin) BY <2>3
    <3> QED BY <2>1, <2>2, <2>6, <3>1, Zenon DEF NeighboursInv
  <2> QED BY <2>1, <2>5, <2>7, <2>8 DEF RunInv
<1>7. CASE ReturnsFromMain
  <2>1. /\ run_pc = "program" /\ run_pc' = "loop" /\ phase > Len(EX_BINS[bin])
        /\ bin' = bin + 1 /\ status' = 0 /\ built' = built /\ printed' = printed
    BY <1>7 DEF ReturnsFromMain, ProgramEnds, Goes
  <2>2. ProgramInv /\ printed \in [Bins -> Nat] /\ NeighboursInv BY <2>1 DEF RunInv
  <2>3. bin \in Bins /\ Len(EX_BINS[bin]) \in Nat
    BY <2>2, ExercisesPrint DEF IsExercise, ProgramInv
  <2>4. phase - 1 = Len(EX_BINS[bin])
    <3>1. phase \in 1 .. Len(EX_BINS[bin]) + 1 BY <2>2 DEF ProgramInv
    <3> QED BY <2>1, <2>3, <3>1
  <2>5. printed[bin] = ResultLines(bin) BY <2>2, <2>4 DEF ResultLines, ProgramInv
  <2>6. ASSUME NEW b \in Bins
        PROVE  (b < bin + 1 => printed[b] = ResultLines(b)) /\ (b >= bin + 1 => printed[b] = 0)
    <3>1. (b < bin + 1 => b < bin \/ b = bin) /\ (b >= bin + 1 => b > bin) BY <2>3
    <3> QED BY <2>2, <2>5, <3>1 DEF NeighboursInv
  <2>7. bin' \in 1 .. 18 /\ \A b \in Bins : b > bin + 1 => b >= bin + 1 BY <2>1, <2>3
  <2>8. NeighboursInv' BY <2>1, <2>6, <2>7 DEF NeighboursInv
  <2>9. bin' \in Bins => printed'[bin'] = 0
    <3>1. bin + 1 >= bin + 1 BY <2>3
    <3> QED BY <2>1, <2>6, <3>1
  <2> QED BY <2>1, <2>2, <2>7, <2>8, <2>9 DEF RunInv
<1>8. CASE OutOfMemory
  <2>1. /\ run_pc = "program" /\ phase <= Len(EX_BINS[bin])
        /\ \E code \in {1, 139} : ProgramEnds(code)
    BY <1>8 DEF OutOfMemory, Doing
  <2>2. /\ run_pc' = "ended" /\ status' \in {1, 2, 139}
        /\ bin' = bin /\ built' = built /\ printed' = printed
    <3>1. PICK code \in {1, 139} : ProgramEnds(code) BY <2>1
    <3>2. PICK ended \in {1, 2, 139} : Goes(ended) BY <3>1 DEF ProgramEnds
    <3> QED BY <3>2 DEF Goes
  <2>3. ProgramInv /\ printed \in [Bins -> Nat] /\ NeighboursInv BY <2>1 DEF RunInv
  <2>4. bin \in Bins /\ Len(EX_BINS[bin]) \in Nat
    BY <2>3, ExercisesPrint DEF IsExercise, ProgramInv
  <2>5. phase - 1 \in Nat /\ phase - 1 < Len(EX_BINS[bin])
    <3>1. phase \in 1 .. Len(EX_BINS[bin]) + 1 BY <2>3 DEF ProgramInv
    <3> QED BY <2>1, <2>4, <3>1
  <2>6. printed[bin] < ResultLines(bin)
    <3>1. Printed(bin, phase - 1) < ResultLines(bin) BY <2>4, <2>5, CountFacts
    <3> QED BY <2>3, <3>1 DEF ProgramInv
  <2>7. NeighboursInv' BY <2>2, <2>3 DEF NeighboursInv
  <2>8. status' \in Nat /\ status' # 0 BY <2>2
  <2> QED BY <2>2, <2>6, <2>7, <2>8 DEF RunInv
<1> QED BY <1>1, <1>2, <1>3, <1>4, <1>5, <1>6, <1>7, <1>8 DEF RunNext, RunStep

(* The scripts stop at the first exercise that fails, whatever the stubs   *)
(* and the allocations do (Makefile lines 37-40, run.sh lines 11, 23-27).  *)
THEOREM ScriptsStop == RunSpec => []StopsAtFirstFailure
<1>1. RunInv => StopsAtFirstFailure
  <2> SUFFICES ASSUME RunInv PROVE StopsAtFirstFailure OBVIOUS
  <2>0. Len(EX_BINS) = 17 /\ Bins = 1 .. 17 BY ExercisesPrint
  <2>1. run_pc = "ended" /\ status = 0 => \A b \in 1 .. built : printed[b] = ResultLines(b)
    BY <2>0 DEF RunInv, NeighboursInv
  <2>2. run_pc = "ended" /\ status # 0 /\ bin <= built => printed[bin] < ResultLines(bin)
    BY <2>0 DEF RunInv
  <2> QED BY <2>1, <2>2 DEF RunInv, NeighboursInv, StopsAtFirstFailure
<1> QED BY <1>1, RunStart, RunStepInv, PTL DEF RunSpec

(***************************************************************************)
(* The sweeps of chapters 1, 2 and 4.  A walk whose steps are no longer    *)
(* than a line misses once on each line from the first to the last; a jump *)
(* of a line or more always misses.  The sum over a shuffled array is that *)
(* over the array because a swap does not change the sum of rand_idx; the  *)
(* sums over the matrix have a closed form.                                *)
(***************************************************************************)
LEMMA SweepSizes ==
  /\ ELEMENTS \in Nat \ {0} /\ ROWS \in Nat \ {0} /\ COLS \in Nat \ {0}
  /\ ARRAY_BYTES \in Nat \ {0} /\ MAX_STRIDE \in Nat \ {0}
  /\ LINE \in Nat \ {0} /\ INT_BYTES \in Nat \ {0} /\ INT_BYTES <= LINE
  /\ ROWS > 2 /\ COLS * INT_BYTES >= LINE
<1>1. /\ ELEMENTS \in Nat \ {0} /\ ROWS \in Nat \ {0} /\ COLS \in Nat \ {0}
      /\ ARRAY_BYTES \in Nat \ {0} /\ MAX_STRIDE \in Nat \ {0}
      /\ LINE \in Nat \ {0} /\ INT_BYTES \in Nat \ {0} /\ LINE % INT_BYTES = 0
      /\ ROWS > 2 /\ COLS * INT_BYTES >= LINE
  BY SweepAssumption
<1>2. INT_BYTES > LINE => LINE % INT_BYTES = LINE BY <1>1, SmallModulo
<1> QED BY <1>1, <1>2

LineAt(offset) == (array_base + offset) \div LINE

LEMMA LineBounds ==
  ASSUME array_base \in 0 .. LINE - 1, NEW o \in Nat
  PROVE  /\ LineAt(o) \in Nat
         /\ LINE * LineAt(o) <= array_base + o
         /\ array_base + o < LINE * LineAt(o) + LINE
<1> DEFINE a == array_base + o
           q == a \div LINE
           r == a % LINE
<1>1. a \in Nat /\ LINE \in Nat \ {0} BY SweepSizes
<1> HIDE DEF a
<1>2. q \in Int /\ r \in 0 .. LINE - 1 /\ a = LINE * q + r BY <1>1, Division
<1> HIDE DEF q, r
<1>3. q >= 0
  <2> SUFFICES ASSUME q <= -1 PROVE FALSE BY <1>2
  <2>1. LINE * q <= -LINE BY <1>1, <1>2
  <2> QED BY <1>1, <1>2, <2>1
<1> QED BY <1>1, <1>2, <1>3 DEF LineAt, a, q

LEMMA LinesApart ==
  ASSUME array_base \in 0 .. LINE - 1, NEW o \in Nat, NEW o2 \in Nat
  PROVE  /\ o2 >= o + LINE => LineAt(o2) # LineAt(o)
         /\ o2 >= o /\ o2 <= o + LINE => LineAt(o2) \in {LineAt(o), LineAt(o) + 1}
<1> DEFINE x == LineAt(o)
           y == LineAt(o2)
<1>1. LINE \in Nat \ {0} BY SweepSizes
<1>2. /\ x \in Nat /\ LINE * x <= array_base + o /\ array_base + o < LINE * x + LINE
      /\ y \in Nat /\ LINE * y <= array_base + o2 /\ array_base + o2 < LINE * y + LINE
  BY LineBounds
<1> HIDE DEF x, y
<1>3. LINE * x \in Nat /\ LINE * y \in Nat BY <1>1, <1>2
<1>4. o2 >= o + LINE => y # x BY <1>1, <1>2, <1>3
<1>5. ASSUME o2 >= o, o2 <= o + LINE PROVE y \in {x, x + 1}
  <2>1. LINE * y < LINE * x + 2 * LINE /\ LINE * x < LINE * y + LINE
    BY <1>1, <1>2, <1>3, <1>5
  <2>2. y >= x + 2 => LINE * y >= LINE * (x + 2) BY <1>1, <1>2
  <2>3. LINE * (x + 2) = LINE * x + 2 * LINE BY <1>1, <1>2
  <2>4. x >= y + 1 => LINE * x >= LINE * (y + 1) BY <1>1, <1>2
  <2>5. LINE * (y + 1) = LINE * y + LINE BY <1>1, <1>2
  <2>6. ~ (y >= x + 2) /\ ~ (x >= y + 1) BY <1>1, <1>2, <1>3, <2>1, <2>2, <2>3, <2>4, <2>5
  <2> QED BY <1>2, <2>6
<1> QED BY <1>4, <1>5 DEF x, y

(* The loads of a walk so far, the next of which is of offset o. *)
Walking(o, step) ==
  IF reads = 0 THEN line = -1 /\ misses = 0 /\ o = 0
  ELSE o \in Nat /\ o >= step /\ line = LineAt(o - step) /\ misses = line + 1

LEMMA WalkOn ==
  ASSUME array_base \in 0 .. LINE - 1, reads \in Nat, NEW step \in 1 .. LINE, NEW o,
         Walking(o, step), NEW loaded, Read(o, loaded), array_base' = array_base
  PROVE  o \in Nat /\ reads' = reads + 1 /\ misses' \in Nat /\ Walking(o + step, step)'
<1>1. /\ line' = LineAt(o) /\ reads' = reads + 1
      /\ misses' = IF line' = line THEN misses ELSE misses + 1
  BY DEF Read, LineAt
<1>2. LINE \in Nat \ {0} /\ o \in Nat BY SweepSizes DEF Walking
<1>3. LineAt(o) \in Nat BY <1>2, LineBounds
<1>4. misses' = line' + 1
  <2>1. CASE reads = 0
    <3>1. o = 0 /\ line = -1 /\ misses = 0 BY <2>1 DEF Walking
    <3>2. LineAt(0) = 0
      <4>1. LineAt(0) \in Nat /\ LINE * LineAt(0) <= array_base + 0 BY LineBounds
      <4>2. LineAt(0) >= 1 => LINE * LineAt(0) >= LINE * 1 BY <1>2, <4>1
      <4> QED BY <1>2, <4>1, <4>2
    <3> QED BY <1>1, <3>1, <3>2
  <2>2. CASE reads # 0
    <3>1. o >= step /\ line = LineAt(o - step) /\ misses = line + 1 BY <2>2 DEF Walking
    <3>2. o - step \in Nat /\ o >= o - step /\ o <= (o - step) + LINE BY <1>2, <3>1
    <3>3. line \in Nat /\ LineAt(o) \in {line, line + 1}
      BY <1>2, <3>1, <3>2, LineBounds, LinesApart
    <3> QED BY <1>1, <3>1, <3>3
  <2> QED BY <2>1, <2>2
<1>5. Walking(o + step, step)'
  <2>1. (o + step) - step = o /\ o + step \in Nat /\ o + step >= step BY <1>2
  <2>2. line' = LineAt((o + step) - step)' BY <1>1, <2>1 DEF LineAt
  <2>3. reads' # 0 BY <1>1
  <2> QED BY <1>1, <1>4, <2>1, <2>2, <2>3 DEF Walking
<1> QED BY <1>1, <1>2, <1>3, <1>4, <1>5

LEMMA WalkEnds ==
  ASSUME array_base \in 0 .. LINE - 1, NEW step \in 1 .. LINE, NEW o \in Nat, o % LINE = 0,
         reads # 0, Walking(o, step)
  PROVE  misses \in LinesOf(o, LINE)
<1> DEFINE q == o \div LINE
           l == LineAt(o - step)
<1>1. LINE \in Nat \ {0} BY SweepSizes
<1>2. q \in Int /\ o = LINE * q BY <1>1, Division
<1>3. o >= step /\ line = l /\ misses = l + 1 BY DEF Walking
<1>4. o - step \in Nat BY <1>1, <1>3
<1>5. /\ l \in Nat /\ LINE * l <= array_base + (o - step)
      /\ array_base + (o - step) < LINE * l + LINE
  BY <1>4, LineBounds
<1> HIDE DEF q, l
<1>6. LINE * l < LINE * q + LINE /\ LINE * q < LINE * l + 2 * LINE
  <2>1. LINE * l \in Int /\ LINE * q \in Int BY <1>1, <1>2, <1>5
  <2> QED BY <1>1, <1>2, <1>5, <2>1
<1>7. l <= q /\ q <= l + 1
  <2>1. l >= q + 1 => LINE * l >= LINE * (q + 1) BY <1>1, <1>2, <1>5
  <2>2. q >= l + 2 => LINE * q >= LINE * (l + 2) BY <1>1, <1>2, <1>5
  <2>3. LINE * (q + 1) = LINE * q + LINE /\ LINE * (l + 2) = LINE * l + 2 * LINE
    BY <1>1, <1>2, <1>5
  <2>4. LINE * l \in Int /\ LINE * q \in Int BY <1>1, <1>2, <1>5
  <2>5. ~ (l >= q + 1) /\ ~ (q >= l + 2) BY <1>1, <1>6, <2>1, <2>2, <2>3, <2>4
  <2> QED BY <1>2, <1>5, <2>5
<1>8. misses \in {q, q + 1} BY <1>2, <1>3, <1>5, <1>7
<1> QED BY <1>8 DEF LinesOf, q

(* The loads of jumps so far, the last one of offset o. *)
Jumping(o) ==
  /\ misses = reads
  /\ IF reads = 0 THEN line = -1 ELSE o \in Nat /\ line = LineAt(o)

LEMMA JumpOn ==
  ASSUME array_base \in 0 .. LINE - 1, reads \in Nat, NEW o, Jumping(o), NEW o2 \in Nat,
         reads # 0 => o2 >= o + LINE \/ o >= o2 + LINE,
         NEW loaded, Read(o2, loaded), array_base' = array_base
  PROVE  reads' = reads + 1 /\ misses' \in Nat /\ Jumping(o2)'
<1>1. /\ line' = LineAt(o2) /\ reads' = reads + 1
      /\ misses' = IF line' = line THEN misses ELSE misses + 1
  BY DEF Read, LineAt
<1>2. LineAt(o2) \in Nat BY LineBounds
<1>3. line' # line
  <2>1. CASE reads = 0
    <3>1. line = -1 BY <2>1 DEF Jumping
    <3> QED BY <1>1, <1>2, <3>1
  <2>2. CASE reads # 0
    <3>1. o \in Nat /\ line = LineAt(o) BY <2>2 DEF Jumping
    <3>2. LineAt(o2) # LineAt(o) BY <2>2, <3>1, LinesApart
    <3> QED BY <1>1, <3>1, <3>2
  <2> QED BY <2>1, <2>2
<1>4. line' = LineAt(o2)' BY <1>1 DEF LineAt
<1> QED BY <1>1, <1>3, <1>4 DEF Jumping

(* The sum of the first w values of f, and what a swap leaves of a sum. *)
Upto(f, w) == [m \in Element |-> IF m < w THEN f[m] ELSE 0]
Ident == [e \in Element |-> e]

LEMMA ElementFacts ==
  IsFiniteSet(Element) /\ (\A e \in Element : e \in Int) /\ Ident \in [Element -> Element]
<1>1. IsFiniteSet(0 .. ELEMENTS - 1) BY SweepSizes, FS_Interval
<1> QED BY <1>1 DEF Element, Ident

LEMMA SumUpto ==
  ASSUME NEW f \in [Element -> Element]
  PROVE  /\ Total(Upto(f, 0)) = 0
         /\ \A w \in Element : /\ Total(Upto(f, w)) \in Int
                               /\ Total(Upto(f, w + 1)) = Total(Upto(f, w)) + f[w]
         /\ Upto(f, ELEMENTS) = f
<1>1. /\ \A m \in Element : f[m] \in Nat /\ m \in Nat /\ 0 <= m /\ m < ELEMENTS
      /\ f = [m \in Element |-> f[m]]
  BY SweepSizes DEF Element
<1>2. Total(Upto(f, 0)) = 0
  <2> DEFINE g == Upto(f, 0)
  <2>1. DOMAIN g = Element /\ \A m \in Element : g[m] \in Nat /\ g[m] = 0
    BY <1>1 DEF Upto
  <2> HIDE DEF g
  <2>2. IsFiniteSet(Element) BY ElementFacts
  <2>3. Total(g) = 0 BY <2>1, <2>2, TotalOfNaturals
  <2> QED BY <2>3 DEF g
<1>3. ASSUME NEW w \in Element
      PROVE  Total(Upto(f, w)) \in Int /\ Total(Upto(f, w + 1)) = Total(Upto(f, w)) + f[w]
  <2> DEFINE g == Upto(f, w)
             h == Upto(f, w + 1)
  <2>1. /\ DOMAIN g = Element /\ DOMAIN h = Element
        /\ \A m \in Element : g[m] \in Int /\ (m # w => h[m] = g[m])
        /\ g[w] = 0 /\ h[w] = f[w] /\ f[w] \in Int /\ h[w] \in Int
    <3>1. \A m \in Element : m # w => (m < w + 1 <=> m < w) BY <1>1
    <3>2. w < w + 1 /\ ~ (w < w) BY <1>1
    <3> QED BY <1>1, <3>1, <3>2 DEF Upto
  <2> HIDE DEF g, h
  <2>2. Total(g) \in Int /\ Total(h) = Total(g) + (h[w] - g[w])
    <3>1. IsFiniteSet(Element) BY ElementFacts
    <3> QED BY <2>1, <3>1, TotalAdds
  <2>3. Total(g) \in Int /\ Total(h) = Total(g) + f[w] BY <2>1, <2>2
  <2> QED BY <2>3 DEF g, h
<1>4. Upto(f, ELEMENTS) = f BY <1>1 DEF Upto
<1> QED BY <1>2, <1>3, <1>4

LEMMA SwapKeepsSum ==
  ASSUME NEW f \in [Element -> Element], NEW k0 \in Element, NEW m \in Element
  PROVE  LET g == [f EXCEPT ![k0] = f[m], ![m] = f[k0]]
         IN g \in [Element -> Element] /\ Total(g) = Total(f)
<1> DEFINE h == [f EXCEPT ![k0] = f[m]]
           g == [h EXCEPT ![m] = f[k0]]
<1>1. /\ \A e \in Element : f[e] \in Int /\ f[e] \in Element
      /\ DOMAIN f = Element /\ IsFiniteSet(Element)
  <2>1. \A e \in Element : f[e] \in Element OBVIOUS
  <2> QED BY <2>1, ElementFacts
<1>2. /\ DOMAIN h = Element /\ h[k0] = f[m] /\ h[m] = f[m]
      /\ \A e \in Element : e # k0 => h[e] = f[e]
  BY <1>1
<1>3. /\ h \in [Element -> Element] /\ h[k0] \in Int /\ h[m] \in Int
      /\ \A e \in Element : h[e] \in Int
  <2> HIDE DEF h
  <2>1. \A e \in Element : h[e] \in Element BY <1>1, <1>2
  <2>2. h \in [Element -> Element] BY <1>1 DEF h
  <2>3. \A e \in Element : h[e] \in Int BY <2>1, ElementFacts
  <2> QED BY <2>2, <2>3
<1> HIDE DEF h
<1>4. /\ DOMAIN g = Element /\ g[m] = f[k0] /\ g[m] \in Int
      /\ \A e \in Element : e # m => g[e] = h[e]
      /\ g \in [Element -> Element]
  BY <1>1, <1>2, <1>3
<1> HIDE DEF g
<1>5. Total(f) \in Int /\ Total(h) = Total(f) + (h[k0] - f[k0])
  BY <1>1, <1>2, <1>3, TotalAdds
<1>6. Total(g) = Total(h) + (g[m] - h[m]) BY <1>1, <1>2, <1>3, <1>4, TotalAdds
<1>7. Total(g) = Total(f) BY <1>1, <1>2, <1>3, <1>4, <1>5, <1>6
<1> QED BY <1>4, <1>7 DEF g, h

(***************************************************************************)
(* What has been done so far, in each of the functions.                    *)
(***************************************************************************)
Works == {"setup", "sequential_sum", "random_sum", "stride_access", "row_major_sum",
          "col_major_sum", "update_aos", "update_soa"}
Call == [of : Works, stride : Nat, sum : Int, reads : Nat, misses : Nat]

CallOk(cs, p) ==
  LET call == cs[p] IN
  /\ call.of \in {"random_sum", "col_major_sum"} =>
       p = 2 /\ call.sum = cs[1].sum /\ call.reads = cs[1].reads
  /\ call.of = "row_major_sum" => call.misses \in LinesOf(ROWS * COLS * INT_BYTES, LINE)
  /\ call.of = "col_major_sum" => call.misses = ROWS * COLS
  /\ call.of = "stride_access" =>
       /\ call.reads = ARRAY_BYTES \div call.stride
       /\ call.misses \in
            LinesOf(ARRAY_BYTES, IF call.stride > LINE THEN call.stride ELSE LINE)

ListInv(f) == s_i \in 0 .. ELEMENTS /\ reads = s_i /\ s_sum = Total(Upto(f, s_i))

ShuffleInv    == calls = <<>> /\ s_i \in Element /\ s_sum = 0 /\ reads = 0
SequentialInv == calls = <<>> /\ ListInv(Ident)
RandomInv     == Len(calls) = 1 /\ calls[1].sum = Total(Ident) /\ calls[1].reads = ELEMENTS
                 /\ ListInv(rand_idx)

StrideInv ==
  /\ stride \in 1 .. MAX_STRIDE /\ ARRAY_BYTES % stride = 0
  /\ s_i \in 0 .. ARRAY_BYTES /\ s_i = stride * reads
  /\ stride <= LINE => Walking(s_i, stride)
  /\ stride > LINE => Jumping(s_i - stride)

RowInv ==
  /\ calls = <<>>
  /\ s_i \in 0 .. ROWS /\ s_j \in 0 .. COLS /\ (s_i = ROWS => s_j = 0)
  /\ reads = s_i * COLS + s_j /\ 2 * s_sum = reads * (reads - 1)
  /\ Walking(reads * INT_BYTES, INT_BYTES)

ColumnSum(c, r) ==
  c * (COLS * ROWS * (ROWS - 1)) + ROWS * (c * (c - 1)) + COLS * (r * (r - 1)) + 2 * (c * r)
LastRead == IF s_j = 0 THEN (ROWS - 1) * COLS + (s_i - 1) ELSE (s_j - 1) * COLS + s_i
ColumnInv ==
  /\ Len(calls) = 1 /\ calls[1].reads = ROWS * COLS
  /\ 2 * calls[1].sum = ROWS * COLS * (ROWS * COLS - 1)
  /\ s_i \in 0 .. COLS /\ s_j \in 0 .. ROWS /\ (s_i = COLS => s_j = 0)
  /\ reads = s_i * ROWS + s_j /\ 2 * s_sum = ColumnSum(s_i, s_j)
  /\ Jumping(LastRead * INT_BYTES)

ReadsInv ==
  /\ array_base \in 0 .. LINE - 1
  /\ sweep \in Works \cup {"done", "exited"}
  /\ stride \in Nat /\ s_sum \in Int /\ reads \in Nat /\ misses \in Nat
  /\ rand_idx \in [Element -> Element] /\ Total(rand_idx) = Total(Ident)
  /\ calls \in Seq(Call) /\ \A p \in 1 .. Len(calls) : CallOk(calls, p)
  /\ sweep = "setup" => ShuffleInv
  /\ sweep = "sequential_sum" => SequentialInv
  /\ sweep = "random_sum" => RandomInv
  /\ sweep = "stride_access" => StrideInv
  /\ sweep = "row_major_sum" => RowInv
  /\ sweep = "col_major_sum" => ColumnInv

LEMMA ReadsStart == SweepInit => ReadsInv
<1> SUFFICES ASSUME SweepInit PROVE ReadsInv OBVIOUS
<1>1. /\ sweep \in {"setup", "stride_access", "row_major_sum", "update_aos"}
      /\ s_i = (IF sweep = "setup" THEN ELEMENTS - 1 ELSE 0) /\ s_j = 0
      /\ rand_idx = Ident /\ stride = 1 /\ array_base \in 0 .. LINE - 1
      /\ s_sum = 0 /\ line = -1 /\ reads = 0 /\ misses = 0 /\ calls = <<>>
  BY DEF SweepInit, Ident
<1>2. rand_idx \in [Element -> Element] /\ Total(rand_idx) = Total(Ident)
  BY <1>1, ElementFacts
<1>3. calls \in Seq(Call) /\ Len(calls) = 0 BY <1>1
<1>4. sweep = "setup" => ShuffleInv
  <2>1. ELEMENTS - 1 \in Element BY SweepSizes DEF Element
  <2> QED BY <1>1, <2>1 DEF ShuffleInv
<1>5. sweep = "stride_access" => StrideInv
  <2>1. ARRAY_BYTES % 1 = 0 /\ 1 \in 1 .. MAX_STRIDE /\ 1 <= LINE BY SweepSizes
  <2> QED BY <1>1, <2>1, SweepSizes DEF StrideInv, Walking
<1>6. sweep = "row_major_sum" => RowInv
  <2>1. 0 * COLS + 0 = 0 /\ 0 * INT_BYTES = 0 BY SweepSizes
  <2> QED BY <1>1, <2>1, SweepSizes DEF RowInv, Walking
<1> QED BY <1>1, <1>2, <1>3, <1>4, <1>5, <1>6 DEF ReadsInv, Works

LEMMA CallReturns ==
  ASSUME ReadsInv, sweep \in Works, NEW after, Return(after),
         CallOk(calls', Len(calls) + 1)
  PROVE  /\ calls' \in Seq(Call) /\ \A p \in 1 .. Len(calls') : CallOk(calls', p)
<1> DEFINE new == [of |-> sweep, stride |-> stride, sum |-> s_sum, reads |-> reads,
                   misses |-> misses]
           n0 == Len(calls)
<1>1. new \in Call BY DEF ReadsInv, Call
<1>2. calls \in Seq(Call) /\ calls' = Append(calls, new) BY DEF ReadsInv, Return
<1> HIDE DEF new
<1>3. /\ calls' \in Seq(Call) /\ Len(calls') = n0 + 1 /\ n0 \in Nat
      /\ \A p \in 1 .. n0 : calls'[p] = calls[p]
  BY <1>1, <1>2, AppendFacts
<1>4. ASSUME NEW p \in 1 .. n0 PROVE CallOk(calls', p)
  <2>1. CallOk(calls, p) BY DEF ReadsInv
  <2>2. 1 \in 1 .. n0 BY <1>3
  <2>3. calls'[p] = calls[p] /\ calls'[1] = calls[1] BY <1>3, <2>2
  <2> QED BY <2>1, <2>3 DEF CallOk
<1> QED BY <1>3, <1>4

(* The record of a call that returns. *)
LEMMA LastCall ==
  ASSUME ReadsInv, NEW after, Return(after)
  PROVE  LET call == calls'[Len(calls) + 1]
         IN /\ call.of = sweep /\ call.stride = stride /\ call.sum = s_sum
            /\ call.reads = reads /\ call.misses = misses
            /\ Len(calls') = Len(calls) + 1 /\ Len(calls) \in Nat
            /\ \A p \in 1 .. Len(calls) : calls'[p] = calls[p]
BY AppendFacts DEF ReadsInv, Return

LEMMA ShuffleStep == ASSUME ReadsInv, ShuffleTurn \/ SetupDone PROVE ReadsInv'
<1>1. /\ sweep = "setup" /\ ShuffleInv
      /\ UNCHANGED <<array_base, stride, s_sum, reads, misses, calls>>
  BY DEF ReadsInv, ShuffleTurn, SetupDone, readVars, workVars
<1>2. (\A p \in 1 .. Len(calls) : CallOk(calls, p))' BY <1>1 DEF ReadsInv, CallOk
<1>3. CASE ShuffleTurn
  <2>1. PICK m \in 0 .. s_i : rand_idx' = Swapped(m) BY <1>3 DEF ShuffleTurn
  <2>2. /\ s_i > 0 /\ s_i' = s_i - 1 /\ sweep' = "setup" /\ s_i \in 0 .. ELEMENTS - 1
    BY <1>1, <1>3 DEF ShuffleTurn, ShuffleInv, Element
  <2>3. m \in Element /\ s_i' \in Element /\ s_i \in Element BY <2>2, SweepSizes DEF Element
  <2>4. rand_idx' \in [Element -> Element] /\ Total(rand_idx') = Total(rand_idx)
    BY <2>1, <2>3, SwapKeepsSum DEF Swapped, ReadsInv
  <2>5. ShuffleInv' BY <1>1, <2>3 DEF ShuffleInv
  <2> QED BY <1>1, <1>2, <2>2, <2>4, <2>5 DEF ReadsInv, Element, Ident
<1>4. CASE SetupDone
  <2>1. s_i = 0 /\ s_i' = 0 /\ sweep' = "sequential_sum" /\ rand_idx' = rand_idx
    BY <1>4 DEF SetupDone, workVars
  <2>2. SequentialInv'
    <3>1. Total(Upto(Ident, 0)) = 0 BY ElementFacts, SumUpto
    <3>2. s_sum' = 0 /\ reads' = 0 /\ calls' = <<>> /\ s_i' \in 0 .. ELEMENTS
      BY <1>1, <2>1, SweepSizes DEF ShuffleInv
    <3> QED BY <2>1, <3>1, <3>2 DEF SequentialInv, ListInv, Upto, Ident, Element
  <2> QED BY <1>1, <1>2, <2>1, <2>2 DEF ReadsInv, Works, Element, Ident
<1> QED BY <1>3, <1>4

LEMMA SumStep == ASSUME ReadsInv, SumTurn \/ SumReturns PROVE ReadsInv'
<1>1. /\ sweep \in {"sequential_sum", "random_sum"} /\ sweep \in Works
      /\ UNCHANGED <<array_base, stride, rand_idx>>
  BY DEF SumTurn, SumReturns, workVars, Works
<1> DEFINE f == IF sweep = "random_sum" THEN rand_idx ELSE Ident
<1>2. f \in [Element -> Element] /\ ListInv(f) /\ Total(f) = Total(Ident)
  BY <1>1, ElementFacts DEF ReadsInv, SequentialInv, RandomInv
<1>3. CASE SumTurn
  <2>1. s_i < ELEMENTS /\ s_i \in Element /\ s_i' = s_i + 1 /\ UNCHANGED <<sweep, calls>>
    BY <1>2, <1>3, SweepSizes DEF SumTurn, ListInv, Element
  <2>2. Read(f[s_i] * INT_BYTES, f[s_i]) BY <1>3, <2>1 DEF SumTurn, Ident
  <2> HIDE DEF f
  <2>3. f[s_i] \in Int BY <1>2, <2>1, ElementFacts
  <2>4. s_sum' = s_sum + f[s_i] /\ reads' = reads + 1 /\ misses' \in Nat
    BY <2>2 DEF Read, ReadsInv
  <2>5. s_sum' \in Int /\ s_sum' = Total(Upto(f, s_i'))
    BY <1>2, <2>1, <2>3, <2>4, SumUpto DEF ListInv
  <2>6. s_i' \in 0 .. ELEMENTS /\ reads' = s_i' /\ reads' \in Nat
    BY <1>2, <2>1, <2>4, SweepSizes DEF ListInv
  <2>7. Upto(Ident, s_i)' = Upto(Ident, s_i') /\ Upto(rand_idx, s_i)' = Upto(rand_idx, s_i')
    BY <1>1 DEF Upto, Ident, Element
  <2>8. (sweep = "sequential_sum" => SequentialInv)' /\ (sweep = "random_sum" => RandomInv)'
    BY <1>1, <2>1, <2>5, <2>6, <2>7 DEF ReadsInv, SequentialInv, RandomInv, ListInv, f, Ident,
       Element
  <2>9. (\A p \in 1 .. Len(calls) : CallOk(calls, p))' BY <2>1 DEF ReadsInv, CallOk
  <2> QED BY <1>1, <2>1, <2>4, <2>5, <2>6, <2>8, <2>9 DEF ReadsInv, Element, Ident
<1>4. CASE SumReturns
  <2>1. s_i = ELEMENTS /\ Return(IF sweep = "random_sum" THEN "done" ELSE "random_sum")
    BY <1>4 DEF SumReturns
  <2>2. s_sum = Total(Ident) /\ reads = ELEMENTS
    <3>1. Upto(f, ELEMENTS) = f BY <1>2, SumUpto
    <3> HIDE DEF f
    <3> QED BY <1>2, <2>1, <3>1 DEF ListInv
  <2>3. PICK after : after = (IF sweep = "random_sum" THEN "done" ELSE "random_sum")
    OBVIOUS
  <2>4. Return(after) BY <2>1, <2>3
  <2>5. CallOk(calls', Len(calls) + 1)
    <3>1. sweep = "random_sum" =>
            Len(calls) = 1 /\ calls[1].sum = Total(Ident) /\ calls[1].reads = ELEMENTS
      BY DEF ReadsInv, RandomInv
    <3> QED BY <1>1, <2>2, <2>4, <3>1, LastCall DEF CallOk
  <2>6. calls' \in Seq(Call) /\ \A p \in 1 .. Len(calls') : CallOk(calls', p)
    BY <1>1, <2>4, <2>5, CallReturns
  <2>7. (\A p \in 1 .. Len(calls) : CallOk(calls, p))' BY <2>6 DEF CallOk
  <2>8. s_i' = 0 /\ s_sum' = 0 /\ reads' = 0 /\ misses' = 0 /\ sweep' = after
    BY <2>4 DEF Return
  <2>9. (sweep = "random_sum" => RandomInv)'
    <3> SUFFICES ASSUME after = "random_sum" PROVE RandomInv' BY <2>8
    <3>1. calls = <<>> BY <1>1, <2>3 DEF ReadsInv, SequentialInv
    <3>2. Len(calls') = 1 /\ calls'[1].sum = Total(Ident) /\ calls'[1].reads = ELEMENTS
      BY <2>2, <2>4, <3>1, LastCall
    <3>3. Total(Upto(rand_idx, 0)) = 0 BY SumUpto DEF ReadsInv
    <3> QED BY <1>1, <2>8, <3>2, <3>3, SweepSizes DEF RandomInv, ListInv, Upto, Ident, Element
  <2> QED BY <1>1, <2>3, <2>6, <2>7, <2>8, <2>9 DEF ReadsInv, Works, Element, Ident
<1> QED BY <1>3, <1>4

LEMMA MultipleBelow ==
  ASSUME NEW step \in Nat \ {0}, NEW total \in Nat, total % step = 0,
         NEW turns \in Nat, step * turns < total
  PROVE  step * turns + step <= total
<1> DEFINE q == total \div step
<1>1. q \in Int /\ total = step * q BY Division
<1> HIDE DEF q
<1>2. turns >= q => step * turns >= step * q BY <1>1
<1>3. turns + 1 <= q => step * (turns + 1) <= step * q BY <1>1
<1>4. step * (turns + 1) = step * turns + step OBVIOUS
<1>5. step * turns \in Int /\ step * q \in Int BY <1>1
<1> QED BY <1>1, <1>2, <1>3, <1>4, <1>5

LEMMA StrideStep ==
  ASSUME ReadsInv, SetupFails \/ StrideTurn \/ StrideReturns PROVE ReadsInv'
<1>1. sweep = "stride_access" /\ StrideInv /\ UNCHANGED <<array_base, rand_idx>>
  BY DEF ReadsInv, SetupFails, StrideTurn, StrideReturns, workVars
<1>2. /\ ARRAY_BYTES \in Nat \ {0} /\ MAX_STRIDE \in Nat \ {0} /\ LINE \in Nat \ {0}
      /\ stride \in Nat \ {0} /\ reads \in Nat /\ s_i \in Nat /\ s_i = stride * reads
      /\ array_base \in 0 .. LINE - 1
  BY <1>1, SweepSizes DEF StrideInv, ReadsInv
<1>3. CASE SetupFails
  <2>1. /\ sweep' = "exited"
        /\ UNCHANGED <<stride, s_sum, reads, misses, calls>>
    BY <1>3 DEF SetupFails, workVars, readVars
  <2>2. (\A p \in 1 .. Len(calls) : CallOk(calls, p))' BY <2>1 DEF ReadsInv, CallOk
  <2> QED BY <1>1, <2>1, <2>2 DEF ReadsInv, Element, Ident
<1>4. CASE StrideTurn
  <2>1. /\ s_i < ARRAY_BYTES /\ Read(s_i, s_i % 256) /\ s_i' = s_i + stride
        /\ UNCHANGED <<sweep, stride, calls>>
    BY <1>4 DEF StrideTurn, workVars
  <2>2. s_i + stride <= ARRAY_BYTES
    <3>1. ARRAY_BYTES % stride = 0 BY <1>1 DEF StrideInv
    <3> QED BY <1>2, <2>1, <3>1, MultipleBelow
  <2> PICK step : step = stride OBVIOUS
  <2> PICK offset : offset = s_i OBVIOUS
  <2>3. /\ reads' = reads + 1 /\ misses' \in Nat
        /\ stride <= LINE => Walking(offset + step, step)'
        /\ stride > LINE => Jumping(offset)'
    <3>1. CASE stride <= LINE
      <4>1. step \in 1 .. LINE /\ Walking(offset, step) BY <1>1, <1>2, <3>1 DEF StrideInv
      <4> QED BY <1>1, <1>2, <2>1, <3>1, <4>1, WalkOn
    <3>2. CASE stride > LINE
      <4>1. Jumping(offset - step) BY <1>1, <3>2 DEF StrideInv
      <4>2. offset \in Nat /\ offset >= (offset - step) + LINE BY <1>2, <3>2
      <4>3. Read(offset, s_i % 256) BY <2>1
      <4> QED BY <1>1, <1>2, <3>2, <4>1, <4>2, <4>3, JumpOn
    <3> QED BY <1>2, <3>1, <3>2
  <2>4. s_i' = stride' * reads'
    <3>1. stride * (reads + 1) = stride * reads + stride BY <1>2
    <3> QED BY <1>2, <2>1, <2>3, <3>1
  <2>5. StrideInv'
    <3>1. Walking(s_i, stride)' <=> Walking(offset + step, step)'
      BY <2>1 DEF Walking, LineAt
    <3>2. Jumping(s_i - stride)' <=> Jumping(offset)'
      <4>1. s_i' - stride' = offset BY <1>2, <2>1
      <4> QED BY <4>1 DEF Jumping, LineAt
    <3> QED BY <1>1, <1>2, <2>1, <2>2, <2>3, <2>4, <3>1, <3>2 DEF StrideInv
  <2>6. s_sum' \in Int
    <3>1. s_i % 256 \in Int BY <1>2
    <3> QED BY <2>1, <3>1 DEF Read, ReadsInv
  <2>7. (\A p \in 1 .. Len(calls) : CallOk(calls, p))' BY <2>1 DEF ReadsInv, CallOk
  <2>8. stride' \in Nat /\ reads' \in Nat BY <1>2, <2>1, <2>3
  <2> QED BY <1>1, <2>1, <2>3, <2>5, <2>6, <2>7, <2>8 DEF ReadsInv, Element, Ident
<1>5. CASE StrideReturns
  <2>1. /\ s_i >= ARRAY_BYTES /\ stride' = stride * 2
        /\ Return(IF stride' <= MAX_STRIDE THEN "stride_access" ELSE "done")
    BY <1>5 DEF StrideReturns
  <2>2. s_i = ARRAY_BYTES /\ ARRAY_BYTES % stride = 0 /\ stride <= MAX_STRIDE
    BY <1>1, <1>2, <2>1 DEF StrideInv
  <2>3. reads = ARRAY_BYTES \div stride /\ reads # 0
    <3>1. stride * 0 = 0 BY <1>2
    <3> DEFINE q == ARRAY_BYTES \div stride
    <3>2. q \in Int /\ ARRAY_BYTES = stride * q BY <1>2, <2>2, Division
    <3> HIDE DEF q
    <3>3. q >= reads + 1 => stride * q >= stride * (reads + 1) BY <1>2, <3>2
    <3>4. reads >= q + 1 => stride * reads >= stride * (q + 1) BY <1>2, <3>2
    <3>5. stride * (reads + 1) = stride * reads + stride /\ stride * (q + 1) = stride * q + stride
      BY <1>2, <3>2
    <3>6. reads = q BY <1>2, <2>2, <3>2, <3>3, <3>4, <3>5
    <3> QED BY <1>2, <2>2, <3>1, <3>6 DEF q
  <2>4. misses \in LinesOf(ARRAY_BYTES, IF stride > LINE THEN stride ELSE LINE)
    <3>1. CASE stride <= LINE
      <4>1. stride \in 1 .. LINE /\ Walking(s_i, stride) BY <1>1, <1>2, <3>1 DEF StrideInv
      <4>2. ARRAY_BYTES % LINE = 0 BY SweepAssumption
      <4>3. misses \in LinesOf(ARRAY_BYTES, LINE) BY <1>2, <2>2, <2>3, <4>1, <4>2, WalkEnds
      <4> QED BY <1>2, <3>1, <4>3
    <3>2. CASE stride > LINE
      <4>1. misses = reads BY <1>1, <3>2 DEF StrideInv, Jumping
      <4> QED BY <2>3, <3>2, <4>1 DEF LinesOf
    <3> QED BY <1>2, <3>1, <3>2
  <2>5. PICK after : after = (IF stride' <= MAX_STRIDE THEN "stride_access" ELSE "done")
    OBVIOUS
  <2>6. Return(after) BY <2>1, <2>5
  <2>7. CallOk(calls', Len(calls) + 1) BY <1>1, <2>3, <2>4, <2>6, LastCall DEF CallOk
  <2>8. calls' \in Seq(Call) /\ \A p \in 1 .. Len(calls') : CallOk(calls', p)
    BY <1>1, <2>6, <2>7, CallReturns DEF Works
  <2>9. (\A p \in 1 .. Len(calls) : CallOk(calls, p))' BY <2>8 DEF CallOk
  <2>10. /\ s_i' = 0 /\ s_sum' = 0 /\ line' = -1 /\ reads' = 0 /\ misses' = 0
         /\ sweep' = after
    BY <2>6 DEF Return
  <2>11. stride' \in Nat \ {0} BY <1>2, <2>1
  <2>12. (sweep = "stride_access" => StrideInv)'
    <3> SUFFICES ASSUME after = "stride_access" PROVE StrideInv' BY <2>10
    <3>1. stride' <= MAX_STRIDE /\ 2 * stride <= MAX_STRIDE BY <1>2, <2>1, <2>5
    <3>2. stride \in 1 .. MAX_STRIDE BY <1>1 DEF StrideInv
    <3>3. ARRAY_BYTES % (2 * stride) = 0 BY <2>2, <3>1, <3>2, SweepAssumption
    <3>4. stride' = 2 * stride BY <1>2, <2>1
    <3>5. stride' \in 1 .. MAX_STRIDE /\ ARRAY_BYTES % stride' = 0
      BY <1>2, <2>11, <3>1, <3>3, <3>4
    <3>6. PICK new : new = stride' OBVIOUS
    <3>7. s_i' \in 0 .. ARRAY_BYTES /\ s_i' = stride' * reads'
      <4>1. s_i' = 0 /\ reads' = 0 /\ new \in Nat BY <2>10, <2>11, <3>6
      <4>2. new * 0 = 0 BY <4>1
      <4>3. stride' * reads' = new * 0 BY <3>6, <4>1
      <4> QED BY <1>2, <4>1, <4>2, <4>3
    <3>8. Walking(s_i, stride)'
      <4>1. s_i' = 0 /\ line' = -1 /\ misses' = 0 /\ reads' = 0 BY <2>10
      <4> QED BY <4>1 DEF Walking
    <3>9. Jumping(s_i - stride)'
      <4>1. line' = -1 /\ misses' = 0 /\ reads' = 0 BY <2>10
      <4> QED BY <4>1 DEF Jumping
    <3> QED BY <3>5, <3>7, <3>8, <3>9 DEF StrideInv
  <2> QED BY <1>1, <2>5, <2>8, <2>9, <2>10, <2>11, <2>12 DEF ReadsInv, Works, Element, Ident
<1> QED BY <1>3, <1>4, <1>5

LEMMA RowStep ==
  ASSUME ReadsInv, sweep = "row_major_sum", MatrixTurn \/ MatrixInnerEnds \/ MatrixReturns
  PROVE  ReadsInv'
<1>1. RowInv /\ UNCHANGED <<array_base, stride, rand_idx>>
  BY DEF ReadsInv, MatrixTurn, MatrixInnerEnds, MatrixReturns, workVars
<1>2. /\ ROWS \in Nat \ {0} /\ COLS \in Nat \ {0} /\ INT_BYTES \in 1 .. LINE
      /\ LINE \in Nat \ {0} /\ ROWS > 2
      /\ array_base \in 0 .. LINE - 1 /\ reads \in Nat /\ s_sum \in Int /\ stride \in Nat
      /\ s_i \in 0 .. ROWS /\ s_j \in 0 .. COLS /\ reads = s_i * COLS + s_j
  BY <1>1, SweepSizes DEF RowInv, ReadsInv
<1>3. CASE MatrixTurn
  <2> PICK offset : offset = reads * INT_BYTES OBVIOUS
  <2> PICK loaded : loaded = reads OBVIOUS
  <2>1. /\ s_i < ROWS /\ s_j < COLS /\ Read(offset, loaded) /\ s_j' = s_j + 1
        /\ UNCHANGED <<sweep, s_i, calls>>
    BY <1>2, <1>3 DEF MatrixTurn, Outer, Inner, workVars
  <2>2. Walking(offset, INT_BYTES) BY <1>1 DEF RowInv
  <2>3. reads' = reads + 1 /\ misses' \in Nat /\ Walking(offset + INT_BYTES, INT_BYTES)'
    BY <1>1, <1>2, <2>1, <2>2, WalkOn
  <2>4. reads' * INT_BYTES = offset + INT_BYTES
    <3>1. (reads + 1) * INT_BYTES = reads * INT_BYTES + INT_BYTES BY <1>2
    <3> QED BY <2>3, <3>1
  <2>5. s_sum' = s_sum + loaded /\ s_sum' \in Int BY <1>2, <2>1 DEF Read
  <2>6. 2 * s_sum' = reads' * (reads' - 1)
    <3>1. 2 * s_sum = reads * (reads - 1) BY <1>1 DEF RowInv
    <3>2. (reads + 1) * reads = reads * (reads - 1) + 2 * reads BY <1>2
    <3>3. reads' - 1 = reads BY <1>2, <2>3
    <3>4. reads * (reads - 1) \in Int BY <1>2
    <3>5. 2 * s_sum' = (reads + 1) * reads BY <1>2, <2>5, <3>1, <3>2, <3>4
    <3> QED BY <2>3, <3>3, <3>5
  <2>7. reads' = s_i' * COLS + s_j' /\ s_i' \in 0 .. ROWS /\ s_j' \in 0 .. COLS
        /\ (s_i' = ROWS => s_j' = 0)
    <3>1. s_i * COLS \in Int BY <1>2
    <3> QED BY <1>2, <2>1, <2>3, <3>1
  <2>8. Walking(reads * INT_BYTES, INT_BYTES)'
    BY <2>3, <2>4 DEF Walking, LineAt
  <2>9. RowInv' BY <1>1, <2>1, <2>6, <2>7, <2>8 DEF RowInv
  <2>10. (\A p \in 1 .. Len(calls) : CallOk(calls, p))' BY <2>1 DEF ReadsInv, CallOk
  <2>11. reads' \in Nat BY <1>2, <2>3
  <2> QED BY <1>1, <2>1, <2>3, <2>5, <2>9, <2>10, <2>11 DEF ReadsInv, Element, Ident
<1>4. CASE MatrixInnerEnds
  <2>1. /\ s_i < ROWS /\ s_j = COLS /\ s_i' = s_i + 1 /\ s_j' = 0
        /\ UNCHANGED <<sweep, s_sum, line, reads, misses, calls>>
    BY <1>4 DEF MatrixInnerEnds, Outer, Inner, workVars, readVars
  <2>2. reads' = s_i' * COLS + s_j'
    <3>1. (s_i + 1) * COLS = s_i * COLS + COLS /\ s_i * COLS \in Int BY <1>2
    <3> QED BY <1>2, <2>1, <3>1
  <2>3. Walking(reads * INT_BYTES, INT_BYTES)' BY <1>1, <2>1 DEF RowInv, Walking, LineAt
  <2>4. RowInv' BY <1>1, <1>2, <2>1, <2>2, <2>3 DEF RowInv
  <2>5. (\A p \in 1 .. Len(calls) : CallOk(calls, p))' BY <2>1 DEF ReadsInv, CallOk
  <2> QED BY <1>1, <2>1, <2>4, <2>5 DEF ReadsInv, Element, Ident
<1>5. CASE MatrixReturns
  <2>1. s_i = ROWS /\ Return("col_major_sum") BY <1>5 DEF MatrixReturns, Outer
  <2>2. reads = ROWS * COLS /\ reads # 0
    <3>1. s_j = 0 BY <1>1, <2>1 DEF RowInv
    <3>2. ROWS * COLS \in Int /\ ROWS * COLS >= COLS
      <4>1. COLS * ROWS >= COLS * 1 BY <1>2
      <4> QED BY <1>2, <4>1
    <3> QED BY <1>2, <2>1, <3>1, <3>2
  <2>3. misses \in LinesOf(ROWS * COLS * INT_BYTES, LINE)
    <3>1. (ROWS * COLS * INT_BYTES) % LINE = 0 BY SweepAssumption
    <3>2. Walking(reads * INT_BYTES, INT_BYTES) BY <1>1 DEF RowInv
    <3> PICK bytes : bytes = ROWS * COLS * INT_BYTES OBVIOUS
    <3>3. bytes \in Nat
      <4>1. ROWS * COLS \in Nat BY <1>2
      <4> QED BY <1>2, <4>1
    <3>4. Walking(bytes, INT_BYTES) BY <2>2, <3>2
    <3> QED BY <1>2, <2>2, <3>1, <3>3, <3>4, WalkEnds
  <2>4. calls = <<>> /\ Len(calls) = 0 BY <1>1 DEF RowInv
  <2>5. CallOk(calls', Len(calls) + 1) BY <2>1, <2>3, LastCall DEF CallOk
  <2>6. calls' \in Seq(Call) /\ \A p \in 1 .. Len(calls') : CallOk(calls', p)
    BY <2>1, <2>5, CallReturns DEF Works
  <2>7. (\A p \in 1 .. Len(calls) : CallOk(calls, p))' BY <2>6 DEF CallOk
  <2>8. /\ s_i' = 0 /\ s_j' = 0 /\ s_sum' = 0 /\ line' = -1 /\ reads' = 0 /\ misses' = 0
        /\ sweep' = "col_major_sum"
    BY <2>1 DEF Return
  <2>9. ColumnInv'
    <3>1. /\ Len(calls') = 1 /\ calls'[1].sum = s_sum /\ calls'[1].reads = reads
      BY <2>1, <2>4, LastCall
    <3>2. 2 * s_sum = ROWS * COLS * (ROWS * COLS - 1) BY <1>1, <2>2 DEF RowInv
    <3>3. ColumnSum(0, 0) = 0
      <4>1. /\ 0 * (COLS * ROWS * (ROWS - 1)) = 0 /\ ROWS * (0 * (0 - 1)) = 0
            /\ COLS * (0 * (0 - 1)) = 0 /\ 2 * (0 * 0) = 0
        <5>1. COLS * ROWS * (ROWS - 1) \in Int BY <1>2
        <5> QED BY <1>2, <5>1
      <4> QED BY <4>1 DEF ColumnSum
    <3>4. 0 * ROWS + 0 = 0 BY <1>2
    <3>5. Jumping(LastRead * INT_BYTES)' BY <2>8 DEF Jumping
    <3> QED BY <1>2, <2>2, <2>8, <3>1, <3>2, <3>3, <3>4, <3>5 DEF ColumnInv, ColumnSum
  <2> QED BY <1>1, <1>2, <2>6, <2>7, <2>8, <2>9 DEF ReadsInv, Works, Element, Ident
<1> QED BY <1>3, <1>4, <1>5

LEMMA ColumnSums ==
  ASSUME NEW c \in Nat, NEW r \in Nat
  PROVE  /\ ColumnSum(c, r) \in Int
         /\ ColumnSum(c, r + 1) = ColumnSum(c, r) + 2 * (r * COLS + c)
         /\ ColumnSum(c, ROWS) = ColumnSum(c + 1, 0)
         /\ ColumnSum(COLS, 0) = ROWS * COLS * (ROWS * COLS - 1)
<1>1. ROWS \in Nat \ {0} /\ COLS \in Nat \ {0} BY SweepSizes
<1>2. ColumnSum(c, r) \in Int
  <2>1. /\ c * (COLS * ROWS * (ROWS - 1)) \in Int /\ ROWS * (c * (c - 1)) \in Int
        /\ COLS * (r * (r - 1)) \in Int /\ 2 * (c * r) \in Int
    BY <1>1
  <2> QED BY <2>1 DEF ColumnSum
<1>3. ColumnSum(c, r + 1) = ColumnSum(c, r) + 2 * (r * COLS + c)
  <2>1. COLS * ((r + 1) * ((r + 1) - 1)) = COLS * (r * (r - 1)) + 2 * (r * COLS) BY <1>1
  <2>2. 2 * (c * (r + 1)) = 2 * (c * r) + 2 * c OBVIOUS
  <2>3. 2 * (r * COLS + c) = 2 * (r * COLS) + 2 * c BY <1>1
  <2>4. /\ c * (COLS * ROWS * (ROWS - 1)) \in Int /\ ROWS * (c * (c - 1)) \in Int
        /\ COLS * (r * (r - 1)) \in Int /\ 2 * (c * r) \in Int /\ 2 * (r * COLS) \in Int
    BY <1>1
  <2> QED BY <2>1, <2>2, <2>3, <2>4 DEF ColumnSum
<1>4. ColumnSum(c, ROWS) = ColumnSum(c + 1, 0)
  <2> DEFINE square == COLS * ROWS * (ROWS - 1)
  <2>1. square \in Int /\ COLS * (ROWS * (ROWS - 1)) = square BY <1>1
  <2> HIDE DEF square
  <2>2. (c + 1) * square = c * square + square /\ c * square \in Int BY <2>1
  <2>3. ROWS * ((c + 1) * ((c + 1) - 1)) = ROWS * (c * (c - 1)) + 2 * (c * ROWS) BY <1>1
  <2>4. COLS * (0 * (0 - 1)) = 0 /\ 2 * ((c + 1) * 0) = 0 BY <1>1
  <2>5. ROWS * (c * (c - 1)) \in Int /\ 2 * (c * ROWS) \in Int BY <1>1
  <2>6. ColumnSum(c, ROWS) = c * square + ROWS * (c * (c - 1)) + square + 2 * (c * ROWS)
    BY <2>1 DEF ColumnSum, square
  <2>7. ColumnSum(c + 1, 0) = (c + 1) * square + ROWS * ((c + 1) * ((c + 1) - 1)) + 0 + 0
    BY <2>4 DEF ColumnSum, square
  <2> QED BY <2>1, <2>2, <2>3, <2>5, <2>6, <2>7
<1>5. ColumnSum(COLS, 0) = ROWS * COLS * (ROWS * COLS - 1)
  <2>1. COLS * (0 * (0 - 1)) = 0 /\ 2 * (COLS * 0) = 0 BY <1>1
  <2>2. COLS * (COLS * ROWS * (ROWS - 1)) + ROWS * (COLS * (COLS - 1))
          = ROWS * COLS * (ROWS * COLS - 1)
    BY <1>1
  <2>3. COLS * (COLS * ROWS * (ROWS - 1)) \in Int /\ ROWS * (COLS * (COLS - 1)) \in Int BY <1>1
  <2> QED BY <2>1, <2>2, <2>3 DEF ColumnSum
<1> QED BY <1>2, <1>3, <1>4, <1>5

(* The element read next is a line or more from the last one. *)
LEMMA ColumnJumps ==
  ASSUME s_i \in 0 .. COLS - 1, s_j \in 0 .. ROWS - 1, s_i # 0 \/ s_j # 0
  PROVE  LET e == s_j * COLS + s_i
         IN \/ e * INT_BYTES >= LastRead * INT_BYTES + LINE
            \/ LastRead * INT_BYTES >= e * INT_BYTES + LINE
<1> DEFINE e == s_j * COLS + s_i
<1>1. /\ ROWS \in Nat \ {0} /\ ROWS > 2 /\ COLS \in Nat \ {0} /\ INT_BYTES \in Nat \ {0}
      /\ LINE \in Nat \ {0} /\ COLS * INT_BYTES >= LINE /\ s_i \in Nat /\ s_j \in Nat
  BY SweepSizes
<1>2. CASE s_j = 0
  <2>1. e = s_i /\ LastRead = (ROWS - 1) * COLS + (s_i - 1) BY <1>1, <1>2 DEF LastRead
  <2>2. LastRead \in Int /\ LastRead >= e + COLS
    <3>1. COLS * (ROWS - 1) >= COLS * 2 /\ COLS * (ROWS - 1) \in Int BY <1>1
    <3>2. (ROWS - 1) * COLS = COLS * (ROWS - 1) BY <1>1
    <3> QED BY <1>1, <2>1, <3>1, <3>2
  <2> HIDE DEF e
  <2>3. e \in Int /\ INT_BYTES * LastRead >= INT_BYTES * (e + COLS) BY <1>1, <2>1, <2>2
  <2>4. INT_BYTES * (e + COLS) = e * INT_BYTES + COLS * INT_BYTES
        /\ INT_BYTES * LastRead = LastRead * INT_BYTES
    BY <1>1, <2>2, <2>3
  <2>5. LastRead * INT_BYTES \in Int /\ e * INT_BYTES \in Int /\ COLS * INT_BYTES \in Int
    BY <1>1, <2>2, <2>3
  <2>6. LastRead * INT_BYTES >= e * INT_BYTES + LINE BY <1>1, <2>3, <2>4, <2>5
  <2> QED BY <2>6 DEF e
<1>3. CASE s_j # 0
  <2>1. LastRead = (s_j - 1) * COLS + s_i BY <1>3 DEF LastRead
  <2>2. LastRead \in Int /\ e = LastRead + COLS
    <3>1. (s_j - 1) * COLS \in Int /\ s_j * COLS = (s_j - 1) * COLS + COLS BY <1>1
    <3> QED BY <1>1, <2>1, <3>1
  <2> HIDE DEF e
  <2>3. (LastRead + COLS) * INT_BYTES = LastRead * INT_BYTES + COLS * INT_BYTES
        /\ LastRead * INT_BYTES \in Int /\ COLS * INT_BYTES \in Int
    BY <1>1, <2>2
  <2>4. e * INT_BYTES >= LastRead * INT_BYTES + LINE BY <1>1, <2>2, <2>3
  <2> QED BY <2>4 DEF e
<1> QED BY <1>2, <1>3

LEMMA ColumnStep ==
  ASSUME ReadsInv, sweep = "col_major_sum", MatrixTurn \/ MatrixInnerEnds \/ MatrixReturns
  PROVE  ReadsInv'
<1>1. ColumnInv /\ UNCHANGED <<array_base, stride, rand_idx>>
  BY DEF ReadsInv, MatrixTurn, MatrixInnerEnds, MatrixReturns, workVars
<1>2. /\ ROWS \in Nat \ {0} /\ COLS \in Nat \ {0} /\ INT_BYTES \in Nat \ {0}
      /\ LINE \in Nat \ {0} /\ ROWS > 2
      /\ array_base \in 0 .. LINE - 1 /\ reads \in Nat /\ s_sum \in Int /\ stride \in Nat
      /\ s_i \in 0 .. COLS /\ s_j \in 0 .. ROWS /\ reads = s_i * ROWS + s_j
  BY <1>1, SweepSizes DEF ColumnInv, ReadsInv
<1>3. CASE MatrixTurn
  <2> PICK loaded : loaded = s_j * COLS + s_i OBVIOUS
  <2> PICK offset : offset = loaded * INT_BYTES OBVIOUS
  <2>1. /\ s_i < COLS /\ s_j < ROWS /\ Read(offset, loaded) /\ s_j' = s_j + 1
        /\ UNCHANGED <<sweep, s_i, calls>>
    BY <1>2, <1>3 DEF MatrixTurn, Outer, Inner, workVars
  <2>2. loaded \in Nat /\ offset \in Nat
    <3>1. s_j * COLS \in Nat BY <1>2
    <3>2. loaded \in Nat BY <1>2, <3>1
    <3> QED BY <1>2, <3>2
  <2> PICK last : last = LastRead * INT_BYTES OBVIOUS
  <2>3. reads # 0 => offset >= last + LINE \/ last >= offset + LINE
    <3>1. reads # 0 => s_i # 0 \/ s_j # 0
      <4>1. 0 * ROWS = 0 BY <1>2
      <4> QED BY <1>2, <4>1
    <3> QED BY <1>2, <2>1, <3>1, ColumnJumps
  <2>4. reads' = reads + 1 /\ misses' \in Nat /\ Jumping(offset)'
    <3>1. Jumping(last) BY <1>1 DEF ColumnInv
    <3> QED BY <1>1, <1>2, <2>1, <2>2, <2>3, <3>1, JumpOn
  <2>5. s_sum' = s_sum + loaded /\ s_sum' \in Int BY <1>2, <2>1, <2>2 DEF Read
  <2>6. 2 * s_sum' = ColumnSum(s_i', s_j')
    <3>1. 2 * s_sum = ColumnSum(s_i, s_j) BY <1>1 DEF ColumnInv
    <3>2. ColumnSum(s_i, s_j + 1) = ColumnSum(s_i, s_j) + 2 * (s_j * COLS + s_i)
          /\ ColumnSum(s_i, s_j) \in Int
      <4>1. s_i \in Nat /\ s_j \in Nat BY <1>2
      <4> QED BY <4>1, ColumnSums
    <3>3. ColumnSum(s_i', s_j') = ColumnSum(s_i, s_j) + 2 * loaded BY <2>1, <3>2
    <3> QED BY <1>2, <2>2, <2>5, <3>1, <3>2, <3>3
  <2>7. reads' = s_i' * ROWS + s_j' /\ s_i' \in 0 .. COLS /\ s_j' \in 0 .. ROWS
        /\ (s_i' = COLS => s_j' = 0)
    <3>1. s_i * ROWS \in Int BY <1>2
    <3> QED BY <1>2, <2>1, <2>4, <3>1
  <2>8. Jumping(LastRead * INT_BYTES)'
    <3>1. s_j' # 0 /\ s_j' - 1 = s_j BY <1>2, <2>1
    <3>2. LastRead' = loaded BY <2>1, <3>1 DEF LastRead
    <3> QED BY <2>4, <3>2 DEF Jumping, LineAt
  <2>9. ColumnInv' BY <1>1, <2>1, <2>6, <2>7, <2>8 DEF ColumnInv, ColumnSum
  <2>10. (\A p \in 1 .. Len(calls) : CallOk(calls, p))' BY <2>1 DEF ReadsInv, CallOk
  <2>11. reads' \in Nat BY <1>2, <2>4
  <2> QED BY <1>1, <2>1, <2>4, <2>5, <2>9, <2>10, <2>11 DEF ReadsInv, Element, Ident
<1>4. CASE MatrixInnerEnds
  <2>1. /\ s_i < COLS /\ s_j = ROWS /\ s_i' = s_i + 1 /\ s_j' = 0
        /\ UNCHANGED <<sweep, s_sum, line, reads, misses, calls>>
    BY <1>4 DEF MatrixInnerEnds, Outer, Inner, workVars, readVars
  <2>2. reads' = s_i' * ROWS + s_j'
    <3>1. (s_i + 1) * ROWS = s_i * ROWS + ROWS /\ s_i * ROWS \in Int BY <1>2
    <3> QED BY <1>2, <2>1, <3>1
  <2>3. Jumping(LastRead * INT_BYTES)'
    <3>1. LastRead = (ROWS - 1) * COLS + s_i BY <1>2, <2>1 DEF LastRead
    <3>2. s_i' - 1 = s_i BY <1>2, <2>1
    <3>3. LastRead' = LastRead BY <2>1, <3>1, <3>2 DEF LastRead
    <3> QED BY <1>1, <2>1, <3>3 DEF ColumnInv, Jumping, LineAt
  <2>4. 2 * s_sum' = ColumnSum(s_i', s_j')
    <3>1. 2 * s_sum = ColumnSum(s_i, ROWS) BY <1>1, <2>1 DEF ColumnInv
    <3>2. ColumnSum(s_i, ROWS) = ColumnSum(s_i + 1, 0) BY <1>2, ColumnSums
    <3> QED BY <2>1, <3>1, <3>2
  <2>5. s_i' \in 0 .. COLS /\ s_j' \in 0 .. ROWS BY <1>2, <2>1
  <2>6. ColumnInv' BY <1>1, <2>1, <2>2, <2>3, <2>4, <2>5 DEF ColumnInv, ColumnSum
  <2>7. (\A p \in 1 .. Len(calls) : CallOk(calls, p))' BY <2>1 DEF ReadsInv, CallOk
  <2> QED BY <1>1, <2>1, <2>6, <2>7 DEF ReadsInv, Element, Ident
<1>5. CASE MatrixReturns
  <2>1. s_i = COLS /\ s_j = 0 /\ Return("done")
    BY <1>1, <1>5 DEF MatrixReturns, Outer, ColumnInv
  <2>2. reads = ROWS * COLS /\ misses = ROWS * COLS
    <3>1. COLS * ROWS = ROWS * COLS /\ COLS * ROWS \in Int BY <1>2
    <3>2. misses = reads BY <1>1 DEF ColumnInv, Jumping
    <3> QED BY <1>2, <2>1, <3>1, <3>2
  <2>3. s_sum = calls[1].sum
    <3>1. Len(calls) = 1 /\ calls \in Seq(Call) BY <1>1 DEF ReadsInv, ColumnInv
    <3>2. calls[1] \in Call BY <3>1
    <3>3. calls[1].sum \in Int BY <3>2 DEF Call
    <3>4. 2 * s_sum = ColumnSum(COLS, 0) /\ 2 * calls[1].sum = ROWS * COLS * (ROWS * COLS - 1)
      BY <1>1, <2>1 DEF ColumnInv
    <3>5. ColumnSum(COLS, 0) = ROWS * COLS * (ROWS * COLS - 1) BY <1>2, ColumnSums
    <3>6. 2 * s_sum = 2 * calls[1].sum BY <3>4, <3>5
    <3> QED BY <1>2, <3>3, <3>6
  <2>4. Len(calls) = 1 /\ calls[1].reads = ROWS * COLS BY <1>1 DEF ColumnInv
  <2>5. CallOk(calls', Len(calls) + 1) BY <2>1, <2>2, <2>3, <2>4, LastCall DEF CallOk
  <2>6. calls' \in Seq(Call) /\ \A p \in 1 .. Len(calls') : CallOk(calls', p)
    BY <2>1, <2>5, CallReturns DEF Works
  <2>7. (\A p \in 1 .. Len(calls) : CallOk(calls, p))' BY <2>6 DEF CallOk
  <2>8. s_sum' = 0 /\ reads' = 0 /\ misses' = 0 /\ sweep' = "done" BY <2>1 DEF Return
  <2> QED BY <1>1, <1>2, <2>6, <2>7, <2>8 DEF ReadsInv, Works, Element, Ident
<1> QED BY <1>3, <1>4, <1>5

LEMMA ReadsStep == ReadsInv /\ [SweepNext]_sweepVars => ReadsInv'
<1> SUFFICES ASSUME ReadsInv, [SweepNext]_sweepVars PROVE ReadsInv' OBVIOUS
<1>1. ASSUME ShuffleTurn \/ SetupDone PROVE ReadsInv' BY <1>1, ShuffleStep
<1>2. ASSUME SumTurn \/ SumReturns PROVE ReadsInv' BY <1>2, SumStep
<1>3. ASSUME SetupFails \/ StrideTurn \/ StrideReturns PROVE ReadsInv' BY <1>3, StrideStep
<1>4. ASSUME MatrixTurn \/ MatrixInnerEnds \/ MatrixReturns PROVE ReadsInv'
  <2>1. sweep \in {"row_major_sum", "col_major_sum"}
    BY <1>4 DEF MatrixTurn, MatrixInnerEnds, MatrixReturns, Matrix
  <2> QED BY <1>4, <2>1, RowStep, ColumnStep
<1>5. ASSUME AosTurn \/ SoaTurn \/ SoaLoopEnds PROVE ReadsInv'
  <2>1. /\ sweep \in {"update_aos", "update_soa"}
        /\ UNCHANGED <<sweep, rand_idx, stride, array_base, s_sum, reads, misses, calls>>
    BY <1>5 DEF AosTurn, SoaTurn, SoaLoopEnds, workVars, readVars
  <2>2. (\A p \in 1 .. Len(calls) : CallOk(calls, p))' BY <2>1 DEF ReadsInv, CallOk
  <2> QED BY <2>1, <2>2 DEF ReadsInv, Element, Ident
<1>6. ASSUME AosReturns \/ SoaReturns PROVE ReadsInv'
  <2>1. PICK after \in {"update_soa", "done"} :
          /\ Return(after) /\ sweep \in {"update_aos", "update_soa"}
          /\ UNCHANGED <<rand_idx, stride, array_base>>
    BY <1>6 DEF AosReturns, SoaReturns, workVars
  <2>2. CallOk(calls', Len(calls) + 1) BY <2>1, LastCall DEF CallOk
  <2>3. calls' \in Seq(Call) /\ \A p \in 1 .. Len(calls') : CallOk(calls', p)
    BY <2>1, <2>2, CallReturns DEF Works
  <2>4. (\A p \in 1 .. Len(calls) : CallOk(calls, p))' BY <2>3 DEF CallOk
  <2>5. s_sum' = 0 /\ reads' = 0 /\ misses' = 0 /\ sweep' = after BY <2>1 DEF Return
  <2> QED BY <2>1, <2>3, <2>4, <2>5 DEF ReadsInv, Works, Element, Ident
<1>7. ASSUME UNCHANGED sweepVars PROVE ReadsInv'
  <2>1. UNCHANGED <<sweep, s_i, s_j, rand_idx, stride, array_base, s_sum, line, reads, misses,
                    calls>>
    BY <1>7 DEF sweepVars, workVars, readVars
  <2>2. (\A p \in 1 .. Len(calls) : CallOk(calls, p))' BY <2>1 DEF ReadsInv, CallOk
  <2>3. /\ ShuffleInv => ShuffleInv'
        /\ SequentialInv => SequentialInv'
        /\ RandomInv => RandomInv'
        /\ RowInv => RowInv'
        /\ StrideInv => StrideInv'
        /\ ColumnInv => ColumnInv'
    <3>1. ShuffleInv => ShuffleInv' BY <2>1 DEF ShuffleInv, Element
    <3>2. SequentialInv => SequentialInv'
      BY <2>1 DEF SequentialInv, ListInv, Upto, Ident, Element
    <3>3. RandomInv => RandomInv' BY <2>1 DEF RandomInv, ListInv, Upto, Ident, Element
    <3>4. RowInv => RowInv' BY <2>1 DEF RowInv, Walking, LineAt
    <3>5. StrideInv => StrideInv' BY <2>1 DEF StrideInv, Walking, Jumping, LineAt
    <3>6. ColumnInv => ColumnInv'
      <4>1. UNCHANGED LastRead BY <2>1 DEF LastRead
      <4> QED BY <2>1, <4>1 DEF ColumnInv, ColumnSum, Jumping, LineAt
    <3> QED BY <3>1, <3>2, <3>3, <3>4, <3>5, <3>6
  <2>4. /\ (sweep = "setup" => ShuffleInv)' /\ (sweep = "sequential_sum" => SequentialInv)'
        /\ (sweep = "random_sum" => RandomInv)' /\ (sweep = "stride_access" => StrideInv)'
        /\ (sweep = "row_major_sum" => RowInv)' /\ (sweep = "col_major_sum" => ColumnInv)'
    BY <2>1, <2>3 DEF ReadsInv
  <2>5. /\ array_base' \in 0 .. LINE - 1 /\ sweep' \in Works \cup {"done", "exited"}
        /\ stride' \in Nat /\ s_sum' \in Int /\ reads' \in Nat /\ misses' \in Nat
        /\ rand_idx' \in [Element -> Element] /\ Total(rand_idx)' = Total(Ident)
        /\ calls' \in Seq(Call)
    BY <2>1 DEF ReadsInv
  <2> QED BY <2>2, <2>4, <2>5 DEF ReadsInv, Element, Ident
<1> QED BY <1>1, <1>2, <1>3, <1>4, <1>5, <1>6, <1>7 DEF SweepNext

(***************************************************************************)
(* How often each coordinate has been advanced, in both layouts.           *)
(***************************************************************************)
AxisNo == [axis \in Axis |-> IF axis = "x" THEN 0 ELSE IF axis = "y" THEN 1 ELSE 2]

AosInv ==
  /\ s_i \in 0 .. ELEMENTS /\ s_j = 0
  /\ \A e \in Element, axis \in Axis :
       soa[axis][e] = 0 /\ aos[e][axis] = IF e < s_i THEN 1 ELSE 0

SoaInv ==
  /\ s_i \in 0 .. ELEMENTS /\ s_j \in 0 .. 3
  /\ \A e \in Element, axis \in Axis :
       /\ aos[e][axis] = 1
       /\ soa[axis][e] =
            IF AxisNo[axis] < s_j \/ (AxisNo[axis] = s_j /\ e < s_i) THEN 1 ELSE 0

ParticleInv ==
  /\ aos \in [Element -> [Axis -> Int]] /\ soa \in [Axis -> [Element -> Int]]
  /\ sweep = "update_aos" => AosInv
  /\ sweep = "update_soa" => SoaInv
  /\ sweep \notin {"update_aos", "update_soa"} =>
       \A e \in Element, axis \in Axis : aos[e][axis] = soa[axis][e]

LEMMA ElementRange == \A e \in Element : e \in Int /\ 0 <= e /\ e < ELEMENTS
BY SweepSizes DEF Element

LEMMA ParticleStart == SweepInit => ParticleInv
<1> SUFFICES ASSUME SweepInit PROVE ParticleInv OBVIOUS
<1>1. /\ aos = [e \in Element |-> [axis \in Axis |-> 0]]
      /\ soa = [axis \in Axis |-> [e \in Element |-> 0]]
      /\ sweep \in {"setup", "stride_access", "row_major_sum", "update_aos"}
      /\ sweep # "setup" => s_i = 0 /\ s_j = 0
  BY DEF SweepInit
<1>2. \A e \in Element, axis \in Axis : aos[e][axis] = 0 /\ soa[axis][e] = 0 BY <1>1
<1>3. aos \in [Element -> [Axis -> Int]] /\ soa \in [Axis -> [Element -> Int]] BY <1>1
<1>4. sweep = "update_aos" => AosInv
  BY <1>1, <1>2, SweepSizes, ElementRange DEF AosInv
<1> QED BY <1>1, <1>2, <1>3, <1>4 DEF ParticleInv

LEMMA AosStep == ASSUME ParticleInv, AosTurn \/ AosReturns PROVE ParticleInv'
<1>1. sweep = "update_aos" /\ AosInv /\ ELEMENTS \in Nat /\ s_i \in 0 .. ELEMENTS
  BY SweepSizes DEF ParticleInv, AosTurn, AosReturns, AosInv
<1>2. CASE AosTurn
  <2>1. /\ s_i \in Element /\ s_i' = s_i + 1 /\ UNCHANGED <<sweep, s_j, soa>>
        /\ aos' = [aos EXCEPT ![s_i] = [axis \in Axis |-> @[axis] + 1]]
    BY <1>1, <1>2 DEF AosTurn, Element
  <2>2. aos \in [Element -> [Axis -> Int]] BY DEF ParticleInv
  <2>3. ASSUME NEW e \in Element
        PROVE  aos'[e] = IF e = s_i THEN [axis \in Axis |-> aos[e][axis] + 1] ELSE aos[e]
    BY <2>1, <2>2
  <2>4. aos' \in [Element -> [Axis -> Int]]
    <3>1. [axis \in Axis |-> aos[s_i][axis] + 1] \in [Axis -> Int] BY <2>1, <2>2
    <3> QED BY <2>1, <2>2, <3>1
  <2>5. AosInv'
    <3>1. ASSUME NEW e \in Element, NEW axis \in Axis
          PROVE  soa'[axis][e] = 0 /\ aos'[e][axis] = IF e < s_i' THEN 1 ELSE 0
      <4>1. soa[axis][e] = 0 /\ aos[e][axis] = IF e < s_i THEN 1 ELSE 0 BY <1>1 DEF AosInv
      <4>2. aos'[e][axis] = IF e = s_i THEN aos[e][axis] + 1 ELSE aos[e][axis] BY <2>3
      <4>3. e \in Int BY ElementRange
      <4> QED BY <1>1, <2>1, <4>1, <4>2, <4>3
    <3>2. s_i' \in 0 .. ELEMENTS /\ s_j' = 0
      BY <1>1, <2>1, ElementRange DEF AosInv
    <3> QED BY <3>1, <3>2 DEF AosInv, Element, Axis
  <2> QED BY <1>1, <2>1, <2>4, <2>5 DEF ParticleInv, Element, Axis
<1>3. CASE AosReturns
  <2>1. s_i = ELEMENTS /\ s_i' = 0 /\ s_j' = 0 /\ sweep' = "update_soa" /\ UNCHANGED <<aos, soa>>
    BY <1>3 DEF AosReturns, Return, workVars
  <2>2. SoaInv'
    <3>1. ASSUME NEW e \in Element, NEW axis \in Axis
          PROVE  aos'[e][axis] = 1 /\ soa'[axis][e] = 0
                 /\ ~ (AxisNo[axis] < 0 \/ (AxisNo[axis] = 0 /\ e < 0))
      <4>1. soa[axis][e] = 0 /\ aos[e][axis] = IF e < s_i THEN 1 ELSE 0 BY <1>1 DEF AosInv
      <4> QED BY <2>1, <4>1, ElementRange DEF AxisNo
    <3> QED BY <1>1, <2>1, <3>1 DEF SoaInv, Element, Axis, AxisNo
  <2> QED BY <2>1, <2>2 DEF ParticleInv, Element, Axis
<1> QED BY <1>2, <1>3

LEMMA SoaStep ==
  ASSUME ParticleInv, SoaTurn \/ SoaLoopEnds \/ SoaReturns PROVE ParticleInv'
<1>1. /\ sweep = "update_soa" /\ SoaInv /\ ELEMENTS \in Nat /\ s_i \in 0 .. ELEMENTS
      /\ s_j \in 0 .. 3 /\ UNCHANGED aos
  BY SweepSizes DEF ParticleInv, SoaTurn, SoaLoopEnds, SoaReturns, SoaInv, workVars
<1>2. \A axis \in Axis : AxisNo[axis] \in 0 .. 2 BY DEF AxisNo
<1>3. CASE SoaTurn
  <2> DEFINE now == <<"x", "y", "z">>[s_j + 1]
  <2>1. /\ s_i \in Element /\ s_j \in 0 .. 2 /\ s_i' = s_i + 1 /\ UNCHANGED <<sweep, s_j>>
        /\ soa' = [soa EXCEPT ![now][s_i] = @ + 1]
    BY <1>1, <1>3 DEF SoaTurn, Element
  <2>2. now \in Axis /\ \A axis \in Axis : AxisNo[axis] = s_j <=> axis = now
    <3>1. s_j = 0 \/ s_j = 1 \/ s_j = 2 BY <2>1
    <3> QED BY <3>1 DEF Axis, AxisNo
  <2> HIDE DEF now
  <2>3. soa \in [Axis -> [Element -> Int]] BY DEF ParticleInv
  <2>4. soa' \in [Axis -> [Element -> Int]]
    <3>1. soa' = [soa EXCEPT ![now] = [soa[now] EXCEPT ![s_i] = soa[now][s_i] + 1]]
      BY <2>1, <2>2, <2>3
    <3>2. [soa[now] EXCEPT ![s_i] = soa[now][s_i] + 1] \in [Element -> Int]
      BY <2>1, <2>2, <2>3
    <3> QED BY <2>2, <2>3, <3>1, <3>2
  <2>5. ASSUME NEW e \in Element, NEW axis \in Axis
        PROVE  soa'[axis][e] =
                 IF axis = now /\ e = s_i THEN soa[axis][e] + 1 ELSE soa[axis][e]
    BY <2>1, <2>2, <2>3
  <2>6. SoaInv'
    <3>1. ASSUME NEW e \in Element, NEW axis \in Axis
          PROVE  /\ aos'[e][axis] = 1
                 /\ soa'[axis][e] =
                      IF AxisNo[axis] < s_j' \/ (AxisNo[axis] = s_j' /\ e < s_i') THEN 1 ELSE 0
      <4>1. /\ aos[e][axis] = 1
            /\ soa[axis][e] =
                 IF AxisNo[axis] < s_j \/ (AxisNo[axis] = s_j /\ e < s_i) THEN 1 ELSE 0
        BY <1>1 DEF SoaInv
      <4>2. e \in Int /\ AxisNo[axis] \in 0 .. 2 BY <1>2, ElementRange
      <4>3. AxisNo[axis] = s_j <=> axis = now BY <2>2
      <4>4. e < s_i' <=> e < s_i \/ e = s_i BY <1>1, <2>1, <4>2
      <4>5. ~ (s_i < s_i) /\ ~ (s_j < s_j) /\ s_j' = s_j BY <1>1, <2>1
      <4>6. CASE axis = now /\ e = s_i
        <5>1. soa[axis][e] = 0 BY <4>1, <4>3, <4>5, <4>6
        <5>2. soa'[axis][e] = 1 BY <2>5, <4>6, <5>1
        <5> QED BY <1>1, <4>1, <4>3, <4>4, <4>5, <4>6, <5>2
      <4>7. CASE ~ (axis = now /\ e = s_i)
        <5>1. soa'[axis][e] = soa[axis][e] BY <2>5, <4>7
        <5> QED BY <1>1, <4>1, <4>3, <4>4, <4>5, <4>7, <5>1
      <4> QED BY <4>6, <4>7
    <3>2. s_i' \in 0 .. ELEMENTS /\ s_j' \in 0 .. 3
      BY <1>1, <2>1, ElementRange
    <3> QED BY <3>1, <3>2 DEF SoaInv, Element, Axis, AxisNo
  <2> QED BY <1>1, <2>1, <2>4, <2>6 DEF ParticleInv, Element, Axis
<1>4. CASE SoaLoopEnds
  <2>1. /\ s_i = ELEMENTS /\ s_j < 3 /\ s_i' = 0 /\ s_j' = s_j + 1 /\ UNCHANGED <<sweep, soa>>
    BY <1>4 DEF SoaLoopEnds, workVars
  <2>2. SoaInv'
    <3>1. ASSUME NEW e \in Element, NEW axis \in Axis
          PROVE  /\ aos'[e][axis] = 1
                 /\ soa'[axis][e] =
                      IF AxisNo[axis] < s_j' \/ (AxisNo[axis] = s_j' /\ e < s_i') THEN 1 ELSE 0
      <4>1. /\ aos[e][axis] = 1
            /\ soa[axis][e] =
                 IF AxisNo[axis] < s_j \/ (AxisNo[axis] = s_j /\ e < s_i) THEN 1 ELSE 0
        BY <1>1 DEF SoaInv
      <4>2. e \in Int /\ 0 <= e /\ e < ELEMENTS /\ AxisNo[axis] \in 0 .. 2
        BY <1>2, ElementRange
      <4>3. AxisNo[axis] < s_j' <=> AxisNo[axis] < s_j \/ AxisNo[axis] = s_j
        BY <1>1, <2>1, <4>2
      <4>4. e < s_i /\ ~ (e < s_i') BY <1>1, <2>1, <4>2
      <4>5. soa' = soa /\ aos' = aos BY <1>1, <2>1
      <4> QED BY <4>1, <4>3, <4>4, <4>5
    <3>2. s_i' \in 0 .. ELEMENTS /\ s_j' \in 0 .. 3 BY <1>1, <2>1
    <3> QED BY <3>1, <3>2 DEF SoaInv, Element, Axis, AxisNo
  <2> QED BY <1>1, <2>1, <2>2 DEF ParticleInv, Element, Axis
<1>5. CASE SoaReturns
  <2>1. s_j = 3 /\ sweep' = "done" /\ UNCHANGED soa
    BY <1>5 DEF SoaReturns, Return, workVars
  <2>2. ASSUME NEW e \in Element, NEW axis \in Axis PROVE aos'[e][axis] = soa'[axis][e]
    <3>1. AxisNo[axis] < s_j
      <4>1. AxisNo[axis] \in 0 .. 2 BY <1>2
      <4> QED BY <2>1, <4>1
    <3>2. aos[e][axis] = 1 /\ soa[axis][e] = 1 BY <1>1, <3>1 DEF SoaInv
    <3> QED BY <1>1, <2>1, <3>2
  <2> QED BY <1>1, <2>1, <2>2 DEF ParticleInv, Element, Axis
<1> QED BY <1>3, <1>4, <1>5

LEMMA ParticleStep ==
  ASSUME ReadsInv, ParticleInv, [SweepNext]_sweepVars PROVE ParticleInv'
<1>1. ASSUME AosTurn \/ AosReturns PROVE ParticleInv' BY <1>1, AosStep
<1>2. ASSUME SoaTurn \/ SoaLoopEnds \/ SoaReturns PROVE ParticleInv' BY <1>2, SoaStep
<1>3. ASSUME sweep \notin {"update_aos", "update_soa"},
             sweep' \notin {"update_aos", "update_soa"}, UNCHANGED <<aos, soa>>
      PROVE  ParticleInv'
  BY <1>3 DEF ParticleInv, Element, Axis
<1>4. ASSUME ShuffleTurn \/ SetupDone \/ SetupFails \/ StrideTurn \/ SumTurn PROVE ParticleInv'
  <2>1. sweep \notin {"update_aos", "update_soa"} /\ sweep' \notin {"update_aos", "update_soa"}
        /\ UNCHANGED <<aos, soa>>
    BY <1>4 DEF ShuffleTurn, SetupDone, SetupFails, StrideTurn, SumTurn, workVars
  <2> QED BY <1>3, <2>1
<1>5. ASSUME MatrixTurn \/ MatrixInnerEnds PROVE ParticleInv'
  <2>1. sweep \notin {"update_aos", "update_soa"} /\ sweep' = sweep /\ UNCHANGED <<aos, soa>>
    BY <1>5 DEF MatrixTurn, MatrixInnerEnds, Matrix, workVars
  <2> QED BY <1>3, <2>1
<1>6. ASSUME SumReturns \/ StrideReturns \/ MatrixReturns PROVE ParticleInv'
  <2>1. sweep \notin {"update_aos", "update_soa"} /\ sweep' \notin {"update_aos", "update_soa"}
        /\ UNCHANGED <<aos, soa>>
    BY <1>6 DEF SumReturns, StrideReturns, MatrixReturns, Matrix, Return, workVars
  <2> QED BY <1>3, <2>1
<1>7. ASSUME UNCHANGED sweepVars PROVE ParticleInv'
  <2>1. UNCHANGED <<sweep, s_i, s_j, aos, soa>> BY <1>7 DEF sweepVars, workVars
  <2> QED BY <2>1 DEF ParticleInv, AosInv, SoaInv, Element, Axis, AxisNo
<1> QED BY <1>1, <1>2, <1>4, <1>5, <1>6, <1>7 DEF SweepNext

(* The work is the same whatever the order of the reads, and the lines     *)
(* missed are as many as the order makes them: the shuffled sum is the     *)
(* sequential one, the column-major sum the row-major one with a miss on   *)
(* every read, strides up to the line size cost the misses of the whole    *)
(* array, and both particle layouts end with the same positions (ex1_2,    *)
(* ex2_1, ex4_1, ex4_2 of solutions).                                      *)
THEOREM SweepsDoTheSameWork == SweepSpec => []SameWorkOtherLines
<1>1. SweepInit => ReadsInv /\ ParticleInv BY ReadsStart, ParticleStart
<1>2. (ReadsInv /\ ParticleInv) /\ [SweepNext]_sweepVars => (ReadsInv /\ ParticleInv)'
  BY ReadsStep, ParticleStep
<1>3. ReadsInv /\ ParticleInv => SameWorkOtherLines
  <2> SUFFICES ASSUME ReadsInv, ParticleInv PROVE SameWorkOtherLines OBVIOUS
  <2>1. DOMAIN calls = 1 .. Len(calls) /\ \A p \in 1 .. Len(calls) : CallOk(calls, p)
    BY DEF ReadsInv
  <2>2. ASSUME NEW p \in DOMAIN calls, calls[p].of \in {"random_sum", "col_major_sum"}
        PROVE  calls[p].sum = calls[p - 1].sum /\ calls[p].reads = calls[p - 1].reads
    <3>1. p = 2 /\ calls[p].sum = calls[1].sum /\ calls[p].reads = calls[1].reads
      BY <2>1, <2>2 DEF CallOk
    <3>2. p - 1 = 1 BY <3>1
    <3> QED BY <3>1, <3>2
  <2>3. sweep = "done" => \A e \in Element, axis \in Axis : aos[e][axis] = soa[axis][e]
    BY DEF ParticleInv
  <2> QED BY <2>1, <2>2, <2>3 DEF CallOk, SameWorkOtherLines
<1> QED BY <1>1, <1>2, <1>3, PTL DEF SweepSpec

(***************************************************************************)
(* What the hash functions of chapter 7 lose.  Folds over sequences take   *)
(* the indices in order, the last or the first of those that are left.     *)
(***************************************************************************)
IsFold(it, step, first, S, start) ==
  it = [s \in SUBSET S |-> IF s = {} THEN start ELSE step[first[s]][it[s \ {first[s]}]]]

LEMMA FoldsAgree ==
  ASSUME NEW S, IsFiniteSet(S), NEW R \in SUBSET S, NEW step, NEW start, NEW first,
         \A s \in SUBSET S : s # {} => first[s] \in s,
         NEW it, IsFold(it, step, first, S, start), NEW it2, IsFold(it2, step, first, R, start)
  PROVE  it[R] = it2[R]
<1> DEFINE P == {s \in SUBSET R : it[s] = it2[s]}
<1>1. IsFiniteSet(R) BY FS_Subset
<1>2. /\ \A s \in SUBSET S :
           it[s] = IF s = {} THEN start ELSE step[first[s]][it[s \ {first[s]}]]
      /\ \A s \in SUBSET R :
           it2[s] = IF s = {} THEN start ELSE step[first[s]][it2[s \ {first[s]}]]
  BY DEF IsFold
<1>3. ASSUME NEW s \in SUBSET R, \A r \in SUBSET s : r # s => r \in P PROVE s \in P
  <2>1. CASE s = {} BY <1>2, <2>1
  <2>2. CASE s # {}
    <3>1. s \ {first[s]} \in SUBSET s /\ s \ {first[s]} # s BY <2>2
    <3>2. s \ {first[s]} \in P BY <1>3, <3>1
    <3> QED BY <1>2, <2>2, <3>2
  <2> QED BY <2>1, <2>2
<1> HIDE DEF P
<1>4. R \in P BY <1>1, <1>3, SubsetInduction
<1> QED BY <1>4 DEF P

LEMMA FoldExists ==
  ASSUME NEW S, IsFiniteSet(S), NEW step, NEW start, NEW first,
         \A s \in SUBSET S : s # {} => first[s] \in s
  PROVE  \E it : IsFold(it, step, first, S, start)
<1> DEFINE P == {s \in SUBSET S : \E it : IsFold(it, step, first, s, start)}
           v(s) == (CHOOSE it : IsFold(it, step, first, s, start))[s]
<1>1. ASSUME NEW s \in SUBSET S, s # {}, s \in P, s \ {first[s]} \in P
      PROVE  v(s) = step[first[s]][v(s \ {first[s]})]
  <2> DEFINE r == s \ {first[s]}
             it == CHOOSE it : IsFold(it, step, first, s, start)
             it2 == CHOOSE it2 : IsFold(it2, step, first, r, start)
  <2>1. IsFold(it, step, first, s, start) /\ IsFold(it2, step, first, r, start) BY <1>1
  <2>2. IsFiniteSet(s) /\ r \in SUBSET s BY FS_Subset
  <2>3. \A q \in SUBSET s : q # {} => first[q] \in q OBVIOUS
  <2> HIDE DEF it, it2
  <2>4. it[r] = it2[r] BY <2>1, <2>2, <2>3, FoldsAgree
  <2>5. it[s] = step[first[s]][it[r]] BY <1>1, <2>1 DEF IsFold
  <2> QED BY <2>4, <2>5 DEF it, it2
<1>2. {} \in P => v({}) = start
  <2> DEFINE it == CHOOSE it : IsFold(it, step, first, {}, start)
  <2> SUFFICES ASSUME {} \in P PROVE v({}) = start OBVIOUS
  <2>1. IsFold(it, step, first, {}, start) OBVIOUS
  <2> HIDE DEF it
  <2>2. it[{}] = start BY <2>1 DEF IsFold
  <2> QED BY <2>2 DEF it
<1>3. ASSUME NEW s \in SUBSET S, \A r \in SUBSET s : r # s => r \in P PROVE s \in P
  <2> DEFINE z == [q \in SUBSET s |->
                     IF q = {} THEN start ELSE step[first[q]][v(q \ {first[q]})]]
  <2> HIDE DEF P, v
  <2>1. ASSUME NEW q \in SUBSET s, q # {}
        PROVE  z[q \ {first[q]}] = v(q \ {first[q]})
    <3> DEFINE r == q \ {first[q]}
    <3>1. r \in SUBSET s /\ r # s /\ r \in P BY <1>3, <2>1
    <3>2. CASE r = {} BY <1>2, <3>1, <3>2
    <3>3. CASE r # {}
      <4>1. r \ {first[r]} \in SUBSET s /\ r \ {first[r]} # s BY <3>1
      <4>2. r \ {first[r]} \in P BY <1>3, <4>1
      <4>3. v(r) = step[first[r]][v(r \ {first[r]})] BY <1>1, <3>1, <3>3, <4>2
      <4> QED BY <3>1, <3>3, <4>3
    <3> QED BY <3>2, <3>3
  <2>2. IsFold(z, step, first, s, start)
    <3>1. \A q \in SUBSET s :
            z[q] = IF q = {} THEN start ELSE step[first[q]][z[q \ {first[q]}]]
      BY <2>1
    <3> QED BY <3>1 DEF IsFold
  <2> QED BY <2>2 DEF P
<1> HIDE DEF P
<1>4. S \in P BY <1>3, SubsetInduction
<1> QED BY <1>4 DEF P


LEMMA FoldInto ==
  ASSUME NEW S, IsFiniteSet(S), NEW step, NEW start, NEW first,
         \A s \in SUBSET S : s # {} => first[s] \in s,
         NEW D, start \in D, \A e \in S, d \in D : step[e][d] \in D
  PROVE  \E it : IsFold(it, step, first, S, start) /\ \A s \in SUBSET S : it[s] \in D
<1>1. PICK it : IsFold(it, step, first, S, start) BY FoldExists
<1>2. \A s \in SUBSET S : it[s] = IF s = {} THEN start ELSE step[first[s]][it[s \ {first[s]}]]
  BY <1>1 DEF IsFold
<1> DEFINE P == {s \in SUBSET S : it[s] \in D}
<1>3. ASSUME NEW s \in SUBSET S, \A r \in SUBSET s : r # s => r \in P PROVE s \in P
  <2>1. CASE s = {} BY <1>2, <2>1
  <2>2. CASE s # {}
    <3>1. first[s] \in s /\ s \ {first[s]} \in SUBSET s /\ s \ {first[s]} # s BY <2>2
    <3>2. it[s \ {first[s]}] \in D BY <1>3, <3>1
    <3>3. first[s] \in S BY <3>1
    <3>4. step[first[s]][it[s \ {first[s]}]] \in D BY <3>2, <3>3
    <3> QED BY <1>2, <2>2, <3>4
  <2> QED BY <2>1, <2>2
<1> HIDE DEF P
<1>4. \A s \in SUBSET S : s \in P BY <1>3, SubsetInduction
<1> QED BY <1>1, <1>4 DEF P

LEMMA Indices ==
  ASSUME NEW n0 \in Nat
  PROVE  /\ IsFiniteSet(1 .. n0)
         /\ \A s \in SUBSET (1 .. n0) : s # {} => Max(s) \in s /\ Min(s) \in s
<1>1. IsFiniteSet(1 .. n0) BY FS_Interval
<1>2. ASSUME NEW s \in SUBSET (1 .. n0), s # {} PROVE Max(s) \in s /\ Min(s) \in s
  <2>1. 1 \in Int /\ n0 \in Int /\ s \subseteq 1 .. n0 OBVIOUS
  <2> QED BY <1>2, <2>1, LeastOf
<1> QED BY <1>1, <1>2

LEMMA Prefix ==
  ASSUME NEW n0 \in Nat, NEW m \in 1 .. n0
  PROVE  /\ 1 .. m \in SUBSET (1 .. n0) /\ 1 .. m # {}
         /\ Max(1 .. m) = m /\ (1 .. m) \ {m} = 1 .. m - 1
<1>1. 1 .. m \in SUBSET (1 .. n0) /\ 1 .. m # {} /\ m \in 1 .. m
  <2>1. \A x \in 1 .. m : x \in 1 .. n0 OBVIOUS
  <2>2. m \in 1 .. m OBVIOUS
  <2> QED BY <2>1, <2>2
<1>2. Max(1 .. m) \in 1 .. m /\ \A x \in 1 .. m : x <= Max(1 .. m)
  <2>1. 1 \in Int /\ m \in Int /\ 1 .. m \subseteq 1 .. m OBVIOUS
  <2> QED BY <1>1, <2>1, LeastOf
<1>3. Max(1 .. m) = m BY <1>1, <1>2
<1>4. (1 .. m) \ {m} = 1 .. m - 1 OBVIOUS
<1> QED BY <1>1, <1>3, <1>4

LEMMA Suffix ==
  ASSUME NEW n0 \in Nat, NEW m \in 1 .. n0
  PROVE  /\ m .. n0 \in SUBSET (1 .. n0) /\ m .. n0 # {}
         /\ Min(m .. n0) = m /\ (m .. n0) \ {m} = m + 1 .. n0
<1>1. m .. n0 \in SUBSET (1 .. n0) /\ m .. n0 # {} /\ m \in m .. n0
  <2>1. \A x \in m .. n0 : x \in 1 .. n0 OBVIOUS
  <2>2. m \in m .. n0 OBVIOUS
  <2> QED BY <2>1, <2>2
<1>2. Min(m .. n0) \in m .. n0 /\ \A x \in m .. n0 : Min(m .. n0) <= x
  <2>1. n0 \in Int /\ m \in Int /\ m .. n0 \subseteq m .. n0 OBVIOUS
  <2> QED BY <1>1, <2>1, LeastOf
<1>3. Min(m .. n0) = m BY <1>1, <1>2
<1>4. (m .. n0) \ {m} = m + 1 .. n0 OBVIOUS
<1> QED BY <1>1, <1>3, <1>4

(* The sum of the terms of a sequence. *)
LEMMA SumAlong ==
  ASSUME NEW n0 \in Nat, NEW f, DOMAIN f = 1 .. n0, \A m \in 1 .. n0 : f[m] \in Int
  PROVE  \E v : /\ v[0] = 0 /\ \A m \in 1 .. n0 : v[m] = v[m - 1] + f[m]
                /\ FoldLeft(+, 0, f) = v[n0]
<1> DEFINE S == 1 .. n0
           first == [s \in SUBSET S |-> Max(s)]
           step == [e \in S |-> [d \in Int |-> d + f[e]]]
           Sums(it) == it = [s \in SUBSET S |->
                               IF s = {} THEN 0 ELSE it[s \ {Max(s)}] + f[Max(s)]]
           it == CHOOSE it : Sums(it)
           v == [m \in 0 .. n0 |-> it[1 .. m]]
<1>1. IsFiniteSet(S) /\ \A s \in SUBSET S : s # {} => Max(s) \in s BY Indices
<1>2. PICK z : IsFold(z, step, first, S, 0) /\ \A s \in SUBSET S : z[s] \in Int
  <2>1. \A s \in SUBSET S : s # {} => first[s] \in s BY <1>1
  <2>2. \A e \in S, d \in Int : step[e][d] \in Int
    <3>1. \A e \in S, d \in Int : step[e][d] = d + f[e] /\ f[e] \in Int OBVIOUS
    <3> QED BY <3>1
  <2>3. IsFiniteSet(S) /\ 0 \in Int BY <1>1
  <2> HIDE DEF S, first, step
  <2> QED BY <2>1, <2>2, <2>3, FoldInto
<1>3. Sums(z)
  <2>1. ASSUME NEW s \in SUBSET S
        PROVE  z[s] = IF s = {} THEN 0 ELSE z[s \ {Max(s)}] + f[Max(s)]
    <3>1. z[s] = IF s = {} THEN 0 ELSE step[Max(s)][z[s \ {Max(s)}]] BY <1>2 DEF IsFold
    <3>2. s # {} => Max(s) \in S /\ z[s \ {Max(s)}] \in Int BY <1>1, <1>2
    <3>3. s # {} => step[Max(s)][z[s \ {Max(s)}]] = z[s \ {Max(s)}] + f[Max(s)] BY <3>2
    <3> QED BY <3>1, <3>3
  <2>2. z = [s \in SUBSET S |-> z[s]] BY <1>2 DEF IsFold
  <2> QED BY <2>1, <2>2
<1>4. Sums(it) BY <1>3
<1>5. FoldLeft(+, 0, f) = it[S] BY DEF FoldLeft, MapThenFoldSet
<1> HIDE DEF it
<1>6. \A s \in SUBSET S : it[s] = IF s = {} THEN 0 ELSE it[s \ {Max(s)}] + f[Max(s)]
  BY <1>4
<1>7. v[0] = 0
  <2>1. 1 .. 0 = {} /\ 0 \in 0 .. n0 OBVIOUS
  <2> QED BY <1>6, <2>1
<1>8. ASSUME NEW m \in 1 .. n0 PROVE v[m] = v[m - 1] + f[m]
  <2>1. m \in 0 .. n0 /\ m - 1 \in 0 .. n0 OBVIOUS
  <2>2. it[1 .. m] = it[1 .. m - 1] + f[m]
    <3> HIDE DEF S, v
    <3> QED BY <1>6, Prefix DEF S
  <2> QED BY <2>1, <2>2
<1>9. v[n0] = it[S] OBVIOUS
<1> QED BY <1>5, <1>7, <1>8, <1>9

(* FNV-1a goes over the letters from the first to the last, undoing it     *)
(* goes back.                                                              *)
LEMMA WordsStay ==
  ASSUME NEW h, NEW c, NEW y
  PROVE  /\ Times(h, y) \in Word /\ FnvStep(h, c) \in Word
         /\ WIDTH = 32 /\ h \in Word => Xor(h, ToWord(c)) \in Word /\ FnvUndo(c, h) \in Word
<1>1. \A z : Times(z, y) \in Word BY DEF Times, Word
<1>2. \A z, w : Times(z, w) \in Word BY DEF Times, Word
<1>3. FnvStep(h, c) \in Word BY <1>2 DEF FnvStep
<1>4. ASSUME WIDTH = 32, NEW z \in Word PROVE Xor(z, ToWord(c)) \in Word
  <2>1. \A b \in 0 .. 30 : b \in Bits BY <1>4 DEF Bits
  <2> QED BY <1>4, <2>1 DEF Xor, ToWord, Word
<1> QED BY <1>1, <1>2, <1>3, <1>4 DEF FnvUndo

LEMMA FnvAlong ==
  ASSUME NEW letters \in Seq(Nat), FNV_OFFSET_BASIS \in Word
  PROVE  \E v : /\ v[0] = FNV_OFFSET_BASIS /\ \A m \in 0 .. Len(letters) : v[m] \in Word
                /\ \A m \in 1 .. Len(letters) : v[m] = FnvStep(v[m - 1], letters[m])
                /\ hash_fnv1a(letters) = v[Len(letters)]
<1> DEFINE n0 == Len(letters)
           S == 1 .. n0
           first == [s \in SUBSET S |-> Max(s)]
           step == [e \in S |-> [h \in Word |-> FnvStep(h, letters[e])]]
           Steps(it) == it = [s \in SUBSET S |->
                                IF s = {} THEN FNV_OFFSET_BASIS
                                ELSE FnvStep(it[s \ {Max(s)}], letters[Max(s)])]
           it == CHOOSE it : Steps(it)
           v == [m \in 0 .. n0 |-> it[1 .. m]]
<1>0. n0 \in Nat /\ DOMAIN letters = S OBVIOUS
<1>1. IsFiniteSet(S) /\ \A s \in SUBSET S : s # {} => Max(s) \in s BY <1>0, Indices
<1>2. PICK z : IsFold(z, step, first, S, FNV_OFFSET_BASIS) /\ \A s \in SUBSET S : z[s] \in Word
  <2>1. \A s \in SUBSET S : s # {} => first[s] \in s BY <1>1
  <2>2. \A e \in S, h \in Word : step[e][h] \in Word BY WordsStay
  <2>3. IsFiniteSet(S) BY <1>1
  <2> HIDE DEF S, first, step
  <2> QED BY <2>1, <2>2, <2>3, FoldInto
<1>3. Steps(z)
  <2>1. ASSUME NEW s \in SUBSET S
        PROVE  z[s] = IF s = {} THEN FNV_OFFSET_BASIS
                      ELSE FnvStep(z[s \ {Max(s)}], letters[Max(s)])
    <3>1. z[s] = IF s = {} THEN FNV_OFFSET_BASIS ELSE step[Max(s)][z[s \ {Max(s)}]]
      BY <1>2 DEF IsFold
    <3>2. s # {} => Max(s) \in S /\ z[s \ {Max(s)}] \in Word BY <1>1, <1>2
    <3>3. s # {} => step[Max(s)][z[s \ {Max(s)}]] = FnvStep(z[s \ {Max(s)}], letters[Max(s)])
      BY <3>2
    <3> QED BY <3>1, <3>3
  <2>2. z = [s \in SUBSET S |-> z[s]] BY <1>2 DEF IsFold
  <2> QED BY <2>1, <2>2
<1>4. Steps(it) BY <1>3
<1>5. hash_fnv1a(letters) = it[S] BY <1>0 DEF hash_fnv1a, FoldLeft, MapThenFoldSet
<1> HIDE DEF it
<1>6. \A s \in SUBSET S : it[s] = IF s = {} THEN FNV_OFFSET_BASIS
                                  ELSE FnvStep(it[s \ {Max(s)}], letters[Max(s)])
  BY <1>4
<1> HIDE DEF n0
<1>7. v[0] = FNV_OFFSET_BASIS
  <2>1. 1 .. 0 = {} /\ 0 \in 0 .. n0 BY <1>0
  <2> QED BY <1>6, <2>1
<1>8. ASSUME NEW m \in 1 .. n0 PROVE v[m] = FnvStep(v[m - 1], letters[m])
  <2>1. m \in 0 .. n0 /\ m - 1 \in 0 .. n0 BY <1>0
  <2>2. it[1 .. m] = FnvStep(it[1 .. m - 1], letters[m])
    <3> HIDE DEF S, v
    <3> QED BY <1>0, <1>6, Prefix DEF S
  <2>3. v[m] = it[1 .. m] /\ v[m - 1] = it[1 .. m - 1] BY <2>1
  <2> HIDE DEF v
  <2> QED BY <2>2, <2>3
<1>9. v[n0] = it[S] BY <1>0
<1> HIDE DEF v
<1>10. ASSUME NEW m \in 0 .. n0 PROVE v[m] \in Word
  <2>1. CASE m = 0 BY <1>7, <2>1
  <2>2. CASE m # 0
    <3>1. m \in 1 .. n0 BY <1>0, <2>2
    <3> QED BY <1>8, <3>1, WordsStay
  <2> QED BY <2>1, <2>2
<1> QED BY <1>5, <1>7, <1>8, <1>9, <1>10 DEF n0

LEMMA UndoAlong ==
  ASSUME NEW letters \in Seq(Nat), WIDTH = 32, NEW h0 \in Word
  PROVE  \E v : /\ v[Len(letters)] = h0
                /\ \A m \in 1 .. Len(letters) : v[m - 1] = FnvUndo(letters[m], v[m])
                /\ FoldRight(FnvUndo, letters, h0) = v[0]
<1> DEFINE n0 == Len(letters)
           S == 1 .. n0
           first == [s \in SUBSET S |-> Min(s)]
           step == [e \in S |-> [h \in Word |-> FnvUndo(letters[e], h)]]
           Steps(it) == it = [s \in SUBSET S |->
                                IF s = {} THEN h0
                                ELSE FnvUndo(letters[Min(s)], it[s \ {Min(s)}])]
           it == CHOOSE it : Steps(it)
           v == [m \in 0 .. n0 |-> it[m + 1 .. n0]]
<1>0. n0 \in Nat /\ DOMAIN letters = S OBVIOUS
<1>1. IsFiniteSet(S) /\ \A s \in SUBSET S : s # {} => Min(s) \in s BY <1>0, Indices
<1>2. PICK z : IsFold(z, step, first, S, h0) /\ \A s \in SUBSET S : z[s] \in Word
  <2>1. \A s \in SUBSET S : s # {} => first[s] \in s BY <1>1
  <2>2. \A e \in S, h \in Word : step[e][h] \in Word BY WordsStay
  <2>3. IsFiniteSet(S) BY <1>1
  <2> HIDE DEF S, first, step
  <2> QED BY <2>1, <2>2, <2>3, FoldInto
<1>3. Steps(z)
  <2>1. ASSUME NEW s \in SUBSET S
        PROVE  z[s] = IF s = {} THEN h0 ELSE FnvUndo(letters[Min(s)], z[s \ {Min(s)}])
    <3>1. z[s] = IF s = {} THEN h0 ELSE step[Min(s)][z[s \ {Min(s)}]] BY <1>2 DEF IsFold
    <3>2. s # {} => Min(s) \in S /\ z[s \ {Min(s)}] \in Word BY <1>1, <1>2
    <3>3. s # {} => step[Min(s)][z[s \ {Min(s)}]] = FnvUndo(letters[Min(s)], z[s \ {Min(s)}])
      BY <3>2
    <3> QED BY <3>1, <3>3
  <2>2. z = [s \in SUBSET S |-> z[s]] BY <1>2 DEF IsFold
  <2> QED BY <2>1, <2>2
<1>4. Steps(it) BY <1>3
<1>5. FoldRight(FnvUndo, letters, h0) = it[S] BY <1>0 DEF FoldRight, MapThenFoldSet
<1> HIDE DEF it
<1>6. \A s \in SUBSET S : it[s] = IF s = {} THEN h0
                                  ELSE FnvUndo(letters[Min(s)], it[s \ {Min(s)}])
  BY <1>4
<1> HIDE DEF n0
<1>7. v[n0] = h0
  <2>1. n0 + 1 .. n0 = {} /\ n0 \in 0 .. n0 BY <1>0
  <2> QED BY <1>6, <2>1
<1>8. ASSUME NEW m \in 1 .. n0 PROVE v[m - 1] = FnvUndo(letters[m], v[m])
  <2>1. m \in 0 .. n0 /\ m - 1 \in 0 .. n0 /\ (m - 1) + 1 = m BY <1>0
  <2>2. it[m .. n0] = FnvUndo(letters[m], it[m + 1 .. n0])
    <3> HIDE DEF S, v
    <3>1. /\ m .. n0 \in SUBSET S /\ m .. n0 # {}
          /\ Min(m .. n0) = m /\ (m .. n0) \ {m} = m + 1 .. n0
      BY <1>0, Suffix DEF S
    <3> QED BY <1>6, <3>1
  <2>3. v[m] = it[m + 1 .. n0] /\ v[m - 1] = it[m .. n0] BY <2>1
  <2> HIDE DEF v
  <2> QED BY <2>2, <2>3
<1>9. v[0] = it[S] BY <1>0
<1> HIDE DEF v
<1> QED BY <1>5, <1>7, <1>8, <1>9 DEF n0

(***************************************************************************)
(* The number a word stands for, and the numbers between on the way there, *)
(* one index after the other.                                              *)
(***************************************************************************)
IsChain(v, w, start, step) ==
  v = [u \in 0 .. w |-> IF u = 0 THEN start ELSE step[u][v[u - 1]]]

LEMMA ChainExists ==
  ASSUME NEW n0 \in Nat, NEW D, NEW start \in D, NEW step,
         \A u \in 1 .. n0, d \in D : step[u][d] \in D
  PROVE  \E v : IsChain(v, n0, start, step) /\ \A u \in 0 .. n0 : v[u] \in D
<1> DEFINE Made(w) == \E v : IsChain(v, w, start, step) /\ \A u \in 0 .. w : v[u] \in D
           P == {w \in 0 .. n0 : Made(w)}
<1>1. 0 \in P
  <2> DEFINE v == [u \in 0 .. 0 |-> start]
  <2> DEFINE then0(u) == IF u = 0 THEN start ELSE step[u][v[u - 1]]
  <2>1. \A u \in 0 .. 0 : v[u] = start /\ then0(u) = start OBVIOUS
  <2>2. v = [u \in 0 .. 0 |-> v[u]] OBVIOUS
  <2> HIDE DEF v, then0
  <2>3. v = [u \in 0 .. 0 |-> then0(u)] BY <2>1, <2>2
  <2>4. IsChain(v, 0, start, step) BY <2>3 DEF then0, IsChain
  <2> QED BY <2>1, <2>4
<1>2. ASSUME NEW w \in 0 .. n0 - 1, w \in P PROVE w + 1 \in P
  <2>1. PICK v : IsChain(v, w, start, step) /\ \A u \in 0 .. w : v[u] \in D BY <1>2
  <2>2. \A u \in 0 .. w : v[u] = IF u = 0 THEN start ELSE step[u][v[u - 1]]
    BY <2>1 DEF IsChain
  <2> DEFINE more == [u \in 0 .. w + 1 |-> IF u = w + 1 THEN step[u][v[w]] ELSE v[u]]
  <2>3. \A u \in 0 .. w : more[u] = v[u] OBVIOUS
  <2>4. more[w + 1] = step[w + 1][v[w]] /\ w + 1 # 0 /\ (w + 1) - 1 = w OBVIOUS
  <2>5. more = [u \in 0 .. w + 1 |-> more[u]] OBVIOUS
  <2> HIDE DEF more
  <2>6. ASSUME NEW u \in 0 .. w + 1
        PROVE  more[u] \in D /\ more[u] = IF u = 0 THEN start ELSE step[u][more[u - 1]]
    <3>1. CASE u = w + 1
      <4>1. w \in 0 .. w /\ w + 1 \in 1 .. n0 OBVIOUS
      <4>2. more[w] = v[w] /\ v[w] \in D BY <2>1, <2>3, <4>1
      <4>3. step[w + 1][v[w]] \in D BY <4>1, <4>2
      <4> QED BY <2>4, <3>1, <4>2, <4>3
    <3>2. CASE u # w + 1
      <4>1. u \in 0 .. w /\ (u # 0 => u - 1 \in 0 .. w) BY <3>2
      <4>2. more[u] = v[u] /\ (u # 0 => more[u - 1] = v[u - 1]) BY <2>3, <4>1
      <4> QED BY <2>1, <2>2, <4>1, <4>2
    <3> QED BY <3>1, <3>2
  <2>7. IsChain(more, w + 1, start, step)
    <3> DEFINE then0(u) == IF u = 0 THEN start ELSE step[u][more[u - 1]]
    <3>1. \A u \in 0 .. w + 1 : more[u] = then0(u) BY <2>6
    <3> HIDE DEF then0
    <3>2. more = [u \in 0 .. w + 1 |-> then0(u)] BY <2>5, <3>1
    <3> QED BY <3>2 DEF then0, IsChain
  <2>8. Made(w + 1) BY <2>6, <2>7
  <2> HIDE DEF Made
  <2> QED BY <2>8
<1> HIDE DEF P
<1>3. n0 \in P BY <1>1, <1>2, StepByStep
<1> QED BY <1>3 DEF P

(* The powers of two up to that of the width. *)
Power == LET p[u \in 0 .. WIDTH] == IF u = 0 THEN 1 ELSE 2 * p[u - 1] IN p

LEMMA PowerSteps ==
  /\ Power[0] = 1 /\ \A u \in Bits : Power[u + 1] = 2 * Power[u]
  /\ \A u \in 0 .. WIDTH : Power[u] \in Nat \ {0}
<1> DEFINE D == Nat \ {0}
           step == [u \in 1 .. WIDTH |-> [d \in D |-> 2 * d]]
           Twice(v) == v = [u \in 0 .. WIDTH |-> IF u = 0 THEN 1 ELSE 2 * v[u - 1]]
<1>0. WIDTH \in Nat BY WordFacts
<1>1. PICK v : IsChain(v, WIDTH, 1, step) /\ \A u \in 0 .. WIDTH : v[u] \in D
  <2>1. \A u \in 1 .. WIDTH, d \in D : step[u][d] \in D OBVIOUS
  <2>2. 1 \in D OBVIOUS
  <2> HIDE DEF D, step
  <2> QED BY <1>0, <2>1, <2>2, ChainExists
<1>2. Twice(v)
  <2>1. v = [u \in 0 .. WIDTH |-> v[u]] BY <1>1 DEF IsChain
  <2>2. ASSUME NEW u \in 0 .. WIDTH PROVE v[u] = IF u = 0 THEN 1 ELSE 2 * v[u - 1]
    <3>1. v[u] = IF u = 0 THEN 1 ELSE step[u][v[u - 1]] BY <1>1 DEF IsChain
    <3>2. u # 0 => u \in 1 .. WIDTH /\ u - 1 \in 0 .. WIDTH BY <1>0
    <3>3. u # 0 => v[u - 1] \in D BY <1>1, <3>2
    <3> QED BY <3>1, <3>2, <3>3
  <2> QED BY <2>1, <2>2
<1>3. Twice(Power) BY <1>2 DEF Power
<1>4. \A u \in 0 .. WIDTH : Power[u] = IF u = 0 THEN 1 ELSE 2 * Power[u - 1] BY <1>3
<1>5. Power[0] = 1 BY <1>0, <1>4
<1>6. \A u \in Bits : Power[u + 1] = 2 * Power[u]
  <2>1. \A u \in Bits : u + 1 \in 0 .. WIDTH /\ u + 1 # 0 /\ (u + 1) - 1 = u
    BY <1>0 DEF Bits
  <2> QED BY <1>4, <2>1
<1> DEFINE P == {u \in 0 .. WIDTH : Power[u] \in Nat \ {0}}
<1>7. 0 \in P BY <1>0, <1>5
<1>8. \A u \in 0 .. WIDTH - 1 : u \in P => u + 1 \in P BY <1>0, <1>6 DEF Bits
<1> HIDE DEF P
<1>9. \A u \in 0 .. WIDTH : u \in P BY <1>0, <1>7, <1>8, StepByStep
<1> QED BY <1>5, <1>6, <1>9 DEF P

(* The sums of the terms below each index. *)
Along(f) == LET v[u \in 0 .. WIDTH] == IF u = 0 THEN 0 ELSE v[u - 1] + f[u - 1] IN v

LEMMA AlongSteps ==
  ASSUME NEW f, \A u \in Bits : f[u] \in Int
  PROVE  /\ Along(f)[0] = 0 /\ \A u \in Bits : Along(f)[u + 1] = Along(f)[u] + f[u]
         /\ \A u \in 0 .. WIDTH : Along(f)[u] \in Int
<1> DEFINE step == [u \in 1 .. WIDTH |-> [d \in Int |-> d + f[u - 1]]]
           Adds(v) == v = [u \in 0 .. WIDTH |-> IF u = 0 THEN 0 ELSE v[u - 1] + f[u - 1]]
<1>0. WIDTH \in Nat /\ \A u \in 1 .. WIDTH : u - 1 \in Bits BY WordFacts DEF Bits
<1>1. PICK v : IsChain(v, WIDTH, 0, step) /\ \A u \in 0 .. WIDTH : v[u] \in Int
  <2>1. \A u \in 1 .. WIDTH, d \in Int : step[u][d] = d + f[u - 1] /\ f[u - 1] \in Int BY <1>0
  <2>2. \A u \in 1 .. WIDTH, d \in Int : step[u][d] \in Int BY <2>1
  <2>3. 0 \in Int OBVIOUS
  <2> HIDE DEF step
  <2> QED BY <1>0, <2>2, <2>3, ChainExists
<1>2. Adds(v)
  <2>1. v = [u \in 0 .. WIDTH |-> v[u]] BY <1>1 DEF IsChain
  <2>2. ASSUME NEW u \in 0 .. WIDTH PROVE v[u] = IF u = 0 THEN 0 ELSE v[u - 1] + f[u - 1]
    <3>1. v[u] = IF u = 0 THEN 0 ELSE step[u][v[u - 1]] BY <1>1 DEF IsChain
    <3>2. u # 0 => u \in 1 .. WIDTH /\ u - 1 \in 0 .. WIDTH BY <1>0
    <3>3. u # 0 => v[u - 1] \in Int BY <1>1, <3>2
    <3> QED BY <3>1, <3>2, <3>3
  <2> QED BY <2>1, <2>2
<1>3. Adds(Along(f)) BY <1>2 DEF Along
<1> DEFINE a == Along(f)
<1>4. \A u \in 0 .. WIDTH : a[u] = IF u = 0 THEN 0 ELSE a[u - 1] + f[u - 1] BY <1>3
<1> HIDE DEF a
<1>5. a[0] = 0 BY <1>0, <1>4
<1>6. \A u \in Bits : a[u + 1] = a[u] + f[u]
  <2>1. \A u \in Bits : u + 1 \in 0 .. WIDTH /\ u + 1 # 0 /\ (u + 1) - 1 = u
    BY <1>0 DEF Bits
  <2> QED BY <1>4, <2>1
<1> DEFINE P == {u \in 0 .. WIDTH : a[u] \in Int}
<1>7. 0 \in P BY <1>0, <1>5
<1>8. \A u \in 0 .. WIDTH - 1 : u \in P => u + 1 \in P BY <1>0, <1>6 DEF Bits
<1> HIDE DEF P
<1>9. \A u \in 0 .. WIDTH : u \in P BY <1>0, <1>7, <1>8, StepByStep
<1> QED BY <1>5, <1>6, <1>9 DEF P, a

(* What a word stands for: its bits below each index, then all of them. *)
Digits(x) == [b \in Bits |-> IF b \in x THEN Power[b] ELSE 0]
NumberOf(x) == Along(Digits(x))[WIDTH]

LEMMA ValueSteps ==
  ASSUME NEW x
  PROVE  \E v : /\ v = Along(Digits(x)) /\ v[WIDTH] = NumberOf(x) /\ v[0] = 0
                /\ \A u \in Bits : v[u + 1] = v[u] + (IF u \in x THEN Power[u] ELSE 0)
                /\ \A u \in 0 .. WIDTH : v[u] \in Nat /\ v[u] < Power[u]
<1> DEFINE v == Along(Digits(x))
<1>0. WIDTH \in Nat BY WordFacts
<1>1. \A u \in Bits : u \in 0 .. WIDTH /\ u + 1 \in 0 .. WIDTH BY <1>0 DEF Bits
<1>2. \A u \in Bits : Power[u] \in Nat \ {0} /\ Power[u + 1] = 2 * Power[u]
  BY <1>1, PowerSteps
<1>3. \A u \in Bits : /\ Digits(x)[u] = IF u \in x THEN Power[u] ELSE 0
                      /\ Digits(x)[u] \in Nat
  BY <1>2 DEF Digits
<1>4. v[0] = 0 /\ \A u \in Bits : v[u + 1] = v[u] + Digits(x)[u] BY <1>3, AlongSteps
<1>5. v[WIDTH] = NumberOf(x) BY DEF NumberOf
<1> HIDE DEF v
<1> DEFINE P == {u \in 0 .. WIDTH : v[u] \in Nat /\ v[u] < Power[u]}
<1>6. 0 \in P BY <1>0, <1>4, PowerSteps
<1>7. ASSUME NEW u \in 0 .. WIDTH - 1, u \in P PROVE u + 1 \in P
  <2>1. u \in Bits BY DEF Bits
  <2>2. v[u + 1] = v[u] + Digits(x)[u] /\ Digits(x)[u] \in {0, Power[u]} BY <1>3, <1>4, <2>1
  <2>3. v[u] \in Nat /\ v[u] < Power[u] BY <1>7
  <2>4. Power[u] \in Nat /\ Power[u + 1] = 2 * Power[u] /\ u + 1 \in 0 .. WIDTH
    BY <1>1, <1>2, <2>1
  <2> QED BY <2>2, <2>3, <2>4
<1> HIDE DEF P
<1>8. \A u \in 0 .. WIDTH : u \in P BY <1>0, <1>6, <1>7, StepByStep
<1>9. \A u \in 0 .. WIDTH : v[u] \in Nat /\ v[u] < Power[u] BY <1>8 DEF P
<1>10. \A u \in Bits : v[u + 1] = v[u] + (IF u \in x THEN Power[u] ELSE 0) BY <1>3, <1>4
<1> QED BY <1>4, <1>5, <1>9, <1>10 DEF v

LEMMA ValueRange ==
  ASSUME NEW x PROVE NumberOf(x) \in Nat /\ NumberOf(x) < Power[WIDTH] /\ Power[WIDTH] \in Nat \ {0}
<1>1. WIDTH \in 0 .. WIDTH BY WordFacts
<1> QED BY <1>1, ValueSteps, PowerSteps

LEMMA HighestDigit ==
  ASSUME NEW p \in Nat, NEW a \in 0 .. p - 1, NEW b \in 0 .. p - 1,
         NEW l \in {0, p}, NEW j \in {0, p}, a + l = b + j
  PROVE  a = b /\ l = j
OBVIOUS

LEMMA ValuesTellApart ==
  ASSUME NEW x \in Word, NEW y \in Word, NumberOf(x) = NumberOf(y) PROVE x = y
<1>0. WIDTH \in Nat BY WordFacts
<1>1. PICK v : /\ v[WIDTH] = NumberOf(x) /\ v[0] = 0
               /\ \A u \in Bits : v[u + 1] = v[u] + (IF u \in x THEN Power[u] ELSE 0)
               /\ \A u \in 0 .. WIDTH : v[u] \in Nat /\ v[u] < Power[u]
  BY ValueSteps
<1>2. PICK z : /\ z[WIDTH] = NumberOf(y) /\ z[0] = 0
               /\ \A u \in Bits : z[u + 1] = z[u] + (IF u \in y THEN Power[u] ELSE 0)
               /\ \A u \in 0 .. WIDTH : z[u] \in Nat /\ z[u] < Power[u]
  BY ValueSteps
<1> DEFINE P == {w \in 0 .. WIDTH : v[w] = z[w] => \A b \in 0 .. w - 1 : b \in x <=> b \in y}
<1>3. 0 \in P BY <1>0
<1>4. ASSUME NEW w \in 0 .. WIDTH - 1, w \in P PROVE w + 1 \in P
  <2>1. w \in Bits /\ w + 1 \in 0 .. WIDTH /\ w \in 0 .. WIDTH BY <1>0 DEF Bits
  <2>2. ASSUME v[w + 1] = z[w + 1] PROVE v[w] = z[w] /\ (w \in x <=> w \in y)
    <3>1. /\ v[w + 1] = v[w] + (IF w \in x THEN Power[w] ELSE 0)
          /\ z[w + 1] = z[w] + (IF w \in y THEN Power[w] ELSE 0)
      BY <1>1, <1>2, <2>1
    <3>2. v[w] \in Nat /\ v[w] < Power[w] /\ z[w] \in Nat /\ z[w] < Power[w] /\ Power[w] \in Nat
      BY <1>1, <1>2, <2>1, PowerSteps
    <3> DEFINE l == IF w \in x THEN Power[w] ELSE 0
               j == IF w \in y THEN Power[w] ELSE 0
    <3>3. l \in {0, Power[w]} /\ j \in {0, Power[w]} /\ v[w] + l = z[w] + j BY <2>2, <3>1
    <3>4. Power[w] # 0 BY <3>2
    <3>5. (w \in x <=> l # 0) /\ (w \in y <=> j # 0) BY <3>4
    <3> HIDE DEF l, j
    <3>6. v[w] = z[w] /\ l = j BY <3>2, <3>3, HighestDigit
    <3> QED BY <3>5, <3>6
  <2>3. v[w + 1] = z[w + 1] => \A b \in 0 .. w : b \in x <=> b \in y BY <1>4, <2>2
  <2>4. (w + 1) - 1 = w OBVIOUS
  <2> QED BY <2>1, <2>3, <2>4
<1> HIDE DEF P
<1>5. WIDTH \in P
  <2>1. \A w \in 0 .. WIDTH : w \in P BY <1>0, <1>3, <1>4, StepByStep
  <2> QED BY <1>0, <2>1
<1>6. \A b \in Bits : b \in x <=> b \in y BY <1>1, <1>2, <1>5 DEF P, Bits
<1> QED BY <1>6 DEF Word

LEMMA PowersMultiply ==
  ASSUME NEW j \in 0 .. WIDTH
  PROVE  \A u \in 0 .. WIDTH - j : Power[j + u] = Power[j] * Power[u]
<1>0. WIDTH \in Nat /\ WIDTH - j \in Nat /\ Power[j] \in Nat BY WordFacts, PowerSteps
<1> DEFINE P == {u \in 0 .. WIDTH - j : Power[j + u] = Power[j] * Power[u]}
<1>1. 0 \in P BY <1>0, PowerSteps
<1>2. ASSUME NEW u \in 0 .. (WIDTH - j) - 1, u \in P PROVE u + 1 \in P
  <2>1. u \in Bits /\ j + u \in Bits /\ (j + u) + 1 = j + (u + 1) /\ u + 1 \in 0 .. WIDTH - j
    BY <1>0 DEF Bits
  <2>2. Power[j + (u + 1)] = 2 * Power[j + u] /\ Power[u + 1] = 2 * Power[u] BY <2>1, PowerSteps
  <2>3. Power[u] \in Nat
    <3>1. u \in 0 .. WIDTH BY <1>0
    <3> QED BY <3>1, PowerSteps
  <2>4. 2 * (Power[j] * Power[u]) = Power[j] * (2 * Power[u]) BY <1>0, <2>3
  <2>5. Power[j + u] = Power[j] * Power[u] BY <1>2
  <2> QED BY <2>1, <2>2, <2>4, <2>5
<1> HIDE DEF P
<1>3. \A u \in 0 .. WIDTH - j : u \in P BY <1>0, <1>1, <1>2, StepByStep
<1> QED BY <1>3 DEF P

(* The carries of a product, on the way from its lowest bit to its highest. *)
Column(x, y) == [u \in Bits |-> Cardinality({b \in x : u - b \in y})]

LEMMA ColumnType ==
  ASSUME NEW x \in Word, NEW y
  PROVE  /\ IsFiniteSet(x)
         /\ \A u \in Bits : /\ IsFiniteSet({b \in x : u - b \in y})
                            /\ Column(x, y)[u] = Cardinality({b \in x : u - b \in y})
                            /\ Column(x, y)[u] \in Nat
<1>1. IsFiniteSet(Bits) BY WordFacts, FS_Interval DEF Bits
<1>2. IsFiniteSet(x) BY <1>1, FS_Subset DEF Word
<1>3. \A u \in Bits : IsFiniteSet({b \in x : u - b \in y}) BY <1>2, FS_Subset
<1> QED BY <1>2, <1>3, FS_CardinalityType DEF Column

LEMMA CarrySteps ==
  ASSUME NEW x \in Word, NEW y
  PROVE  \E carry : /\ carry[0] = 0 /\ \A u \in Bits : carry[u] \in Nat
                    /\ \A u \in Bits : u # 0 =>
                         carry[u] = (carry[u - 1] + Column(x, y)[u - 1]) \div 2
                    /\ Times(x, y) = {u \in Bits : (carry[u] + Column(x, y)[u]) % 2 = 1}
<1> DEFINE col(u) == Cardinality({b \in x : u - b \in y})
           c == Column(x, y)
           step == [u \in 1 .. WIDTH - 1 |-> [d \in Nat |-> (d + c[u - 1]) \div 2]]
           Carries(v) == v = [u \in Bits |-> IF u = 0 THEN 0 ELSE (v[u - 1] + col(u - 1)) \div 2]
           carry == CHOOSE v : Carries(v)
<1>0. WIDTH - 1 \in Nat /\ Bits = 0 .. WIDTH - 1 /\ 0 \in Bits BY WordFacts DEF Bits
<1>1. \A u \in Bits : c[u] = col(u) /\ c[u] \in Nat BY ColumnType
<1> HIDE DEF c, col
<1>2. PICK v : IsChain(v, WIDTH - 1, 0, step) /\ \A u \in 0 .. WIDTH - 1 : v[u] \in Nat
  <2>1. ASSUME NEW u \in 1 .. WIDTH - 1, NEW d \in Nat PROVE step[u][d] \in Nat
    <3>1. u - 1 \in Bits BY <1>0
    <3>2. c[u - 1] \in Nat BY <1>1, <3>1
    <3>3. (d + c[u - 1]) \div 2 \in Nat BY <3>2
    <3> QED BY <3>3
  <2>2. 0 \in Nat OBVIOUS
  <2> HIDE DEF step
  <2> QED BY <1>0, <2>1, <2>2, ChainExists
<1>3. Carries(v)
  <2>1. v = [u \in Bits |-> v[u]] BY <1>0, <1>2 DEF IsChain
  <2>2. ASSUME NEW u \in Bits
        PROVE  v[u] = IF u = 0 THEN 0 ELSE (v[u - 1] + col(u - 1)) \div 2
    <3>1. v[u] = IF u = 0 THEN 0 ELSE step[u][v[u - 1]] BY <1>0, <1>2 DEF IsChain
    <3>2. u # 0 => u \in 1 .. WIDTH - 1 /\ u - 1 \in Bits BY <1>0
    <3>3. u # 0 => v[u - 1] \in Nat /\ c[u - 1] = col(u - 1) BY <1>0, <1>1, <1>2, <3>2
    <3>4. u # 0 => step[u][v[u - 1]] = (v[u - 1] + c[u - 1]) \div 2 BY <3>2, <3>3
    <3> QED BY <3>1, <3>3, <3>4
  <2> DEFINE then0(u) == IF u = 0 THEN 0 ELSE (v[u - 1] + col(u - 1)) \div 2
  <2>3. \A u \in Bits : v[u] = then0(u) BY <2>2
  <2> HIDE DEF then0
  <2>4. v = [u \in Bits |-> then0(u)] BY <2>1, <2>3
  <2> QED BY <2>4 DEF then0
<1>4. Carries(carry) BY <1>3
<1>5. Times(x, y) = {u \in Bits : (carry[u] + col(u)) % 2 = 1} BY DEF Times, col
<1> HIDE DEF carry
<1>6. \A u \in Bits : carry[u] = IF u = 0 THEN 0 ELSE (carry[u - 1] + col(u - 1)) \div 2
  BY <1>4
<1>7. carry[0] = 0 BY <1>0, <1>6
<1>8. \A u \in Bits : u # 0 => carry[u] = (carry[u - 1] + c[u - 1]) \div 2
  <2>1. \A u \in Bits : u # 0 => u - 1 \in Bits BY <1>0
  <2> QED BY <1>1, <1>6, <2>1
<1> DEFINE P == {u \in 0 .. WIDTH - 1 : carry[u] \in Nat}
<1>9. 0 \in P BY <1>0, <1>7
<1>10. ASSUME NEW u \in 0 .. (WIDTH - 1) - 1, u \in P PROVE u + 1 \in P
  <2>1. u \in Bits /\ u + 1 \in Bits /\ u + 1 # 0 /\ (u + 1) - 1 = u BY <1>0
  <2>2. carry[u + 1] = (carry[u] + c[u]) \div 2 /\ c[u] \in Nat BY <1>1, <1>8, <2>1
  <2>3. carry[u] \in Nat BY <1>10
  <2> HIDE DEF c
  <2>4. (carry[u] + c[u]) \div 2 \in Nat BY <2>2, <2>3
  <2> QED BY <1>0, <2>1, <2>2, <2>4
<1> HIDE DEF P
<1>11. \A u \in 0 .. WIDTH - 1 : u \in P BY <1>0, <1>9, <1>10, StepByStep
<1>12. \A u \in Bits : carry[u] \in Nat BY <1>0, <1>11 DEF P
<1>13. Times(x, y) = {u \in Bits : (carry[u] + c[u]) % 2 = 1}
  <2>1. \A u \in Bits : (carry[u] + col(u)) % 2 = 1 <=> (carry[u] + c[u]) % 2 = 1 BY <1>1
  <2> QED BY <1>5, <2>1
<1> QED BY <1>7, <1>8, <1>12, <1>13 DEF c

(* What does not fit into the columns is carried out of the word. *)
LEMMA CarriedOut ==
  ASSUME NEW x \in Word, NEW y
  PROVE  \E carried \in Int :
           NumberOf(Times(x, y)) + Power[WIDTH] * carried
             = Along([u \in Bits |-> Column(x, y)[u] * Power[u]])[WIDTH]
<1> DEFINE c == Column(x, y)
           f == [u \in Bits |-> c[u] * Power[u]]
           sum0 == Along(f)
<1>0. WIDTH - 1 \in Nat /\ WIDTH \in Nat BY WordFacts
<1>1. PICK carry : /\ carry[0] = 0 /\ \A u \in Bits : carry[u] \in Nat
                   /\ \A u \in Bits : u # 0 => carry[u] = (carry[u - 1] + c[u - 1]) \div 2
                   /\ Times(x, y) = {u \in Bits : (carry[u] + c[u]) % 2 = 1}
  BY CarrySteps
<1>2. \A u \in Bits : c[u] \in Nat BY ColumnType
<1> HIDE DEF c
<1>3. \A u \in Bits : Power[u] \in Nat /\ Power[u + 1] = 2 * Power[u]
  <2>1. \A u \in Bits : u \in 0 .. WIDTH BY <1>0 DEF Bits
  <2> QED BY <2>1, PowerSteps
<1>4. \A u \in Bits : f[u] = c[u] * Power[u] /\ f[u] \in Int BY <1>2, <1>3
<1> HIDE DEF f
<1>5. sum0[0] = 0 /\ \A u \in Bits : sum0[u + 1] = sum0[u] + f[u] BY <1>4, AlongSteps
<1>6. PICK v : /\ v[WIDTH] = NumberOf(Times(x, y)) /\ v[0] = 0
               /\ \A u \in Bits : v[u + 1] = v[u] + (IF u \in Times(x, y) THEN Power[u] ELSE 0)
               /\ \A u \in 0 .. WIDTH : v[u] \in Nat /\ v[u] < Power[u]
  BY ValueSteps
<1> HIDE DEF sum0
<1> DEFINE P == {w \in 0 .. WIDTH : \E beyond \in Nat :
                    v[w] + Power[w] * beyond = sum0[w] /\ (w \in Bits => beyond = carry[w])}
<1>7. 0 \in P
  <2>1. v[0] + Power[0] * 0 = sum0[0] /\ 0 \in Nat BY <1>5, <1>6, PowerSteps
  <2> QED BY <1>0, <1>1, <2>1
<1>8. ASSUME NEW w \in 0 .. WIDTH - 1, w \in P PROVE w + 1 \in P
  <2> DEFINE a == carry[w] + c[w]
             odd == IF w \in Times(x, y) THEN 1 ELSE 0
             carried == a \div 2
             p == Power[w]
  <2>1. w \in Bits /\ w + 1 \in 0 .. WIDTH /\ w \in 0 .. WIDTH BY <1>0 DEF Bits
  <2>2. carry[w] \in Nat /\ c[w] \in Nat /\ p \in Nat /\ v[w] \in Nat
    BY <1>1, <1>2, <1>3, <1>6, <2>1
  <2>3. v[w] + p * carry[w] = sum0[w] BY <1>8, <2>1
  <2>4. a \in Nat /\ odd = a % 2
    <3>1. w \in Times(x, y) <=> a % 2 = 1 BY <1>1, <2>1
    <3>2. a \in Nat BY <2>2
    <3> HIDE DEF a
    <3> QED BY <3>1, <3>2
  <2>5. a = 2 * carried + odd /\ carried \in Nat
    <3> HIDE DEF a, odd
    <3> QED BY <2>4
  <2>6. v[w + 1] = v[w] + p * odd
    <3>1. v[w + 1] = v[w] + (IF w \in Times(x, y) THEN p ELSE 0) BY <1>6, <2>1
    <3>2. p * 1 = p /\ p * 0 = 0 BY <2>2
    <3> HIDE DEF p
    <3> QED BY <3>1, <3>2
  <2>7. sum0[w + 1] = sum0[w] + c[w] * p /\ Power[w + 1] = 2 * p BY <1>3, <1>4, <1>5, <2>1
  <2>8. odd \in Nat OBVIOUS
  <2> HIDE DEF odd, carried, p
  <2>9. v[w + 1] + Power[w + 1] * carried = sum0[w + 1]
    <3>1. p * (carry[w] + c[w]) = p * (2 * carried + odd) BY <2>5
    <3>2. p * (carry[w] + c[w]) = p * carry[w] + c[w] * p BY <2>2
    <3>3. p * (2 * carried + odd) = (2 * p) * carried + p * odd BY <2>2, <2>5, <2>8
    <3>4. /\ p * carry[w] \in Int /\ c[w] * p \in Int /\ (2 * p) * carried \in Int
          /\ p * odd \in Int
      BY <2>2, <2>5, <2>8
    <3> DEFINE p1 == p * carry[w]  p2 == c[w] * p  p3 == (2 * p) * carried  p4 == p * odd
    <3>5. /\ p1 \in Int /\ p2 \in Int /\ p3 \in Int /\ p4 \in Int /\ p1 + p2 = p3 + p4
          /\ sum0[w] = v[w] + p1 /\ sum0[w + 1] = sum0[w] + p2 /\ v[w + 1] = v[w] + p4
      BY <2>3, <2>6, <2>7, <3>1, <3>2, <3>3, <3>4
    <3> HIDE DEF p1, p2, p3, p4
    <3>6. v[w + 1] + p3 = sum0[w + 1] BY <2>2, <3>5
    <3> QED BY <2>7, <3>6 DEF p3
  <2>10. w + 1 \in Bits => carried = carry[w + 1]
    <3>1. w + 1 \in Bits => carry[w + 1] = (carry[(w + 1) - 1] + c[(w + 1) - 1]) \div 2
      BY <1>1, <2>1 DEF Bits
    <3>2. (w + 1) - 1 = w OBVIOUS
    <3> QED BY <3>1, <3>2 DEF carried
  <2> QED BY <2>1, <2>5, <2>9, <2>10
<1> HIDE DEF P
<1>9. WIDTH \in P
  <2>1. \A w \in 0 .. WIDTH : w \in P BY <1>0, <1>7, <1>8, StepByStep
  <2> QED BY <1>0, <2>1
<1>10. PICK carried \in Nat : v[WIDTH] + Power[WIDTH] * carried = sum0[WIDTH] BY <1>9 DEF P
<1> QED BY <1>6, <1>10 DEF sum0, f, c

LEMMA AlongAdds ==
  ASSUME NEW f, NEW g, NEW h,
         \A u \in Bits : g[u] \in Int /\ h[u] \in Int /\ f[u] = g[u] + h[u]
  PROVE  \A w \in 0 .. WIDTH : Along(f)[w] = Along(g)[w] + Along(h)[w]
<1> DEFINE F == Along(f)
           G == Along(g)
           H == Along(h)
           P == {w \in 0 .. WIDTH : F[w] = G[w] + H[w]}
<1>0. WIDTH \in Nat BY WordFacts
<1>1. \A u \in Bits : f[u] \in Int OBVIOUS
<1>2. /\ F[0] = 0 /\ \A u \in Bits : F[u + 1] = F[u] + f[u]
      /\ G[0] = 0 /\ \A u \in Bits : G[u + 1] = G[u] + g[u]
      /\ H[0] = 0 /\ \A u \in Bits : H[u + 1] = H[u] + h[u]
      /\ \A u \in 0 .. WIDTH : F[u] \in Int /\ G[u] \in Int /\ H[u] \in Int
  BY <1>1, AlongSteps
<1> HIDE DEF F, G, H
<1>3. 0 \in P BY <1>0, <1>2
<1>4. ASSUME NEW w \in 0 .. WIDTH - 1, w \in P PROVE w + 1 \in P
  <2>1. w \in Bits /\ w + 1 \in 0 .. WIDTH /\ w \in 0 .. WIDTH BY <1>0 DEF Bits
  <2>2. F[w] = G[w] + H[w] BY <1>4
  <2>3. F[w + 1] = F[w] + f[w] /\ G[w + 1] = G[w] + g[w] /\ H[w + 1] = H[w] + h[w]
    BY <1>2, <2>1
  <2>4. /\ G[w] \in Int /\ H[w] \in Int /\ g[w] \in Int /\ h[w] \in Int
        /\ f[w] = g[w] + h[w]
    BY <1>2, <2>1
  <2>5. F[w + 1] = G[w + 1] + H[w + 1] BY <2>2, <2>3, <2>4
  <2> QED BY <2>1, <2>5
<1> HIDE DEF P
<1>5. \A w \in 0 .. WIDTH : w \in P BY <1>0, <1>3, <1>4, StepByStep
<1> QED BY <1>5 DEF P, F, G, H

LEMMA NothingAlong ==
  ASSUME NEW f, \A u \in Bits : f[u] = 0 PROVE Along(f)[WIDTH] = 0
<1>1. \A u \in Bits : f[u] \in Int /\ f[u] = f[u] + f[u] OBVIOUS
<1>2. WIDTH \in 0 .. WIDTH BY WordFacts
<1>3. Along(f)[WIDTH] = Along(f)[WIDTH] + Along(f)[WIDTH] BY <1>1, <1>2, AlongAdds
<1>4. Along(f)[WIDTH] \in Int BY <1>1, <1>2, AlongSteps
<1>5. \A z \in Int : z = z + z => z = 0 OBVIOUS
<1> QED BY <1>3, <1>4, <1>5

LEMMA ValueOfBit ==
  ASSUME NEW e \in Bits PROVE NumberOf({e}) = Power[e]
<1>0. WIDTH \in Nat /\ e \in 0 .. WIDTH - 1 BY WordFacts DEF Bits
<1>1. PICK v : /\ v[WIDTH] = NumberOf({e}) /\ v[0] = 0
               /\ \A u \in Bits : v[u + 1] = v[u] + (IF u \in {e} THEN Power[u] ELSE 0)
               /\ \A u \in 0 .. WIDTH : v[u] \in Nat /\ v[u] < Power[u]
  BY ValueSteps
<1> DEFINE P == {w \in 0 .. WIDTH : v[w] = IF w <= e THEN 0 ELSE Power[e]}
<1>2. 0 \in P BY <1>0, <1>1
<1>3. ASSUME NEW w \in 0 .. WIDTH - 1, w \in P PROVE w + 1 \in P
  <2>1. w \in Bits /\ w + 1 \in 0 .. WIDTH BY <1>0 DEF Bits
  <2>2. v[w + 1] = v[w] + (IF w = e THEN Power[e] ELSE 0) BY <1>1, <2>1
  <2>3. Power[e] \in Nat
    <3>1. e \in 0 .. WIDTH BY <1>0
    <3> QED BY <3>1, PowerSteps
  <2>4. v[w] = IF w <= e THEN 0 ELSE Power[e] BY <1>3
  <2>5. v[w + 1] = IF w + 1 <= e THEN 0 ELSE Power[e]
    <3>1. CASE w < e BY <1>0, <2>2, <2>4, <3>1
    <3>2. CASE w = e BY <1>0, <2>2, <2>3, <2>4, <3>2
    <3>3. CASE w > e BY <1>0, <2>2, <2>3, <2>4, <3>3
    <3> QED BY <1>0, <3>1, <3>2, <3>3
  <2> QED BY <2>1, <2>5
<1> HIDE DEF P
<1>4. \A w \in 0 .. WIDTH : w \in P BY <1>0, <1>2, <1>3, StepByStep
<1>5. v[WIDTH] = IF WIDTH <= e THEN 0 ELSE Power[e] BY <1>0, <1>4 DEF P
<1> QED BY <1>0, <1>1, <1>5

(* A row of the multiplication, shifted by e: its bits from WIDTH - e on   *)
(* are lost.                                                               *)
Row(e, y) == [u \in Bits |-> IF u - e \in y THEN Power[u] ELSE 0]

LEMMA RowShifts ==
  ASSUME NEW e \in Bits, NEW y \in Word
  PROVE  \E q \in Int : Power[e] * NumberOf(y) = Along(Row(e, y))[WIDTH] + Power[WIDTH] * q
<1> DEFINE f == Row(e, y)
           a == Along(f)
           p == Power[e]
           top == WIDTH - e
<1>0. /\ WIDTH \in Nat /\ e \in 0 .. WIDTH - 1 /\ e \in 0 .. WIDTH /\ top \in 0 .. WIDTH
      /\ e + top = WIDTH
  BY WordFacts DEF Bits
<1>1. PICK v : /\ v[WIDTH] = NumberOf(y) /\ v[0] = 0
               /\ \A u \in Bits : v[u + 1] = v[u] + (IF u \in y THEN Power[u] ELSE 0)
               /\ \A u \in 0 .. WIDTH : v[u] \in Nat /\ v[u] < Power[u]
  BY ValueSteps
<1>2. \A u \in 0 .. WIDTH : Power[u] \in Nat BY PowerSteps
<1>3. \A u \in Bits : f[u] = (IF u - e \in y THEN Power[u] ELSE 0) /\ f[u] \in Int
  <2>1. \A u \in Bits : u \in 0 .. WIDTH BY <1>0 DEF Bits
  <2> QED BY <1>2, <2>1 DEF Row
<1> HIDE DEF f
<1>4. a[0] = 0 /\ \A u \in Bits : a[u + 1] = a[u] + f[u] BY <1>3, AlongSteps
<1> HIDE DEF a
<1>5. p \in Nat /\ \A u \in 0 .. top : Power[e + u] = p * Power[u]
  BY <1>0, <1>2, PowersMultiply
<1> HIDE DEF p, top
<1>6. a[e] = 0
  <2> DEFINE P == {w \in 0 .. e : a[w] = 0}
  <2>1. 0 \in P BY <1>0, <1>4
  <2>2. ASSUME NEW w \in 0 .. e - 1, w \in P PROVE w + 1 \in P
    <3>1. w \in Bits /\ w + 1 \in 0 .. e BY <1>0 DEF Bits
    <3>2. w - e \notin y
      <4>1. ~ (w - e \in Bits) BY <1>0 DEF Bits
      <4> QED BY <4>1 DEF Word
    <3>3. a[w + 1] = 0 BY <1>3, <1>4, <2>2, <3>1, <3>2
    <3> QED BY <3>1, <3>3
  <2> HIDE DEF P
  <2>3. \A w \in 0 .. e : w \in P
    <3>1. e \in Nat BY <1>0
    <3> QED BY <2>1, <2>2, <3>1, StepByStep
  <2>4. e \in 0 .. e BY <1>0
  <2> QED BY <2>3, <2>4 DEF P
<1>7. a[WIDTH] = p * v[top]
  <2> DEFINE P == {j \in 0 .. top : a[e + j] = p * v[j]}
  <2>1. 0 \in P
    <3>1. e + 0 = e /\ p * 0 = 0 /\ 0 \in 0 .. top BY <1>0, <1>5
    <3> QED BY <1>1, <1>6, <3>1
  <2>2. ASSUME NEW j \in 0 .. top - 1, j \in P PROVE j + 1 \in P
    <3>1. /\ j \in Bits /\ e + j \in Bits /\ (e + j) + 1 = e + (j + 1) /\ (e + j) - e = j
          /\ j \in 0 .. top /\ j + 1 \in 0 .. top /\ j \in 0 .. WIDTH
      BY <1>0 DEF Bits
    <3> DEFINE d == IF j \in y THEN Power[j] ELSE 0
    <3>2. v[j + 1] = v[j] + d /\ v[j] \in Nat /\ d \in Nat BY <1>1, <1>2, <3>1
    <3>3. f[e + j] = p * d
      <4>1. f[e + j] = IF j \in y THEN Power[e + j] ELSE 0 BY <1>3, <3>1
      <4>2. Power[e + j] = p * Power[j] BY <1>5, <3>1
      <4>3. p * 0 = 0 BY <1>5
      <4> QED BY <4>1, <4>2, <4>3
    <3>4. a[e + (j + 1)] = a[e + j] + f[e + j] BY <1>4, <3>1
    <3>5. a[e + j] = p * v[j] BY <2>2
    <3> HIDE DEF d
    <3>6. p * (v[j] + d) = p * v[j] + p * d BY <1>5, <3>2
    <3>7. a[e + (j + 1)] = p * v[j + 1] BY <3>2, <3>3, <3>4, <3>5, <3>6
    <3> QED BY <3>1, <3>7
  <2> HIDE DEF P
  <2>3. \A j \in 0 .. top : j \in P
    <3>1. top \in Nat BY <1>0
    <3> QED BY <2>1, <2>2, <3>1, StepByStep
  <2>4. top \in P BY <1>0, <2>3
  <2> QED BY <1>0, <2>4 DEF P
<1>8. \E q \in Int : p * v[WIDTH] = p * v[top] + Power[WIDTH] * q
  <2> DEFINE P == {l \in 0 .. e : \E q \in Int : p * v[top + l] = p * v[top] + Power[WIDTH] * q}
  <2>1. 0 \in P
    <3>1. top + 0 = top /\ v[top] \in Nat /\ Power[WIDTH] \in Nat BY <1>0, <1>1, <1>2
    <3>2. p * v[top + 0] = p * v[top] + Power[WIDTH] * 0 BY <1>5, <3>1
    <3>3. 0 \in Int /\ 0 \in 0 .. e BY <1>0
    <3> QED BY <3>2, <3>3
  <2>2. ASSUME NEW l \in 0 .. e - 1, l \in P PROVE l + 1 \in P
    <3>1. /\ top + l \in Bits /\ (top + l) + 1 = top + (l + 1) /\ top + l \in 0 .. WIDTH
          /\ l + 1 \in 0 .. e /\ l \in 0 .. WIDTH - top /\ l \in 0 .. WIDTH
      BY <1>0 DEF Bits, top
    <3>2. PICK q \in Int : p * v[top + l] = p * v[top] + Power[WIDTH] * q BY <2>2
    <3> DEFINE d == IF top + l \in y THEN 1 ELSE 0
               m == Power[WIDTH]
               t == Power[l]
               more == Power[top + l]
    <3>3. v[top + (l + 1)] = v[top + l] + (IF top + l \in y THEN more ELSE 0)
      BY <1>1, <3>1
    <3>4. more = Power[top] * t BY <1>0, <3>1, PowersMultiply
    <3>5. m = p * Power[top] BY <1>0, <1>5
    <3>6. m \in Nat /\ t \in Nat /\ Power[top] \in Nat /\ v[top + l] \in Nat /\ v[top] \in Nat
      BY <1>0, <1>1, <1>2, <3>1
    <3>7. d \in Nat OBVIOUS
    <3>8. v[top + (l + 1)] = v[top + l] + more * d
      <4>1. more \in Nat /\ more * 1 = more /\ more * 0 = 0 BY <1>2, <3>1
      <4> HIDE DEF more
      <4> QED BY <3>3, <4>1
    <3> HIDE DEF d, m, t, more
    <3>9. p * (more * d) = m * (t * d)
      <4> DEFINE o == Power[top]
      <4>1. o \in Nat /\ more = o * t /\ m = p * o BY <3>4, <3>5, <3>6
      <4> HIDE DEF o
      <4>2. p * ((o * t) * d) = (p * o) * (t * d) BY <1>5, <3>6, <3>7, <4>1
      <4> QED BY <4>1, <4>2
    <3>10. more \in Nat BY <1>2, <3>1 DEF more
    <3>11. p * (v[top + l] + more * d) = p * v[top + l] + p * (more * d)
      BY <1>5, <3>6, <3>7, <3>10
    <3>12. t * d \in Int BY <3>6, <3>7
    <3>13. (p * v[top] + m * q) + m * (t * d) = p * v[top] + m * (q + t * d)
      BY <1>5, <3>6, <3>12
    <3>14. p * v[top + (l + 1)] = p * v[top] + Power[WIDTH] * (q + t * d)
      BY <3>2, <3>8, <3>9, <3>11, <3>13 DEF m
    <3>15. q + t * d \in Int BY <3>12
    <3> QED BY <3>1, <3>14, <3>15
  <2> HIDE DEF P
  <2>3. \A l \in 0 .. e : l \in P
    <3>1. e \in Nat BY <1>0
    <3> QED BY <2>1, <2>2, <3>1, StepByStep
  <2>4. e \in P /\ top + e = WIDTH BY <1>0, <2>3
  <2> QED BY <2>4 DEF P
<1> QED BY <1>1, <1>7, <1>8 DEF p, a, f

(***************************************************************************)
(* Times is the product modulo 2^WIDTH, whatever the width of the words.   *)
(***************************************************************************)
Terms(x, y) == [u \in Bits |-> Column(x, y)[u] * Power[u]]

LEMMA TermsType ==
  ASSUME NEW x \in Word, NEW y
  PROVE  \A u \in Bits : /\ Power[u] \in Nat /\ Column(x, y)[u] \in Nat
                         /\ Terms(x, y)[u] = Column(x, y)[u] * Power[u]
                         /\ Terms(x, y)[u] \in Int
<1>1. \A u \in Bits : u \in 0 .. WIDTH BY WordFacts DEF Bits
<1>2. \A u \in Bits : Power[u] \in Nat BY <1>1, PowerSteps
<1>3. \A u \in Bits : Column(x, y)[u] \in Nat BY ColumnType
<1>4. \A u \in Bits : Terms(x, y)[u] = Column(x, y)[u] * Power[u] BY DEF Terms
<1>5. \A u \in Bits : Column(x, y)[u] * Power[u] \in Int BY <1>2, <1>3
<1> QED BY <1>2, <1>3, <1>4, <1>5

LEMMA RowByRow ==
  ASSUME NEW s \in Word, NEW e \in s, NEW y \in Word
  PROVE  LET r == s \ {e} IN
         /\ NumberOf(s) = NumberOf(r) + Power[e]
         /\ Along(Terms(s, y))[WIDTH] = Along(Terms(r, y))[WIDTH] + Along(Row(e, y))[WIDTH]
<1> DEFINE r == s \ {e}
<1>0. e \in Bits /\ r \in Word /\ {e} \in Word /\ e \notin r /\ s = r \cup {e} BY DEF Word
<1>1. WIDTH \in 0 .. WIDTH BY WordFacts
<1>2. \A u \in Bits : Power[u] \in Nat BY <1>0, TermsType
<1> HIDE DEF r
<1>3. NumberOf(s) = NumberOf(r) + Power[e]
  <2>1. \A u \in Bits : /\ Digits(s)[u] = IF u \in s THEN Power[u] ELSE 0
                        /\ Digits(r)[u] = IF u \in r THEN Power[u] ELSE 0
                        /\ Digits({e})[u] = IF u = e THEN Power[u] ELSE 0
    BY DEF Digits
  <2>2. \A u \in Bits : /\ Digits(r)[u] \in Int /\ Digits({e})[u] \in Int
                        /\ Digits(s)[u] = Digits(r)[u] + Digits({e})[u]
    <3>1. ASSUME NEW u \in Bits
          PROVE  /\ Digits(r)[u] \in Int /\ Digits({e})[u] \in Int
                 /\ Digits(s)[u] = Digits(r)[u] + Digits({e})[u]
      <4>1. Power[u] \in Nat BY <1>2
      <4>2. CASE u = e
        <5>1. u \in s /\ u \notin r BY <1>0, <4>2
        <5>2. Digits(s)[u] = Power[u] /\ Digits(r)[u] = 0 /\ Digits({e})[u] = Power[u]
          BY <2>1, <4>2, <5>1
        <5> QED BY <4>1, <5>2
      <4>3. CASE u # e
        <5>1. u \in s <=> u \in r BY <1>0, <4>3
        <5>2. Digits(s)[u] = Digits(r)[u] /\ Digits({e})[u] = 0 BY <2>1, <4>3, <5>1
        <5>3. Digits(r)[u] \in Int BY <2>1, <4>1
        <5> QED BY <5>2, <5>3
      <4> QED BY <4>2, <4>3
    <3> QED BY <3>1
  <2> DEFINE f == Digits(s)
             g == Digits(r)
             h == Digits({e})
  <2>3. NumberOf(s) = Along(f)[WIDTH] /\ NumberOf(r) = Along(g)[WIDTH] /\ NumberOf({e}) = Along(h)[WIDTH]
    BY DEF NumberOf
  <2>4. \A u \in Bits : g[u] \in Int /\ h[u] \in Int /\ f[u] = g[u] + h[u] BY <2>2
  <2> HIDE DEF f, g, h
  <2>5. Along(f)[WIDTH] = Along(g)[WIDTH] + Along(h)[WIDTH] BY <1>1, <2>4, AlongAdds
  <2>6. NumberOf({e}) = Power[e] BY <1>0, ValueOfBit
  <2> QED BY <2>3, <2>5, <2>6
<1>4. ASSUME NEW u \in Bits
      PROVE  /\ Terms(r, y)[u] \in Int /\ Row(e, y)[u] \in Int
             /\ Terms(s, y)[u] = Terms(r, y)[u] + Row(e, y)[u]
  <2> DEFINE A == {b \in s : u - b \in y}
             B == {b \in r : u - b \in y}
  <2>1. /\ Column(s, y)[u] = Cardinality(A)
        /\ Column(r, y)[u] = Cardinality(B) /\ IsFiniteSet(B)
    BY <1>0, ColumnType
  <2>2. Terms(s, y)[u] = Column(s, y)[u] * Power[u] BY TermsType
  <2>3. /\ Terms(r, y)[u] = Column(r, y)[u] * Power[u] /\ Terms(r, y)[u] \in Int
        /\ Column(r, y)[u] \in Nat
    BY <1>0, TermsType
  <2>4. Row(e, y)[u] = IF u - e \in y THEN Power[u] ELSE 0 BY DEF Row
  <2>5. CASE u - e \in y
    <3>1. A = B \cup {e} /\ e \notin B BY <1>0, <2>5
    <3> HIDE DEF A, B
    <3>2. Cardinality(A) = Cardinality(B) + 1 BY <2>1, <3>1, FS_AddElement
    <3>3. (Column(r, y)[u] + 1) * Power[u] = Column(r, y)[u] * Power[u] + Power[u]
      BY <1>2, <2>3
    <3>4. Column(s, y)[u] = Column(r, y)[u] + 1 BY <2>1, <3>2
    <3>5. Terms(s, y)[u] = Terms(r, y)[u] + Power[u] BY <2>2, <2>3, <3>3, <3>4
    <3> QED BY <1>2, <2>3, <2>4, <2>5, <3>5
  <2>6. CASE u - e \notin y
    <3>1. A = B BY <1>0, <2>6
    <3>2. Terms(s, y)[u] = Terms(r, y)[u] BY <2>1, <2>2, <2>3, <3>1
    <3>3. Row(e, y)[u] = 0 BY <2>4, <2>6
    <3> QED BY <2>3, <3>2, <3>3
  <2> QED BY <2>5, <2>6
<1>5. Along(Terms(s, y))[WIDTH] = Along(Terms(r, y))[WIDTH] + Along(Row(e, y))[WIDTH]
  BY <1>1, <1>4, AlongAdds
<1> QED BY <1>3, <1>5 DEF r

LEMMA ManyRows ==
  ASSUME NEW y \in Word
  PROVE  \A x \in Word : \E q \in Int :
           NumberOf(x) * NumberOf(y) = Along(Terms(x, y))[WIDTH] + Power[WIDTH] * q
<1> DEFINE m == Power[WIDTH]
           vy == NumberOf(y)
           P == {s \in SUBSET Bits : \E q \in Int :
                   NumberOf(s) * vy = Along(Terms(s, y))[WIDTH] + m * q}
<1>0. m \in Nat /\ vy \in Nat /\ IsFiniteSet(Bits) /\ WIDTH \in 0 .. WIDTH
  BY WordFacts, ValueRange, FS_Interval DEF Bits
<1>1. {} \in P
  <2>1. \A u \in Bits : Digits({})[u] = 0 BY DEF Digits
  <2>2. NumberOf({}) = 0 BY <2>1, NothingAlong DEF NumberOf
  <2>3. \A u \in Bits : Terms({}, y)[u] = 0
    <3>1. {} \in Word BY DEF Word
    <3>2. \A u \in Bits : {b \in {} : u - b \in y} = {} OBVIOUS
    <3>3. \A u \in Bits : Column({}, y)[u] = 0
      <4>1. Cardinality({}) = 0 BY FS_EmptySet
      <4>2. \A u \in Bits : Column({}, y)[u] = Cardinality({b \in {} : u - b \in y})
        BY DEF Column
      <4> QED BY <3>2, <4>1, <4>2
    <3>4. \A u \in Bits : 0 * Power[u] = 0
      <4>1. \A u \in Bits : Power[u] \in Nat BY <3>1, TermsType
      <4>2. \A z \in Nat : 0 * z = 0 OBVIOUS
      <4> QED BY <4>1, <4>2
    <3> QED BY <3>1, <3>3, <3>4, TermsType
  <2>4. Along(Terms({}, y))[WIDTH] = 0 BY <2>3, NothingAlong
  <2> HIDE DEF m, vy
  <2>5. 0 * vy = 0 + m * 0 /\ 0 \in Int BY <1>0
  <2> QED BY <2>2, <2>4, <2>5
<1>2. ASSUME NEW s \in SUBSET Bits, s # {}, s \ {Some(s)} \in P PROVE s \in P
  <2> DEFINE e == Some(s)
             r == s \ {e}
             p == Power[e]
             sum0 == Along(Terms(r, y))[WIDTH]
             row == Along(Row(e, y))[WIDTH]
  <2>1. e \in s /\ e \in Bits /\ s \in Word /\ r \in Word BY <1>2, SomeIn DEF Word
  <2>2. NumberOf(s) = NumberOf(r) + p /\ Along(Terms(s, y))[WIDTH] = sum0 + row
    BY <2>1, RowByRow
  <2>3. PICK q \in Int : NumberOf(r) * vy = sum0 + m * q BY <1>2
  <2>4. PICK q2 \in Int : p * vy = row + m * q2 BY <2>1, RowShifts
  <2>5. /\ NumberOf(r) \in Nat /\ p \in Nat /\ sum0 \in Int /\ row \in Int
    <3>1. \A u \in Bits : Terms(r, y)[u] \in Int /\ Power[u] \in Nat BY <2>1, TermsType
    <3>2. \A u \in Bits : Row(e, y)[u] \in Int BY <3>1 DEF Row
    <3> QED BY <1>0, <2>1, <3>1, <3>2, AlongSteps, ValueRange
  <2> HIDE DEF m, vy, p, sum0, row
  <2>6. (NumberOf(r) + p) * vy = (sum0 + row) + m * (q + q2)
    <3>1. (NumberOf(r) + p) * vy = NumberOf(r) * vy + p * vy BY <1>0, <2>5
    <3>2. m * (q + q2) = m * q + m * q2 /\ m * q \in Int /\ m * q2 \in Int BY <1>0
    <3>3. (sum0 + m * q) + (row + m * q2) = (sum0 + row) + m * (q + q2) BY <2>5, <3>2
    <3> QED BY <2>3, <2>4, <3>1, <3>3
  <2>7. q + q2 \in Int OBVIOUS
  <2>8. NumberOf(s) * vy = Along(Terms(s, y))[WIDTH] + m * (q + q2) BY <2>2, <2>6
  <2> QED BY <2>7, <2>8
<1> HIDE DEF P
<1>3. \A s \in SUBSET Bits : s \in P BY <1>0, <1>1, <1>2, SumInduction
<1> QED BY <1>3 DEF P, Word, m, vy

(* Times is the product modulo 2^WIDTH of the numbers that two words stand *)
(* for, whatever WIDTH is: what the multiplications of hash_fnv1a and of   *)
(* hash_murmur3 compute, which wrap around (ex7_1_hash_quality.c:96, 133   *)
(* and 135).                                                               *)
THEOREM TimesMultiplies ==
  ASSUME NEW x \in Word, NEW y \in Word
  PROVE  /\ Times(x, y) \in Word /\ NumberOf(Times(x, y)) \in 0 .. Power[WIDTH] - 1
         /\ \E q \in Int : NumberOf(x) * NumberOf(y) = NumberOf(Times(x, y)) + Power[WIDTH] * q
<1> DEFINE m == Power[WIDTH]
           v == NumberOf(Times(x, y))
           xy == NumberOf(x) * NumberOf(y)
           sum0 == Along(Terms(x, y))[WIDTH]
<1>1. Times(x, y) \in Word BY DEF Times, Word
<1>2. v \in Nat /\ v < m /\ m \in Nat BY ValueRange
<1>3. PICK q \in Int : xy = sum0 + m * q BY ManyRows
<1>4. PICK carried \in Int : v + m * carried = sum0 BY CarriedOut DEF Terms
<1> HIDE DEF m, v, xy, sum0
<1>5. (v + m * carried) + m * q = v + m * (q + carried) BY <1>2
<1>6. q + carried \in Int OBVIOUS
<1>7. xy = v + m * (q + carried) BY <1>3, <1>4, <1>5
<1>8. v \in 0 .. m - 1 BY <1>2
<1> QED BY <1>1, <1>6, <1>7, <1>8 DEF m, v, xy

(* Two factors whose product leaves 1 undo each other.                     *)
LEMMA TimesUndone ==
  ASSUME NEW y \in Word, NEW z \in Word, NEW c \in Int,
         NumberOf(y) * NumberOf(z) = 1 + Power[WIDTH] * c
  PROVE  \A x \in Word : Times(Times(x, y), z) = x
<1> SUFFICES ASSUME NEW x \in Word PROVE Times(Times(x, y), z) = x OBVIOUS
<1> DEFINE m == Power[WIDTH]
           a == NumberOf(x)
           vy == NumberOf(y)
           vz == NumberOf(z)
           t == Times(x, y)
           b == NumberOf(t)
           d == NumberOf(Times(t, z))
<1>1. t \in Word /\ \E q \in Int : a * vy = b + m * q BY TimesMultiplies
<1>2. Times(t, z) \in Word /\ \E q \in Int : b * vz = d + m * q BY <1>1, TimesMultiplies
<1>3. PICK q \in Int : a * vy = b + m * q BY <1>1
<1>4. PICK q2 \in Int : b * vz = d + m * q2 BY <1>2
<1>5. /\ a \in Nat /\ vy \in Nat /\ vz \in Nat /\ b \in Nat /\ d \in Nat /\ m \in Nat
      /\ a < m /\ d < m
  BY ValueRange
<1>6. vy * vz = 1 + m * c OBVIOUS
<1> HIDE DEF m, a, vy, vz, b, d, t
<1>7. a + m * (a * c) = d + m * (q2 + q * vz)
  <2>1. a * (vy * vz) = (a * vy) * vz BY <1>5
  <2>2. a * (1 + m * c) = a + m * (a * c) BY <1>5
  <2>3. (b + m * q) * vz = b * vz + m * (q * vz) BY <1>5
  <2>4. q * vz \in Int BY <1>5
  <2>5. (d + m * q2) + m * (q * vz) = d + m * (q2 + q * vz) BY <1>5, <2>4
  <2> QED BY <1>3, <1>4, <1>6, <2>1, <2>2, <2>3, <2>5
<1> DEFINE l == a * c
           j == q2 + q * vz
<1>8. l \in Int /\ j \in Int BY <1>5
<1>9. a + m * l = d + m * j BY <1>7
<1> HIDE DEF l, j
<1>10. a - d = m * (j - l) BY <1>5, <1>8, <1>9
<1>11. a = d
  <2>1. j - l \in Int BY <1>8
  <2>2. CASE j - l >= 1
    <3>1. m * (j - l) >= m BY <1>5, <2>1, <2>2
    <3> QED BY <1>5, <1>10, <3>1
  <2>3. CASE j - l <= -1
    <3>1. m * (j - l) <= -m BY <1>5, <2>1, <2>3
    <3> QED BY <1>5, <1>10, <3>1
  <2>4. CASE j - l = 0 BY <1>5, <1>10, <2>4
  <2> QED BY <2>1, <2>2, <2>3, <2>4
<1> QED BY <1>1, <1>2, <1>11, ValuesTellApart DEF a, d, t

(***************************************************************************)
(* The literals of the hash functions, and what undoes a product with one. *)
(***************************************************************************)
LEMMA FourBits ==
  ASSUME NEW d \in 0 .. 15
  PROVE  d = ((d \div 1) % 2) + 2 * ((d \div 2) % 2) + 4 * ((d \div 4) % 2) + 8 * ((d \div 8) % 2)
OBVIOUS

LEMMA FourIndices ==
  ASSUME NEW dig \in 0 .. 7, NEW l \in 0 .. 3
  PROVE  4 * dig + l \in 0 .. 31 /\ (4 * dig + l) \div 4 = dig /\ (4 * dig + l) % 4 = l
OBVIOUS

LEMMA HexBits ==
  ASSUME NEW digits, NEW dig \in 0 .. 7, digits[8 - dig] \in Nat
  PROVE  LET d == digits[8 - dig] IN
         /\ 4 * dig \in Hex(digits) <=> (d \div 1) % 2 = 1
         /\ 4 * dig + 1 \in Hex(digits) <=> (d \div 2) % 2 = 1
         /\ 4 * dig + 2 \in Hex(digits) <=> (d \div 4) % 2 = 1
         /\ 4 * dig + 3 \in Hex(digits) <=> (d \div 8) % 2 = 1
<1>1. \A b \in 0 .. 31 : b \in Hex(digits) <=> (digits[8 - b \div 4] \div 2^(b % 4)) % 2 = 1
  BY DEF Hex
<1>2. 2^0 = 1 /\ 2^1 = 2 /\ 2^2 = 4 /\ 2^3 = 8 OBVIOUS
<1>3. ASSUME NEW l \in 0 .. 3
      PROVE  4 * dig + l \in Hex(digits) <=> (digits[8 - dig] \div 2^l) % 2 = 1
  <2>1. 4 * dig + l \in 0 .. 31 /\ (4 * dig + l) \div 4 = dig /\ (4 * dig + l) % 4 = l BY FourIndices
  <2> DEFINE b == 4 * dig + l
  <2>2. b \in Hex(digits) <=> (digits[8 - b \div 4] \div 2^(b % 4)) % 2 = 1 BY <1>1, <2>1
  <2> QED BY <2>1, <2>2
<1>4. 4 * dig + 0 = 4 * dig OBVIOUS
<1>5. 4 * dig \in Hex(digits) <=> (digits[8 - dig] \div 1) % 2 = 1 BY <1>2, <1>3, <1>4
<1>6. 4 * dig + 1 \in Hex(digits) <=> (digits[8 - dig] \div 2) % 2 = 1 BY <1>2, <1>3
<1>7. 4 * dig + 2 \in Hex(digits) <=> (digits[8 - dig] \div 4) % 2 = 1 BY <1>2, <1>3
<1>8. 4 * dig + 3 \in Hex(digits) <=> (digits[8 - dig] \div 8) % 2 = 1 BY <1>2, <1>3
<1> QED BY <1>5, <1>6, <1>7, <1>8

LEMMA HexNibble ==
  ASSUME WIDTH = 32, NEW digits, NEW dig \in 0 .. 7, digits[8 - dig] \in 0 .. 15
  PROVE  LET v == Along(Digits(Hex(digits))) IN
         /\ v[4 * dig + 4] = v[4 * dig] + Power[4 * dig] * digits[8 - dig]
         /\ Power[4 * dig + 4] = 16 * Power[4 * dig]
<1> DEFINE v == Along(Digits(Hex(digits)))
           d == digits[8 - dig]
           p == Power[4 * dig]
           u == 4 * dig
           d0 == (d \div 1) % 2
           d1 == (d \div 2) % 2
           d2 == (d \div 4) % 2
           d3 == (d \div 8) % 2
<1>1. /\ \A b \in Bits : v[b + 1] = v[b] + (IF b \in Hex(digits) THEN Power[b] ELSE 0)
      /\ v[u] \in Nat
  <2>1. u \in 0 .. WIDTH OBVIOUS
  <2> HIDE DEF u, v
  <2> QED BY <2>1, ValueSteps DEF v
<1>2. /\ u \in Bits /\ u + 1 \in Bits /\ u + 2 \in Bits /\ u + 3 \in Bits
      /\ (u + 1) + 1 = u + 2 /\ (u + 2) + 1 = u + 3 /\ (u + 3) + 1 = u + 4 /\ u \in 0 .. WIDTH
  BY DEF Bits
<1>3. d \in Nat /\ d \in 0 .. 15 OBVIOUS
<1>4. /\ u \in Hex(digits) <=> d0 = 1
      /\ u + 1 \in Hex(digits) <=> d1 = 1
      /\ u + 2 \in Hex(digits) <=> d2 = 1
      /\ u + 3 \in Hex(digits) <=> d3 = 1
  BY <1>3, HexBits
<1> HIDE DEF v, u, d
<1>5. d0 \in {0, 1} /\ d1 \in {0, 1} /\ d2 \in {0, 1} /\ d3 \in {0, 1} BY <1>3
<1>6. d = d0 + 2 * d1 + 4 * d2 + 8 * d3 BY <1>3, FourBits
<1> HIDE DEF d0, d1, d2, d3
<1>7. /\ p \in Nat /\ p = Power[u] /\ Power[u + 1] = 2 * p /\ Power[u + 2] = 4 * p
      /\ Power[u + 3] = 8 * p /\ Power[u + 4] = 16 * p
  <2>1. p \in Nat /\ p = Power[u] BY <1>2, PowerSteps DEF u
  <2>2. Power[u + 1] = 2 * Power[u] /\ Power[u + 2] = 2 * Power[u + 1] BY <1>2, PowerSteps
  <2>3. Power[u + 3] = 2 * Power[u + 2] /\ Power[u + 4] = 2 * Power[u + 3] BY <1>2, PowerSteps
  <2> HIDE DEF p
  <2> QED BY <2>1, <2>2, <2>3
<1> HIDE DEF p
<1>8. /\ v[u + 1] = v[u] + (IF d0 = 1 THEN p ELSE 0)
      /\ v[u + 2] = v[u + 1] + (IF d1 = 1 THEN 2 * p ELSE 0)
      /\ v[u + 3] = v[u + 2] + (IF d2 = 1 THEN 4 * p ELSE 0)
      /\ v[u + 4] = v[u + 3] + (IF d3 = 1 THEN 8 * p ELSE 0)
  BY <1>1, <1>2, <1>4, <1>7
<1>9. /\ (IF d0 = 1 THEN p ELSE 0) = p * d0
      /\ (IF d1 = 1 THEN 2 * p ELSE 0) = 2 * (p * d1)
      /\ (IF d2 = 1 THEN 4 * p ELSE 0) = 4 * (p * d2)
      /\ (IF d3 = 1 THEN 8 * p ELSE 0) = 8 * (p * d3)
  <2>1. p * 0 = 0 /\ p * 1 = p BY <1>7
  <2> QED BY <1>5, <1>7, <2>1
<1>10. p * d = p * d0 + 2 * (p * d1) + 4 * (p * d2) + 8 * (p * d3)
  <2>1. d0 \in Int /\ d1 \in Int /\ d2 \in Int /\ d3 \in Int BY <1>5
  <2> QED BY <1>6, <1>7, <2>1
<1> DEFINE e0 == p * d0  e1 == p * d1  e2 == p * d2  e3 == p * d3
<1>11. e0 \in Int /\ e1 \in Int /\ e2 \in Int /\ e3 \in Int
  <2>1. \A z \in {0, 1} : p * z \in Int BY <1>7
  <2> QED BY <1>5, <2>1
<1>12. /\ v[u + 1] = v[u] + e0 /\ v[u + 2] = v[u + 1] + 2 * e1
       /\ v[u + 3] = v[u + 2] + 4 * e2 /\ v[u + 4] = v[u + 3] + 8 * e3
       /\ p * d = e0 + 2 * e1 + 4 * e2 + 8 * e3
  BY <1>8, <1>9, <1>10
<1> HIDE DEF e0, e1, e2, e3
<1>13. v[u + 4] = v[u] + p * d BY <1>1, <1>11, <1>12
<1> QED BY <1>7, <1>13 DEF v, u, p, d

LEMMA HexValue ==
  ASSUME WIDTH = 32, NEW digits, \A dig \in 1 .. 8 : digits[dig] \in 0 .. 15
  PROVE  /\ Hex(digits) \in Word /\ Power[WIDTH] = 4294967296
         /\ NumberOf(Hex(digits))
              = digits[8] + 16 * digits[7] + 256 * digits[6] + 4096 * digits[5]
                + 65536 * digits[4] + 1048576 * digits[3] + 16777216 * digits[2]
                + 268435456 * digits[1]
<1> DEFINE v == Along(Digits(Hex(digits)))
<1>1. Hex(digits) \in Word BY DEF Hex, Word, Bits
<1>2. v[0] = 0 /\ v[32] = NumberOf(Hex(digits)) /\ Power[0] = 1 BY ValueSteps, PowerSteps
<1>3. ASSUME NEW dig \in 0 .. 7
      PROVE  /\ digits[8 - dig] \in 0 .. 15
             /\ v[4 * dig + 4] = v[4 * dig] + Power[4 * dig] * digits[8 - dig]
             /\ Power[4 * dig + 4] = 16 * Power[4 * dig]
  <2>1. 8 - dig \in 1 .. 8 OBVIOUS
  <2>2. digits[8 - dig] \in 0 .. 15 BY <2>1
  <2> HIDE DEF v
  <2> QED BY <2>2, HexNibble DEF v
<1> HIDE DEF v
<1>4. v[4] = digits[8] /\ Power[4] = 16 /\ digits[8] \in Nat
  <2>1. digits[8] \in 0 .. 15 /\ v[4] = v[0] + Power[0] * digits[8] /\ Power[4] = 16 * Power[0]
    BY <1>3, 0 \in 0 .. 7, 4 * 0 = 0, 0 + 4 = 4, 8 - 0 = 8
  <2> QED BY <1>2, <2>1
<1>5. v[8] = v[4] + 16 * digits[7] /\ Power[8] = 256 /\ digits[7] \in Nat
  <2>1. digits[7] \in 0 .. 15 /\ v[8] = v[4] + Power[4] * digits[7] /\ Power[8] = 16 * Power[4]
    BY <1>3, 1 \in 0 .. 7, 4 * 1 = 4, 4 + 4 = 8, 8 - 1 = 7
  <2> QED BY <1>4, <2>1
<1>6. v[12] = v[8] + 256 * digits[6] /\ Power[12] = 4096 /\ digits[6] \in Nat
  <2>1. digits[6] \in 0 .. 15 /\ v[12] = v[8] + Power[8] * digits[6] /\ Power[12] = 16 * Power[8]
    BY <1>3, 2 \in 0 .. 7, 4 * 2 = 8, 8 + 4 = 12, 8 - 2 = 6
  <2> QED BY <1>5, <2>1
<1>7. v[16] = v[12] + 4096 * digits[5] /\ Power[16] = 65536 /\ digits[5] \in Nat
  <2>1. digits[5] \in 0 .. 15 /\ v[16] = v[12] + Power[12] * digits[5] /\ Power[16] = 16 * Power[12]
    BY <1>3, 3 \in 0 .. 7, 4 * 3 = 12, 12 + 4 = 16, 8 - 3 = 5
  <2> QED BY <1>6, <2>1
<1>8. v[20] = v[16] + 65536 * digits[4] /\ Power[20] = 1048576 /\ digits[4] \in Nat
  <2>1. digits[4] \in 0 .. 15 /\ v[20] = v[16] + Power[16] * digits[4] /\ Power[20] = 16 * Power[16]
    BY <1>3, 4 \in 0 .. 7, 4 * 4 = 16, 16 + 4 = 20, 8 - 4 = 4
  <2> QED BY <1>7, <2>1
<1>9. v[24] = v[20] + 1048576 * digits[3] /\ Power[24] = 16777216 /\ digits[3] \in Nat
  <2>1. digits[3] \in 0 .. 15 /\ v[24] = v[20] + Power[20] * digits[3] /\ Power[24] = 16 * Power[20]
    BY <1>3, 5 \in 0 .. 7, 4 * 5 = 20, 20 + 4 = 24, 8 - 5 = 3
  <2> QED BY <1>8, <2>1, SMT
<1>10. v[28] = v[24] + 16777216 * digits[2] /\ Power[28] = 268435456 /\ digits[2] \in Nat
  <2>1. digits[2] \in 0 .. 15 /\ v[28] = v[24] + Power[24] * digits[2] /\ Power[28] = 16 * Power[24]
    BY <1>3, 6 \in 0 .. 7, 4 * 6 = 24, 24 + 4 = 28, 8 - 6 = 2
  <2> QED BY <1>9, <2>1, SMT
<1>11. v[32] = v[28] + 268435456 * digits[1] /\ Power[32] = 4294967296 /\ digits[1] \in Nat
  <2>1. digits[1] \in 0 .. 15 /\ v[32] = v[28] + Power[28] * digits[1] /\ Power[32] = 16 * Power[28]
    BY <1>3, 7 \in 0 .. 7, 4 * 7 = 28, 28 + 4 = 32, 8 - 7 = 1
  <2> QED BY <1>10, <2>1, SMT
<1>12. v[32] = digits[8] + 16 * digits[7] + 256 * digits[6] + 4096 * digits[5]
                + 65536 * digits[4] + 1048576 * digits[3] + 16777216 * digits[2]
                + 268435456 * digits[1]
  BY <1>4, <1>5, <1>6, <1>7, <1>8, <1>9, <1>10, <1>11, SMT
<1> QED BY <1>1, <1>2, <1>11, <1>12, SMT

FNV_INVERSE == Hex(<<3, 5, 9, 12, 4, 4, 9, 11>>)
INVERSE_1   == Hex(<<10, 5, 12, 11, 9, 2, 4, 3>>)
INVERSE_2   == Hex(<<7, 14, 13, 1, 11, 4, 1, 13>>)

LEMMA Literals ==
  ASSUME WIDTH = 32
  PROVE  /\ Power[WIDTH] = 4294967296 /\ FNV_OFFSET_BASIS \in Word
         /\ FNV_PRIME \in Word /\ NumberOf(FNV_PRIME) = 16777619
         /\ FNV_INVERSE \in Word /\ NumberOf(FNV_INVERSE) = 899433627
         /\ MIX_1 \in Word /\ NumberOf(MIX_1) = 2246822507
         /\ INVERSE_1 \in Word /\ NumberOf(INVERSE_1) = 2781581891
         /\ MIX_2 \in Word /\ NumberOf(MIX_2) = 3266489909
         /\ INVERSE_2 \in Word /\ NumberOf(INVERSE_2) = 2127672349
<1>1. FNV_OFFSET_BASIS \in Word /\ Power[WIDTH] = 4294967296
  <2> DEFINE d == <<8, 1, 1, 12, 9, 13, 12, 5>>
  <2>1. \A dig \in 1 .. 8 : d[dig] \in 0 .. 15 OBVIOUS
  <2> QED BY <2>1, HexValue, SMT DEF FNV_OFFSET_BASIS
<1>2. FNV_PRIME \in Word /\ NumberOf(FNV_PRIME) = 16777619
  <2> DEFINE d == <<0, 1, 0, 0, 0, 1, 9, 3>>
  <2>1. \A dig \in 1 .. 8 : d[dig] \in 0 .. 15 OBVIOUS
  <2> QED BY <2>1, HexValue, SMT DEF FNV_PRIME
<1>3. FNV_INVERSE \in Word /\ NumberOf(FNV_INVERSE) = 899433627
  <2> DEFINE d == <<3, 5, 9, 12, 4, 4, 9, 11>>
  <2>1. \A dig \in 1 .. 8 : d[dig] \in 0 .. 15 OBVIOUS
  <2> QED BY <2>1, HexValue, SMT DEF FNV_INVERSE
<1>4. MIX_1 \in Word /\ NumberOf(MIX_1) = 2246822507
  <2> DEFINE d == <<8, 5, 14, 11, 12, 10, 6, 11>>
  <2>1. \A dig \in 1 .. 8 : d[dig] \in 0 .. 15 OBVIOUS
  <2> QED BY <2>1, HexValue, SMT DEF MIX_1
<1>5. INVERSE_1 \in Word /\ NumberOf(INVERSE_1) = 2781581891
  <2> DEFINE d == <<10, 5, 12, 11, 9, 2, 4, 3>>
  <2>1. \A dig \in 1 .. 8 : d[dig] \in 0 .. 15 OBVIOUS
  <2> QED BY <2>1, HexValue, SMT DEF INVERSE_1
<1>6. MIX_2 \in Word /\ NumberOf(MIX_2) = 3266489909
  <2> DEFINE d == <<12, 2, 11, 2, 10, 14, 3, 5>>
  <2>1. \A dig \in 1 .. 8 : d[dig] \in 0 .. 15 OBVIOUS
  <2> QED BY <2>1, HexValue, SMT DEF MIX_2
<1>7. INVERSE_2 \in Word /\ NumberOf(INVERSE_2) = 2127672349
  <2> DEFINE d == <<7, 14, 13, 1, 11, 4, 1, 13>>
  <2>1. \A dig \in 1 .. 8 : d[dig] \in 0 .. 15 OBVIOUS
  <2> QED BY <2>1, HexValue, SMT DEF INVERSE_2
<1> QED BY <1>1, <1>2, <1>3, <1>4, <1>5, <1>6, <1>7

LEMMA InverseFactors ==
  ASSUME WIDTH = 32, NEW x \in Word
  PROVE  /\ Times(Times(x, FNV_PRIME), FNV_INVERSE) = x
         /\ Times(Times(x, MIX_1), INVERSE_1) = x
         /\ Times(Times(x, MIX_2), INVERSE_2) = x
<1>1. NumberOf(FNV_PRIME) * NumberOf(FNV_INVERSE) = 1 + Power[WIDTH] * 3513497
  <2>1. NumberOf(FNV_PRIME) = 16777619 /\ NumberOf(FNV_INVERSE) = 899433627 /\ Power[WIDTH] = 4294967296
    BY Literals, SMT
  <2>2. 16777619 * 899433627 = 1 + 4294967296 * 3513497 BY SMT
  <2> QED BY <2>1, <2>2, SMT
<1>2. NumberOf(MIX_1) * NumberOf(INVERSE_1) = 1 + Power[WIDTH] * 1455126516
  <2>1. NumberOf(MIX_1) = 2246822507 /\ NumberOf(INVERSE_1) = 2781581891 /\ Power[WIDTH] = 4294967296
    BY Literals, SMT
  <2>2. 2246822507 * 2781581891 = 1 + 4294967296 * 1455126516 BY SMT
  <2> QED BY <2>1, <2>2, SMT
<1>3. NumberOf(MIX_2) * NumberOf(INVERSE_2) = 1 + Power[WIDTH] * 1618177690
  <2>1. NumberOf(MIX_2) = 3266489909 /\ NumberOf(INVERSE_2) = 2127672349 /\ Power[WIDTH] = 4294967296
    BY Literals, SMT
  <2>2. 3266489909 * 2127672349 = 1 + 4294967296 * 1618177690 BY SMT
  <2> QED BY <2>1, <2>2, SMT
<1>4. /\ FNV_PRIME \in Word /\ FNV_INVERSE \in Word /\ MIX_1 \in Word /\ INVERSE_1 \in Word
      /\ MIX_2 \in Word /\ INVERSE_2 \in Word
  BY Literals
<1>5. 3513497 \in Int /\ 1455126516 \in Int /\ 1618177690 \in Int BY SMT
<1>6. Times(Times(x, FNV_PRIME), FNV_INVERSE) = x BY <1>1, <1>4, <1>5, TimesUndone, SMT
<1>7. Times(Times(x, MIX_1), INVERSE_1) = x BY <1>2, <1>4, <1>5, TimesUndone, SMT
<1>8. Times(Times(x, MIX_2), INVERSE_2) = x BY <1>3, <1>4, <1>5, TimesUndone, SMT
<1> QED BY <1>6, <1>7, <1>8

(***************************************************************************)
(* MixLosesNothing, for the width of a uint32_t.                           *)
(***************************************************************************)
LEMMA XorTwice == \A x, y : Xor(Xor(x, y), y) = x
BY DEF Xor

LEMMA FnvUndone ==
  ASSUME WIDTH = 32, NEW h \in Word, NEW c
  PROVE  FnvUndo(c, FnvStep(h, c)) = h
<1>1. Xor(h, ToWord(c)) \in Word BY WordsStay
<1>2. Times(Times(Xor(h, ToWord(c)), FNV_PRIME), FNV_INVERSE) = Xor(h, ToWord(c))
  BY <1>1, InverseFactors
<1> QED BY <1>2, XorTwice DEF FnvUndo, FnvStep, FNV_INVERSE

LEMMA FnvLosesNothing ==
  ASSUME WIDTH = 32, NEW letters \in Seq(Nat)
  PROVE  FoldRight(FnvUndo, letters, hash_fnv1a(letters)) = FNV_OFFSET_BASIS
<1> DEFINE len == Len(letters)
<1>0. len \in Nat /\ FNV_OFFSET_BASIS \in Word BY Literals
<1>1. PICK v : /\ v[0] = FNV_OFFSET_BASIS /\ \A m \in 0 .. len : v[m] \in Word
               /\ \A m \in 1 .. len : v[m] = FnvStep(v[m - 1], letters[m])
               /\ hash_fnv1a(letters) = v[len]
  BY <1>0, FnvAlong
<1>2. v[len] \in Word BY <1>0, <1>1
<1>3. PICK z : /\ z[len] = v[len] /\ \A m \in 1 .. len : z[m - 1] = FnvUndo(letters[m], z[m])
               /\ FoldRight(FnvUndo, letters, v[len]) = z[0]
  BY <1>2, UndoAlong
<1> HIDE DEF len
<1> DEFINE P == {w \in 0 .. len : z[len - w] = v[len - w]}
<1>4. 0 \in P BY <1>0, <1>3
<1>5. ASSUME NEW w \in 0 .. len - 1, w \in P PROVE w + 1 \in P
  <2> DEFINE m == len - w
  <2>1. /\ m \in 1 .. len /\ m - 1 \in 0 .. len /\ m - 1 = len - (w + 1) /\ w + 1 \in 0 .. len
    BY <1>0
  <2>2. z[m] = v[m] BY <1>5
  <2> HIDE DEF m
  <2>3. z[m - 1] = FnvUndo(letters[m], FnvStep(v[m - 1], letters[m])) BY <1>1, <1>3, <2>1, <2>2
  <2>4. z[m - 1] = v[m - 1] BY <1>1, <2>1, <2>3, FnvUndone
  <2> QED BY <2>1, <2>4
<1> HIDE DEF P
<1>6. \A w \in 0 .. len : w \in P BY <1>0, <1>4, <1>5, StepByStep
<1>7. z[0] = v[0]
  <2>1. len \in P /\ len - len = 0 BY <1>0, <1>6
  <2> QED BY <2>1 DEF P
<1> QED BY <1>1, <1>3, <1>7

LEMMA XorShrUndone ==
  ASSUME WIDTH = 32, NEW h \in Word, NEW s \in {13, 16}
  PROVE  UndoXorShr(Xor(h, Shr(h, s)), s) = h
<1> DEFINE x == Xor(h, Shr(h, s))
           x1 == Xor(x, Shr(x, s))
           u == Xor(x1, Shr(x1, 2 * s))
<1>1. \A b \in Bits : \A j \in Nat : (b + j \in h => b + j \in Bits) BY DEF Word
<1>2. x \in SUBSET Bits /\ x1 \in SUBSET Bits /\ u \in SUBSET Bits /\ h \in SUBSET Bits
  BY DEF Word, Xor, Shr
<1>3. ASSUME NEW b \in Bits PROVE b \in u <=> b \in h
  <2>1. \A j \in Bits : j \in x <=> (j \in h <=> j + s \notin h)
    <3>1. \A j \in Bits : j \in x <=> (j \in h <=> ~ (j \in Shr(h, s))) BY DEF Xor
    <3> QED BY <3>1 DEF Shr
  <2>2. \A j \in Bits : j \in x1 <=> (j \in x <=> j + s \notin x) BY DEF Xor, Shr
  <2>3. \A j \in Bits : j \in u <=> (j \in x1 <=> j + 2 * s \notin x1) BY DEF Xor, Shr
  <2>4. \A j \in Nat : j > 31 => j \notin h /\ j \notin x /\ j \notin x1 BY <1>2 DEF Bits
  <2> HIDE DEF x, x1, u
  <2>5. \A j \in Bits : j \in x1 <=> (j \in h <=> j + 2 * s \notin h)
    <3> SUFFICES ASSUME NEW j \in Bits PROVE j \in x1 <=> (j \in h <=> j + 2 * s \notin h) OBVIOUS
    <3>1. j \in Nat /\ (j + s) + s = j + 2 * s /\ j + s \in Nat BY DEF Bits
    <3>2. CASE j + s \in Bits BY <2>1, <2>2, <3>1, <3>2
    <3>3. CASE j + s \notin Bits
      <4>1. j + s > 31 /\ j + 2 * s > 31 BY <3>3 DEF Bits
      <4>2. j + s \notin x /\ j + s \notin h /\ j + 2 * s \notin h BY <2>4, <3>1, <4>1
      <4>3. (j \in x <=> (j \in h <=> j + s \notin h)) /\ (j \in x1 <=> (j \in x <=> j + s \notin x))
        BY <2>1, <2>2
      <4>4. (j \in x1 <=> j \in x) /\ (j \in x <=> j \in h) BY <4>2, <4>3
      <4>5. (j \in h <=> j + 2 * s \notin h) <=> j \in h BY <4>2
      <4> QED BY <4>4, <4>5
    <3> QED BY <3>2, <3>3
  <2>6. b + 2 * s \in x1 <=> b + 2 * s \in h
    <3> DEFINE c == b + 2 * s
    <3>1. c \in Nat /\ c + 2 * s \in Nat /\ c + 2 * s > 31 BY DEF Bits
    <3> HIDE DEF c
    <3>2. c + 2 * s \notin h BY <2>4, <3>1
    <3>3. c \in Bits => (c \in x1 <=> c \in h) BY <2>5, <3>2
    <3>4. c \notin Bits => c \notin x1 /\ c \notin h
      <4>1. c \notin Bits => c > 31 BY <3>1 DEF Bits
      <4> QED BY <2>4, <3>1, <4>1
    <3> QED BY <3>3, <3>4 DEF c
  <2> QED BY <2>3, <2>5, <2>6
<1>4. u = h BY <1>2, <1>3
<1> QED BY <1>4 DEF UndoXorShr

LEMMA FinaliserUndone ==
  ASSUME WIDTH = 32, NEW h \in Word
  PROVE  Unfinalise(Finalise(h)) = h
<1> DEFINE a == Xor(h, Shr(h, 16))
           b == Times(a, MIX_1)
           c == Xor(b, Shr(b, 13))
           d == Times(c, MIX_2)
           x == Xor(d, Shr(d, 16))
<1>1. /\ 13 \in Nat /\ 16 \in Nat /\ a \in Word /\ b \in Word /\ c \in Word /\ d \in Word
      /\ x \in Word
  <2>1. a \in Word BY ShiftsAreWords
  <2>2. b \in Word /\ d \in Word BY DEF Times, Word
  <2> HIDE DEF b, d
  <2>3. c \in Word /\ x \in Word BY <2>2, ShiftsAreWords
  <2> QED BY <2>1, <2>2, <2>3
<1>2. UndoXorShr(a, 16) = h BY XorShrUndone
<1> HIDE DEF a
<1>3. Times(b, INVERSE_1) = a BY <1>1, InverseFactors
<1> HIDE DEF b
<1>4. UndoXorShr(c, 13) = b BY <1>1, XorShrUndone
<1> HIDE DEF c
<1>5. Times(d, INVERSE_2) = c BY <1>1, InverseFactors
<1> HIDE DEF d
<1>6. UndoXorShr(x, 16) = d BY <1>1, XorShrUndone
<1>7. Finalise(h) = x BY DEF Finalise, a, b, c, d
<1> HIDE DEF x
<1>8. Unfinalise(x) = UndoXorShr(Times(UndoXorShr(Times(UndoXorShr(x, 16), INVERSE_2), 13), INVERSE_1), 16)
  BY DEF Unfinalise, INVERSE_1, INVERSE_2
<1> QED BY <1>2, <1>3, <1>4, <1>5, <1>6, <1>7, <1>8

LEMMA MurmurLosesNothing ==
  ASSUME WIDTH = 32, NEW letters
  PROVE  Unfinalise(hash_murmur3(letters)) = ToWord(Premix(letters))
<1>1. ToWord(Premix(letters)) \in Word BY DEF ToWord, Word, Bits
<1> QED BY <1>1, FinaliserUndone DEF hash_murmur3

(* Letters weigh more the later they come. *)
LEMMA PremixAlong ==
  ASSUME NEW letters \in Seq(Nat)
  PROVE  \E v : /\ v[0] = 0 /\ Premix(letters) = v[Len(letters)]
                /\ \A m \in 1 .. Len(letters) : v[m] = v[m - 1] + letters[m] * m
<1> DEFINE f == [m \in DOMAIN letters |-> letters[m] * m]
           len == Len(letters)
<1>1. /\ len \in Nat /\ DOMAIN f = 1 .. len
      /\ \A m \in 1 .. len : f[m] = letters[m] * m /\ f[m] \in Int
  <2>1. \A m \in 1 .. len : letters[m] \in Nat /\ m \in Nat OBVIOUS
  <2>2. \A m \in 1 .. len : letters[m] * m \in Int BY <2>1
  <2> QED BY <2>2
<1>2. Premix(letters) = FoldLeft(+, 0, f) BY DEF Premix
<1> HIDE DEF f, len
<1>3. PICK v : /\ v[0] = 0 /\ \A m \in 1 .. len : v[m] = v[m - 1] + f[m]
               /\ FoldLeft(+, 0, f) = v[len]
  BY <1>1, SumAlong
<1> QED BY <1>1, <1>2, <1>3 DEF len

LEMMA SameSum ==
  ASSUME NEW x \in Int, NEW a \in Int, NEW b \in Int, NEW c \in Int, NEW d \in Int, a + b = c + d
  PROVE  (x + a) + b = (x + c) + d
OBVIOUS

LEMMA PremixTellsOrder ==
  ASSUME NEW letters \in Seq(Nat), NEW p \in 1 .. Len(letters) - 1, letters[p] # letters[p + 1]
  PROVE  Premix(SwapNeighbours(letters, p)) # Premix(letters)
<1> DEFINE len == Len(letters)
           other == SwapNeighbours(letters, p)
           a == letters[p]
           b == letters[p + 1]
<1>0. /\ len \in Nat /\ p \in 1 .. len /\ p + 1 \in 1 .. len /\ a \in Nat /\ b \in Nat
      /\ \A m \in 1 .. len : letters[m] \in Nat
  OBVIOUS
<1>1. /\ other \in Seq(Nat) /\ Len(other) = len /\ other[p] = b /\ other[p + 1] = a
      /\ \A m \in 1 .. len : m # p /\ m # p + 1 => other[m] = letters[m]
  <2> DEFINE once == [letters EXCEPT ![p] = b]
  <2>1. other = [once EXCEPT ![p + 1] = a] BY DEF SwapNeighbours
  <2>2. /\ once \in Seq(Nat) /\ Len(once) = len /\ once[p] = b
        /\ \A m \in 1 .. len : m # p => once[m] = letters[m]
    <3> HIDE DEF a, b
    <3> QED BY <1>0
  <2> HIDE DEF other, once, a, b, len
  <2>3. other \in Seq(Nat) /\ Len(other) = len /\ \A m \in 1 .. len :
          other[m] = IF m = p + 1 THEN a ELSE once[m]
    BY <1>0, <2>1, <2>2
  <2>4. p # p + 1 BY <1>0
  <2> QED BY <1>0, <2>2, <2>3, <2>4
<1>2. PICK v : /\ v[0] = 0 /\ Premix(letters) = v[len]
               /\ \A m \in 1 .. len : v[m] = v[m - 1] + letters[m] * m
  BY PremixAlong
<1>3. PICK z : /\ z[0] = 0 /\ Premix(other) = z[len]
               /\ \A m \in 1 .. len : z[m] = z[m - 1] + other[m] * m
  <2> HIDE DEF other, len
  <2> QED BY <1>1, PremixAlong
<1>4. a # b /\ a = letters[p] /\ b = letters[p + 1] OBVIOUS
<1> HIDE DEF other, a, b, len
<1> DEFINE t == [m \in 1 .. len |-> letters[m] * m]
           t2 == [m \in 1 .. len |-> other[m] * m]
           d == (b - a) * p
           more == [w \in 0 .. len |-> IF w < p THEN 0 ELSE IF w = p THEN d ELSE a - b]
<1>5. \A m \in 1 .. len : t[m] \in Int /\ v[m] = v[m - 1] + t[m] /\ z[m] = z[m - 1] + t2[m]
  <2>1. \A m \in 1 .. len : letters[m] * m \in Int
    <3>1. \A i0, j0 \in Nat : i0 * j0 \in Int OBVIOUS
    <3>2. \A m \in 1 .. len : m \in Nat OBVIOUS
    <3> QED BY <1>0, <3>1, <3>2
  <2> QED BY <1>2, <1>3, <2>1
<1>6. d \in Int /\ t2[p] = t[p] + d /\ d + t2[p + 1] = t[p + 1] + (a - b)
  <2>1. /\ t[p] = a * p /\ t2[p] = b * p /\ t[p + 1] = b * (p + 1)
        /\ t2[p + 1] = a * (p + 1)
    BY <1>0, <1>1, <1>4
  <2> HIDE DEF t, t2
  <2>2. b * p = a * p + (b - a) * p /\ (b - a) * p \in Int BY <1>0
  <2>3. (b - a) * p + a * (p + 1) = b * (p + 1) + (a - b) BY <1>0
  <2> QED BY <2>1, <2>2, <2>3
<1>7. \A m \in 1 .. len : m # p /\ m # p + 1 => t2[m] = t[m] BY <1>1
<1> HIDE DEF t, t2, d
<1>8. \A w \in 0 .. len : /\ w < p => more[w] = 0
                          /\ w = p => more[w] = d
                          /\ w > p => more[w] = a - b
  <2>1. \A w \in 0 .. len : more[w] = IF w < p THEN 0 ELSE IF w = p THEN d ELSE a - b
    OBVIOUS
  <2> HIDE DEF more
  <2>2. \A w \in 0 .. len : w \in Int /\ p \in Int BY <1>0
  <2>3. ASSUME NEW w \in 0 .. len
        PROVE  /\ w < p => more[w] = 0
               /\ w = p => more[w] = d
               /\ w > p => more[w] = a - b
    <3>1. (w = p => ~ (w < p)) /\ (w > p => ~ (w < p) /\ w # p) BY <2>2
    <3> QED BY <2>1, <3>1
  <2> QED BY <2>3
<1> HIDE DEF more
<1> DEFINE P == {w \in 0 .. len : v[w] \in Int /\ z[w] = v[w] + more[w]}
<1>9. 0 \in P
  <2>1. more[0] = 0 /\ 0 \in 0 .. len BY <1>0, <1>8
  <2> QED BY <1>2, <1>3, <2>1
<1>10. ASSUME NEW w \in 0 .. len - 1, w \in P PROVE w + 1 \in P
  <2>1. w + 1 \in 1 .. len /\ (w + 1) - 1 = w /\ w + 1 \in 0 .. len /\ w \in 0 .. len BY <1>0
  <2>2. /\ v[w + 1] = v[w] + t[w + 1] /\ v[w] \in Int /\ t[w + 1] \in Int
        /\ z[w + 1] = z[w] + t2[w + 1] /\ z[w] = v[w] + more[w]
    BY <1>5, <1>10, <2>1
  <2>3. more[w] + t2[w + 1] = t[w + 1] + more[w + 1] /\ more[w] \in Int /\ t2[w + 1] \in Int
    <3>1. CASE w + 1 < p
      <4>1. more[w] = 0 /\ more[w + 1] = 0 /\ t2[w + 1] = t[w + 1]
        BY <1>0, <1>7, <1>8, <2>1, <3>1
      <4> QED BY <2>2, <4>1
    <3>2. CASE w + 1 = p
      <4>1. more[w] = 0 /\ more[w + 1] = d BY <1>0, <1>8, <2>1, <3>2
      <4>2. t2[w + 1] = t[w + 1] + d BY <1>6, <3>2
      <4> QED BY <1>6, <2>2, <4>1, <4>2
    <3>3. CASE w = p
      <4>1. more[w] = d /\ more[w + 1] = a - b BY <1>0, <1>8, <2>1, <3>3
      <4>2. d + t2[w + 1] = t[w + 1] + (a - b) BY <1>6, <3>3
      <4>3. t2[w + 1] \in Int
        <5>1. t2[w + 1] = other[w + 1] * (w + 1) /\ other[w + 1] = a BY <1>1, <2>1, <3>3 DEF t2
        <5>2. a * (w + 1) \in Int BY <1>0
        <5> QED BY <5>1, <5>2
      <4> QED BY <1>6, <4>1, <4>2, <4>3
    <3>4. CASE w > p
      <4>1. more[w] = a - b /\ more[w + 1] = a - b /\ t2[w + 1] = t[w + 1]
        BY <1>0, <1>7, <1>8, <2>1, <3>4
      <4> QED BY <1>0, <2>2, <4>1
    <3> QED BY <1>0, <3>1, <3>2, <3>3, <3>4
  <2>4. v[w + 1] \in Int /\ z[w + 1] = v[w + 1] + more[w + 1]
    <3>1. more[w + 1] \in Int BY <1>0, <1>6, <1>8, <2>1
    <3>2. (v[w] + more[w]) + t2[w + 1] = (v[w] + t[w + 1]) + more[w + 1]
      <4> DEFINE x1 == v[w]  a1 == more[w]  b1 == t2[w + 1]  c1 == t[w + 1]  d1 == more[w + 1]
      <4>1. /\ x1 \in Int /\ a1 \in Int /\ b1 \in Int /\ c1 \in Int /\ d1 \in Int
            /\ a1 + b1 = c1 + d1
        BY <2>2, <2>3, <3>1
      <4> HIDE DEF x1, a1, b1, c1, d1
      <4>2. (x1 + a1) + b1 = (x1 + c1) + d1 BY <4>1, SameSum
      <4> QED BY <4>2 DEF x1, a1, b1, c1, d1
    <3>3. v[w] + t[w + 1] \in Int BY <2>2
    <3> QED BY <2>2, <3>2, <3>3
  <2> QED BY <2>1, <2>4
<1> HIDE DEF P
<1>11. len \in P
  <2>1. \A w \in 0 .. len : w \in P BY <1>0, <1>9, <1>10, StepByStep
  <2> QED BY <1>0, <2>1
<1>12. v[len] \in Int /\ z[len] = v[len] + (a - b)
  <2>1. more[len] = a - b BY <1>0, <1>8
  <2> QED BY <1>11, <2>1 DEF P
<1>13. v[len] + (a - b) # v[len]
  <2>1. a - b \in Int /\ a - b # 0 BY <1>0, <1>4
  <2>2. \A x, y \in Int : y # 0 => x + y # x OBVIOUS
  <2> QED BY <1>12, <2>1, <2>2
<1>14. Premix(other) # Premix(letters) BY <1>2, <1>3, <1>12, <1>13
<1> QED BY <1>14 DEF other

KeysInv == hash_keys \in [0 .. NUM_KEYS - 1 -> Seq(Nat)]

LEMMA KeysStep == KeysInv /\ [HashNext]_hashVars => KeysInv'
<1> SUFFICES ASSUME KeysInv, [HashNext]_hashVars PROVE KeysInv' OBVIOUS
<1>1. CASE SetupLetter
  <2>1. PICK letter : letter = 97 + Rem(state', 26) OBVIOUS
  <2>2. 26 \in Nat \ {0} OBVIOUS
  <2>3. letter \in Nat BY <2>1, <2>2, RemFacts
  <2>4. hash_keys' = [hash_keys EXCEPT ![key_i] = Append(@, letter)]
    BY <1>1, <2>1 DEF SetupLetter
  <2>5. \A s \in Seq(Nat) : Append(s, letter) \in Seq(Nat) BY <2>3
  <2> QED BY <2>4, <2>5 DEF KeysInv
<1>2. CASE UNCHANGED hash_keys BY <1>2 DEF KeysInv
<1> QED BY <1>1, <1>2 DEF HashNext, SetupKeyEnds, KeysDone, CountKey, VarianceReturns, hashVars

(* No mixing step of the hash functions loses what it was given: from the  *)
(* hash and the letters, hash_fnv1a (ex7_1_hash_quality.c:89-100) can be   *)
(* traced back to where it started, the finaliser of hash_murmur3 (131-    *)
(* 136) back to the sum, and that sum (124-129) changes when two different *)
(* neighbours change places.  uint32_t has 32 bits: the literals whose     *)
(* multiplications are undone are those of this width.                     *)
THEOREM NothingLostInMixing ==
  ASSUME WIDTH = 32
  PROVE  HashSpec => []MixLosesNothing
<1>1. HashInit => KeysInv BY DEF HashInit, KeysInv
<1>2. KeysInv => MixLosesNothing
  <2> SUFFICES ASSUME KeysInv, NEW m \in DOMAIN hash_keys
               PROVE  LET letters == hash_keys[m] IN
                      /\ FoldRight(FnvUndo, letters, hash_fnv1a(letters)) = FNV_OFFSET_BASIS
                      /\ Unfinalise(hash_murmur3(letters)) = ToWord(Premix(letters))
                      /\ \A p \in 1 .. Len(letters) - 1 :
                           letters[p] # letters[p + 1]
                             => Premix(SwapNeighbours(letters, p)) # Premix(letters)
    BY DEF MixLosesNothing
  <2> DEFINE letters == hash_keys[m]
  <2>1. letters \in Seq(Nat) BY DEF KeysInv
  <2> HIDE DEF letters
  <2>2. PICK key0 : key0 = letters OBVIOUS
  <2>3. key0 \in Seq(Nat) BY <2>1, <2>2
  <2>4. FoldRight(FnvUndo, key0, hash_fnv1a(key0)) = FNV_OFFSET_BASIS BY <2>3, FnvLosesNothing
  <2>5. Unfinalise(hash_murmur3(key0)) = ToWord(Premix(key0)) BY MurmurLosesNothing
  <2>6. \A p \in 1 .. Len(key0) - 1 :
          key0[p] # key0[p + 1] => Premix(SwapNeighbours(key0, p)) # Premix(key0)
    BY <2>3, PremixTellsOrder
  <2> QED BY <2>2, <2>4, <2>5, <2>6 DEF letters
<1> QED BY <1>1, <1>2, KeysStep, PTL DEF HashSpec
=============================================================================
