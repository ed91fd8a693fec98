----------------------------- MODULE RingBuffer ----------------------------
(***************************************************************************)
(* The ring buffer of solutions/ch06/ex6_1_ring_buffer.c under any         *)
(* sequence of calls: head and tail are uint32_t counters that wrap at     *)
(* MOD and are masked to a slot only when data[] is accessed.              *)
(***************************************************************************)
EXTENDS Integers, Sequences

CONSTANTS
  CAP,      \* number of slots
  MOD,      \* what the counters wrap at: 2^32 in the code
  Value,    \* what is enqueued
  NoValue   \* the content of out before the first dequeue

ASSUME RingAssumption ==
  /\ CAP \in Nat \ {0}
  /\ MOD \in Nat /\ \E k \in 2 .. MOD : MOD = CAP * k  \* powers of two, CAP < 2^32
  /\ Value # {} /\ NoValue \notin Value

VARIABLES
  head, tail, data,  \* rb
  out,               \* *val of the last successful rb_dequeue
  count              \* successful enqueues minus dequeues (history)

vars == <<head, tail, data, out, count>>

Slots    == 0 .. CAP - 1
Counters == 0 .. MOD - 1

(* counter & MASK *)
Slot(n) == n % CAP

(* (uint32_t)(r->tail - r->head) *)
Outstanding == (tail - head) % MOD

Init ==
  /\ head = 0 /\ tail = 0
  /\ data = [s \in Slots |-> CHOOSE v \in Value : TRUE]
  /\ out = NoValue
  /\ count = 0

(* rb_enqueue returns 0 when IsFull and stores the value otherwise.        *)
IsFullUnwrapped == tail - head = CAP     \* faulty: no cast to uint32_t
IsFull == Outstanding = CAP

rb_enqueue(v) ==
  /\ ~ IsFull
  /\ data' = [data EXCEPT ![Slot(tail)] = v]
  /\ tail' = (tail + 1) % MOD
  /\ count' = count + 1
  /\ UNCHANGED <<head, out>>

(* rb_dequeue returns 0 when IsEmpty and the oldest value otherwise.       *)
IsEmptyEarly == Outstanding <= 1         \* faulty: one slot wasted
IsEmpty == head = tail

rb_dequeueLate ==                        \* faulty: reads after head++
  /\ ~ IsEmpty
  /\ out' = data[Slot((head + 1) % MOD)]
  /\ head' = (head + 1) % MOD
  /\ count' = count - 1
  /\ UNCHANGED <<tail, data>>

rb_dequeue ==
  /\ ~ IsEmpty
  /\ out' = data[Slot(head)]
  /\ head' = (head + 1) % MOD
  /\ count' = count - 1
  /\ UNCHANGED <<tail, data>>

(* A call that is refused returns 0 and changes nothing.                   *)
Refused == (IsFull \/ IsEmpty) /\ UNCHANGED vars

(* The first statement of workload.                                        *)
Reset ==
  /\ head' = 0 /\ tail' = 0 /\ count' = 0 /\ out' = NoValue
  /\ UNCHANGED data

Next == (\E v \in Value : rb_enqueue(v)) \/ rb_dequeue \/ Refused \/ Reset

Spec == Init /\ [][Next]_vars

(***************************************************************************)
(* Properties.                                                             *)
(***************************************************************************)

(* The counters keep the range of a uint32_t, the slots hold values.       *)
TypeOK ==
  /\ head \in Counters /\ tail \in Counters
  /\ data \in [Slots -> Value]
  /\ out \in Value \cup {NoValue}
  /\ count \in 0 .. CAP

(* "the comparison still works correctly even after a 32-bit overflow"     *)
(* (lines 46-51): the wrapped difference is the true number of items, so   *)
(* full and empty are reported exactly when they are the case.             *)
CountsAreExact ==
  Outstanding = count /\ (IsFull <=> count = CAP) /\ (IsEmpty <=> count = 0)

(* The ring as the abstract queue.                                         *)
Contents == [k \in 1 .. Outstanding |-> data[Slot((head + k - 1) % MOD)]]

Queue == INSTANCE FIFOQueue WITH Capacity <- CAP, items <- Contents

(* rb_enqueue and rb_dequeue implement the bounded queue (lines 56-87),    *)
(* across the wrap of the counters.                                        *)
ImplementsFIFO == Queue!Spec
=============================================================================
