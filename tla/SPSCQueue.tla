----------------------------- MODULE SPSCQueue -----------------------------
(***************************************************************************)
(* The lock-free single-producer single-consumer ring of                   *)
(* solutions/ch13/ex13_1_lockfree_queue.c, with the program that drives    *)
(* it: run_lockfree resets the indices, creates the two threads and joins  *)
(* them, RUNS times.                                                       *)
(*                                                                         *)
(* One action per memory access.  The C11 memory model is in the reads: an *)
(* acquire load of the other thread's index returns ANY value of its       *)
(* modification order not older than the last one this thread saw, and a   *)
(* load of the thread's own index returns its last store (coherence).      *)
(* Happens-before is counted: made[t] numbers the data[] accesses of t, a  *)
(* release store attaches made[t] to the value it stores, and an acquire   *)
(* load adds what the value carries to knows[t], the accesses of the other *)
(* thread ordered before t's next step.                                    *)
(***************************************************************************)
EXTENDS Integers, Sequences

CONSTANTS
  CAP,        \* QUEUE_CAP
  MSG_COUNT,  \* messages sent in a run
  RUNS        \* calls of run_lockfree that BENCH_RUN makes

ASSUME SPSCAssumption ==
  CAP \in Nat \ {0} /\ MSG_COUNT \in Nat \ {0} /\ RUNS \in Nat \ {0}

VARIABLES
  head, tail,  \* lf_queue.head, lf_queue.tail: the last value stored
  data,        \* lf_queue.data
  pc,          \* where main and the two threads are
  run,         \* finished calls of run_lockfree
  i,           \* the loop counters of lf_producer and lf_consumer
  own,         \* the local copy of the thread's own index (lines 67, 92)
  seen,        \* the last value the thread loaded of the other's index
  val,         \* the consumer's local v
  received,    \* the values the consumer took in this run (history)
  made, last, view, knows  \* happens-before between the two threads

queueVars == <<head, tail, data>>
localVars == <<i, own, seen, val, received>>
hbVars    == <<made, last, view, knows>>
vars      == <<queueVars, pc, run, localVars, hbVars>>

Workers == {"prod", "cons"}
Slots   == 0 .. CAP - 1
Msg     == 0 .. MSG_COUNT - 1
Counts  == 0 .. MSG_COUNT

Labels  ==
  {"reset_head", "reset_tail", "create_prod", "create_cons", "join_prod", "join_cons",
   "idle", "load_own", "load_other", "access", "publish", "done"}

Other(t) == IF t = "prod" THEN "cons" ELSE "prod"

(* tail & MASK: QUEUE_CAP is a power of two. *)
Slot(n) == n % CAP

Goto(t, label) == pc' = [pc EXCEPT ![t] = label]

(***************************************************************************)
(* Happens-before bookkeeping.                                             *)
(***************************************************************************)
Unordered(t, s) == last[Other(t)][s] > knows[t]

Touch(t, s) ==
  /\ made' = [made EXCEPT ![t] = @ + 1]
  /\ last' = [last EXCEPT ![t][s] = made[t] + 1]

Release(t, n) == view' = [view EXCEPT ![t][n] = made[t]]

AcquireRelaxed(t, n) == UNCHANGED knows     \* faulty: memory_order_relaxed
Acquire(t, n) ==
  knows' = [knows EXCEPT ![t] = IF view[Other(t)][n] > @ THEN view[Other(t)][n]
                                                        ELSE @]

NoCount == [t \in Workers |-> 0]
NoTouch == [t \in Workers |-> [s \in Slots |-> 0]]
NoView  == [t \in Workers |-> [n \in Counts |-> 0]]

Init ==
  /\ head = 0 /\ tail = 0
  /\ data = [s \in Slots |-> 0]
  /\ pc = [t \in Workers \cup {"main"} |-> IF t = "main" THEN "reset_head"
                                                        ELSE "idle"]
  /\ run = 0
  /\ i = NoCount /\ own = NoCount /\ seen = NoCount
  /\ val = 0 /\ received = <<>>
  /\ made = NoCount /\ last = NoTouch /\ view = NoView /\ knows = NoCount

(***************************************************************************)
(* main: run_lockfree, called RUNS times.  pthread_create and pthread_join *)
(* order everything, so the happens-before counts start again at the reset *)
(* and a new thread sees the values stored before it was created.          *)
(***************************************************************************)
ResetHead ==
  /\ pc["main"] = "reset_head"
  /\ Goto("main", "reset_tail")
  /\ head' = 0
  /\ received' = <<>>
  /\ made' = NoCount /\ last' = NoTouch /\ view' = NoView /\ knows' = NoCount
  /\ UNCHANGED <<tail, data, run, i, own, seen, val>>

ResetTailForgotten ==  \* faulty: the second store of run_lockfree is missing
  /\ pc["main"] = "reset_tail"
  /\ Goto("main", "create_prod")
  /\ UNCHANGED <<queueVars, run, localVars, hbVars>>

ResetTail ==
  /\ pc["main"] = "reset_tail"
  /\ Goto("main", "create_prod")
  /\ tail' = 0
  /\ UNCHANGED <<head, data, run, localVars, hbVars>>

Create(t, label, next, index) ==
  /\ pc["main"] = label
  /\ pc' = [pc EXCEPT !["main"] = next, ![t] = "load_own"]
  /\ i' = [i EXCEPT ![t] = 0]
  /\ seen' = [seen EXCEPT ![t] = index]
  /\ UNCHANGED <<queueVars, run, own, val, received, hbVars>>

CreateProd == Create("prod", "create_prod", "create_cons", head)

(* The new consumer starts from the tail main stored: the producer may     *)
(* have moved on, and the consumer may or may not see it.                  *)
CreateCons == Create("cons", "create_cons", "join_prod", 0)

NotJoined(t) == pc[t] # "idle"              \* faulty: no pthread_join
Joined(t) == pc[t] = "done"

JoinProd ==
  /\ pc["main"] = "join_prod" /\ Joined("prod")
  /\ pc' = [pc EXCEPT !["main"] = "join_cons", !["prod"] = "idle"]
  /\ UNCHANGED <<queueVars, run, localVars, hbVars>>

JoinCons ==
  /\ pc["main"] = "join_cons" /\ Joined("cons")
  /\ run' = run + 1
  /\ pc' = [pc EXCEPT !["main"] = IF run' = RUNS THEN "done" ELSE "reset_head",
                      !["cons"] = "idle"]
  /\ UNCHANGED <<queueVars, localVars, hbVars>>

(* The test of the for loops of lf_producer and lf_consumer.               *)
MoreMessages(t) == i[t] < MSG_COUNT

(***************************************************************************)
(* spsc_enqueue, called by lf_producer with the value i until it succeeds. *)
(***************************************************************************)
EnqLoadTail ==
  /\ pc["prod"] = "load_own" /\ MoreMessages("prod")
  /\ Goto("prod", "load_other")
  /\ own' = [own EXCEPT !["prod"] = tail]
  /\ UNCHANGED <<queueVars, run, i, seen, val, received, hbVars>>

(* The full check: the call returns 0 and lf_producer calls again. *)
IsFullLate(t, h) == t - h = CAP + 1         \* faulty: one too many
IsFull(t, h) == t - h = CAP

EnqLoadHead(h) ==
  /\ pc["prod"] = "load_other"
  /\ h \in seen["prod"] .. head
  /\ seen' = [seen EXCEPT !["prod"] = h]
  /\ Acquire("prod", h)
  /\ Goto("prod", IF IsFull(own["prod"], h) THEN "load_own" ELSE "access")
  /\ UNCHANGED <<queueVars, run, i, own, val, received, made, last, view>>

EnqWrite ==
  /\ pc["prod"] = "access"
  /\ Goto("prod", "publish")
  /\ data' = [data EXCEPT ![Slot(own["prod"])] = i["prod"]]
  /\ Touch("prod", Slot(own["prod"]))
  /\ UNCHANGED <<head, tail, run, localVars, view, knows>>

EnqPublish ==
  /\ pc["prod"] = "publish"
  /\ Goto("prod", "load_own")
  /\ tail' = own["prod"] + 1
  /\ Release("prod", tail')
  /\ i' = [i EXCEPT !["prod"] = @ + 1]
  /\ UNCHANGED <<head, data, run, own, seen, val, received, made, last, knows>>

ProdReturn ==
  /\ pc["prod"] = "load_own" /\ ~ MoreMessages("prod")
  /\ Goto("prod", "done")
  /\ UNCHANGED <<queueVars, run, localVars, hbVars>>

(***************************************************************************)
(* spsc_dequeue, called by lf_consumer until it succeeds.  lf_sink ^= v    *)
(* touches nothing the other threads read: the value is recorded in        *)
(* received by the step that frees the slot.                               *)
(***************************************************************************)
DeqLoadHead ==
  /\ pc["cons"] = "load_own" /\ MoreMessages("cons")
  /\ Goto("cons", "load_other")
  /\ own' = [own EXCEPT !["cons"] = head]
  /\ UNCHANGED <<queueVars, run, i, seen, val, received, hbVars>>

IsEmptyLate(h, t) == h = t + 1              \* faulty: reads an empty slot
IsEmptyEarly(h, t) == h + 1 >= t            \* faulty: never takes the last one
IsEmpty(h, t) == h = t

DeqLoadTail(t) ==
  /\ pc["cons"] = "load_other"
  /\ t \in seen["cons"] .. tail
  /\ seen' = [seen EXCEPT !["cons"] = t]
  /\ Acquire("cons", t)
  /\ Goto("cons", IF IsEmpty(own["cons"], t) THEN "load_own" ELSE "access")
  /\ UNCHANGED <<queueVars, run, i, own, val, received, made, last, view>>

(* A read that no happens-before edge orders after the slot's last write   *)
(* may return anything.                                                    *)
ReadValues(s) == IF Unordered("cons", s) THEN Msg ELSE {data[s]}

DeqRead ==
  /\ pc["cons"] = "access"
  /\ Goto("cons", "publish")
  /\ val' \in ReadValues(Slot(own["cons"]))
  /\ Touch("cons", Slot(own["cons"]))
  /\ UNCHANGED <<queueVars, run, i, own, seen, received, view, knows>>

DeqPublish ==
  /\ pc["cons"] = "publish"
  /\ Goto("cons", "load_own")
  /\ head' = own["cons"] + 1
  /\ Release("cons", head')
  /\ i' = [i EXCEPT !["cons"] = @ + 1]
  /\ received' = Append(received, val)
  /\ UNCHANGED <<tail, data, run, own, seen, val, made, last, knows>>

ConsReturn ==
  /\ pc["cons"] = "load_own" /\ ~ MoreMessages("cons")
  /\ Goto("cons", "done")
  /\ UNCHANGED <<queueVars, run, localVars, hbVars>>

(* main has returned. *)
Finished == pc["main"] = "done" /\ UNCHANGED vars

MainNext == ResetHead \/ ResetTail \/ CreateProd \/ CreateCons \/ JoinProd \/ JoinCons
ProdNext ==
  \/ EnqLoadTail \/ EnqWrite \/ EnqPublish \/ ProdReturn
  \/ \E h \in Counts : EnqLoadHead(h)
ConsNext ==
  \/ DeqLoadHead \/ DeqRead \/ DeqPublish \/ ConsReturn
  \/ \E t \in Counts : DeqLoadTail(t)

Next == MainNext \/ ProdNext \/ ConsNext \/ Finished

Spec == Init /\ [][Next]_vars

(* A store becomes visible in finite time (C11 7.17.3): a thread that      *)
(* loads an index again and again sees its latest value again and again.   *)
EnqVisible == SF_vars(EnqLoadHead(head))
DeqVisible == SF_vars(DeqLoadTail(tail))

(* Only the consumer is sure to run: main or the producer may stop for     *)
(* good anywhere, in the middle of spsc_enqueue too.                       *)
ConsumerFairSpec == Spec /\ WF_vars(ConsNext) /\ DeqVisible

(***************************************************************************)
(* Properties.                                                             *)
(***************************************************************************)
InRun == pc["main"] \in {"create_prod", "create_cons", "join_prod", "join_cons"}

(* Every variable keeps the type the C declarations give it; the indices   *)
(* never pass MSG_COUNT, so uint64_t cannot overflow.                      *)
TypeOK ==
  /\ head \in Counts /\ tail \in Counts
  /\ data \in [Slots -> Msg]
  /\ pc \in [Workers \cup {"main"} -> Labels]
  /\ run \in 0 .. RUNS
  /\ i \in [Workers -> Counts]
  /\ own \in [Workers -> Counts]
  /\ seen \in [Workers -> Counts]
  /\ val \in Msg
  /\ received \in Seq(Msg)
  /\ made \in [Workers -> Counts]
  /\ last \in [Workers -> [Slots -> Counts]]
  /\ view \in [Workers -> [Counts -> Counts]]
  /\ knows \in [Workers -> Counts]

(* The acquire/release protocol of lines 15-21 orders the two threads'     *)
(* plain accesses to a slot: whoever is about to touch data[s] has every   *)
(* access the other made to data[s] in its past.                           *)
NoDataRace ==
  \A t \in Workers : pc[t] = "access" => ~ Unordered(t, Slot(own[t]))

(* The consumer gets the producer's values in the order they were sent,    *)
(* none lost, repeated or torn (lines 160-175).                            *)
InOrder == \A n \in 1 .. Len(received) : received[n] = n - 1

(* Between resets at most QUEUE_CAP messages are in the ring and every     *)
(* published message that was not taken is still in its slot, whatever     *)
(* stale index the producer wrote by (lines 71-75).                        *)
QueueIntact ==
  InRun => /\ head <= tail /\ tail <= head + CAP
           /\ \A k \in head .. tail - 1 : data[Slot(k)] = k

(* A full or empty check made on a stale index is still right when the     *)
(* thread acts on it: the slot written is free, the slot read is filled    *)
(* (lines 68-75 and 93-100).                                               *)
ChecksStayTrue ==
  /\ pc["prod"] \in {"access", "publish"} => own["prod"] = tail /\ tail < head + CAP
  /\ pc["cons"] \in {"access", "publish"} => own["cons"] = head /\ head < tail

(* run_lockfree resets and returns only with both threads gone and all     *)
(* MSG_COUNT messages delivered (lines 194-202).                           *)
RunDelivers ==
  pc["main"] \in {"reset_head", "reset_tail", "create_prod", "done"} =>
    /\ pc["prod"] = "idle" /\ pc["cons"] = "idle"
    /\ pc["main"] = "done" \/ (pc["main"] = "reset_head" /\ run > 0)
         => Len(received) = MSG_COUNT

(* Every run ends when main and the producer are scheduled too: the two    *)
(* spinning threads (lines 163, 171) cannot keep each other from finishing.*)
TerminatesIfFair ==
  WF_vars(MainNext) /\ WF_vars(ProdNext) /\ EnqVisible => <>(pc["main"] = "done")

(* Lock-freedom towards the consumer: what was published is taken even if  *)
(* the producer never takes another step, wherever it stopped.             *)
DrainsWithoutProducer ==
  \A n \in 1 .. MSG_COUNT :
    (pc["cons"] # "idle" /\ tail >= n) ~> Len(received) >= n

(* The ring as the abstract queue: the slots from head to tail.  An        *)
(* enqueue takes effect at the store of tail, a dequeue at that of head.   *)
Contents ==
  IF InRun THEN [k \in 1 .. tail - head |-> data[Slot(head + k - 1)]] ELSE <<>>

LastOut == IF InRun /\ received # <<>> THEN received[Len(received)] ELSE MSG_COUNT

Queue == INSTANCE FIFOQueue WITH
  Capacity <- CAP, Value <- Msg, NoValue <- MSG_COUNT,
  items <- Contents, out <- LastOut

(* The lock-free ring implements the atomic bounded queue (lines 66-102).  *)
ImplementsFIFO == Queue!Spec

(***************************************************************************)
(* The inductive invariant, in parts.                                      *)
(***************************************************************************)
Active == {"load_own", "load_other", "access", "publish", "done"}

(* A thread exists exactly between main's create and join of it.           *)
PhaseInv ==
  /\ pc["main"] \in {"reset_head", "reset_tail", "create_prod", "create_cons",
                    "join_prod", "join_cons", "done"}
  /\ pc["prod"] \in IF pc["main"] \in {"create_cons", "join_prod"} THEN Active
                                                                  ELSE {"idle"}
  /\ pc["cons"] \in IF pc["main"] \in {"join_prod", "join_cons"} THEN Active
                                                                ELSE {"idle"}

(* The indices count what the loops did, and received is what head counts. *)
IndexInv ==
  /\ pc["main"] = "create_prod" => head = 0 /\ tail = 0
  /\ pc["main"] \in {"reset_tail", "create_cons"} => head = 0
  /\ pc["main"] = "join_cons" => tail = MSG_COUNT
  /\ pc["main"] = "done" \/ (pc["main"] = "reset_head" /\ run > 0) => head = MSG_COUNT
  /\ pc["prod"] # "idle" => i["prod"] = tail
  /\ pc["cons"] # "idle" => i["cons"] = head
  /\ \A t \in Workers : pc[t] = "done" => i[t] = MSG_COUNT
  /\ pc["main"] \in {"reset_head", "reset_tail", "create_prod", "create_cons",
                     "join_prod", "join_cons"} => run < RUNS
  /\ Len(received) = head /\ InOrder

(* What a thread knows is what the index it last loaded stood for.         *)
OrderInv ==
  /\ pc["main"] \in {"reset_tail", "create_prod"} =>
       /\ made = NoCount /\ knows = NoCount /\ view = NoView /\ last = NoTouch
  /\ pc["main"] = "create_cons" => knows["cons"] = 0
  /\ InRun =>
       /\ made["prod"] = IF pc["prod"] = "publish" THEN tail + 1 ELSE tail
       /\ made["cons"] = IF pc["cons"] = "publish" THEN head + 1 ELSE head
       /\ \A n \in 0 .. tail : view["prod"][n] = n
       /\ \A n \in 0 .. head : view["cons"][n] = n
       /\ \A t \in Workers, s \in Slots :
            /\ last[t][s] <= made[t]
            /\ last[t][s] > 0 => Slot(last[t][s] - 1) = s
  /\ \A t \in Workers : pc[t] # "idle" => knows[t] = seen[t]

(* The stale index a thread works with errs on the safe side.              *)
LocalInv ==
  /\ pc["prod"] # "idle" => seen["prod"] <= head /\ tail <= seen["prod"] + CAP
  /\ pc["prod"] \in {"load_other", "access", "publish"} =>
       own["prod"] = tail /\ tail < MSG_COUNT
  /\ pc["prod"] \in {"access", "publish"} => tail < seen["prod"] + CAP
  /\ pc["cons"] # "idle" => head <= seen["cons"] /\ seen["cons"] <= tail
  /\ pc["cons"] \in {"load_other", "access", "publish"} =>
       own["cons"] = head /\ head < MSG_COUNT
  /\ pc["cons"] \in {"access", "publish"} => head < seen["cons"]
  /\ pc["cons"] = "publish" => val = head

(* Every slot written and not freed holds its message, published or not.   *)
SlotInv ==
  InRun => /\ head <= tail /\ tail <= head + CAP
           /\ \A k \in head .. made["prod"] - 1 : data[Slot(k)] = k

(* Inductive: it holds initially, every step keeps it, and it implies the  *)
(* safety properties above (spsc_enqueue, spsc_dequeue and run_lockfree).  *)
IndInv == TypeOK /\ PhaseInv /\ IndexInv /\ OrderInv /\ LocalInv /\ SlotInv
=============================================================================
