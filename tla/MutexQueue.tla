----------------------------- MODULE MutexQueue ----------------------------
(***************************************************************************)
(* The mutex-protected ring of                                             *)
(* solutions/ch13/ex13_1_lockfree_queue.c and run_mutex, which drives it.  *)
(* The indices are plain variables; the critical sections are taken apart  *)
(* into their accesses, so that what the lock is needed for can go wrong.  *)
(***************************************************************************)
EXTENDS Integers, Sequences

CONSTANTS
  CAP,        \* QUEUE_CAP
  MSG_COUNT,  \* messages sent in a run
  RUNS        \* calls of run_mutex that BENCH_RUN makes

ASSUME MutexAssumption ==
  CAP \in Nat \ {0} /\ MSG_COUNT \in Nat \ {0} /\ RUNS \in Nat \ {0}

VARIABLES
  head, tail, data,  \* mt_queue
  lock,              \* mt_queue.lock: the thread that holds it, or "free"
  pc,                \* where main and the two threads are
  run,               \* finished calls of run_mutex
  i,                 \* the loop counters of mt_producer and mt_consumer
  val,               \* the consumer's local v
  received           \* the values the consumer took in this run (history)

vars == <<head, tail, data, lock, pc, run, i, val, received>>

Workers == {"prod", "cons"}
Slots   == 0 .. CAP - 1
Msg     == 0 .. MSG_COUNT - 1
Counts  == 0 .. MSG_COUNT
Labels  == {"reset", "create_prod", "create_cons", "join_prod", "join_cons", "idle",
            "lock", "check", "access", "advance", "unlock", "give_up", "done"}

Slot(n) == n % CAP

Goto(t, label) == pc' = [pc EXCEPT ![t] = label]

Init ==
  /\ head = 0 /\ tail = 0
  /\ data = [s \in Slots |-> 0]
  /\ lock = "free"
  /\ pc = [t \in Workers \cup {"main"} |-> IF t = "main" THEN "reset" ELSE "idle"]
  /\ run = 0
  /\ i = [t \in Workers |-> 0]
  /\ val = 0
  /\ received = <<>>

(***************************************************************************)
(* main: run_mutex, called RUNS times.                                     *)
(***************************************************************************)
Reset ==
  /\ pc["main"] = "reset"
  /\ Goto("main", "create_prod")
  /\ head' = 0 /\ tail' = 0 /\ received' = <<>>
  /\ UNCHANGED <<data, lock, run, i, val>>

Create(t, label, next) ==
  /\ pc["main"] = label
  /\ pc' = [pc EXCEPT !["main"] = next, ![t] = "lock"]
  /\ i' = [i EXCEPT ![t] = 0]
  /\ UNCHANGED <<head, tail, data, lock, run, val, received>>

CreateProd == Create("prod", "create_prod", "create_cons")
CreateCons == Create("cons", "create_cons", "join_prod")

NotJoined(t) == pc[t] # "idle"         \* faulty: no pthread_join
Joined(t) == pc[t] = "done"

JoinProd ==
  /\ pc["main"] = "join_prod" /\ Joined("prod")
  /\ pc' = [pc EXCEPT !["main"] = "join_cons", !["prod"] = "idle"]
  /\ UNCHANGED <<head, tail, data, lock, run, i, val, received>>

JoinCons ==
  /\ pc["main"] = "join_cons" /\ Joined("cons")
  /\ run' = run + 1
  /\ pc' = [pc EXCEPT !["main"] = IF run' = RUNS THEN "done" ELSE "reset",
                      !["cons"] = "idle"]
  /\ UNCHANGED <<head, tail, data, lock, i, val, received>>

(***************************************************************************)
(* What mtq_enqueue and mtq_dequeue share: a thread locks, and unlocks     *)
(* whether it got through ("unlock") or found the ring full or empty       *)
(* ("give_up"); then it goes on with its next message or the same one.     *)
(***************************************************************************)
MoreMessages(t) == i[t] < MSG_COUNT

LockIgnored == TRUE                     \* faulty: the lock is not taken
LockAvailable == lock = "free"

Lock(t) ==
  /\ pc[t] = "lock" /\ MoreMessages(t) /\ LockAvailable
  /\ Goto(t, "check")
  /\ lock' = t
  /\ UNCHANGED <<head, tail, data, run, i, val, received>>

Unlock(t) ==
  /\ pc[t] = "unlock"
  /\ Goto(t, "lock")
  /\ lock' = "free"
  /\ i' = [i EXCEPT ![t] = @ + 1]
  /\ UNCHANGED <<head, tail, data, run, val, received>>

GiveUp(t) ==
  /\ pc[t] = "give_up"
  /\ Goto(t, "lock")
  /\ lock' = "free"
  /\ UNCHANGED <<head, tail, data, run, i, val, received>>

Return(t) ==
  /\ pc[t] = "lock" /\ ~ MoreMessages(t)
  /\ Goto(t, "done")
  /\ UNCHANGED <<head, tail, data, lock, run, i, val, received>>

(***************************************************************************)
(* The critical section of mtq_enqueue.                                    *)
(***************************************************************************)
IsFull == tail - head = CAP

EnqCheck ==
  /\ pc["prod"] = "check"
  /\ Goto("prod", IF IsFull THEN "give_up" ELSE "access")
  /\ UNCHANGED <<head, tail, data, lock, run, i, val, received>>

EnqWrite ==
  /\ pc["prod"] = "access"
  /\ Goto("prod", "advance")
  /\ data' = [data EXCEPT ![Slot(tail)] = i["prod"]]
  /\ UNCHANGED <<head, tail, lock, run, i, val, received>>

EnqAdvance ==
  /\ pc["prod"] = "advance"
  /\ Goto("prod", "unlock")
  /\ tail' = tail + 1
  /\ UNCHANGED <<head, data, lock, run, i, val, received>>

(***************************************************************************)
(* The critical section of mtq_dequeue.  mt_sink ^= v follows the unlock;  *)
(* the value is recorded in received by the step that frees the slot.      *)
(***************************************************************************)
IsEmptyLate == head = tail + 1          \* faulty: reads an empty slot
IsEmptyEarly == head + 1 >= tail        \* faulty: never takes the last one
IsEmpty == head = tail

DeqCheck ==
  /\ pc["cons"] = "check"
  /\ Goto("cons", IF IsEmpty THEN "give_up" ELSE "access")
  /\ UNCHANGED <<head, tail, data, lock, run, i, val, received>>

DeqRead ==
  /\ pc["cons"] = "access"
  /\ Goto("cons", "advance")
  /\ val' = data[Slot(head)]
  /\ UNCHANGED <<head, tail, data, lock, run, i, received>>

DeqAdvance ==
  /\ pc["cons"] = "advance"
  /\ Goto("cons", "unlock")
  /\ head' = head + 1
  /\ received' = Append(received, val)
  /\ UNCHANGED <<tail, data, lock, run, i, val>>

(* main has destroyed the mutex and returned.                              *)
Finished == pc["main"] = "done" /\ UNCHANGED vars

MainNext == Reset \/ CreateProd \/ CreateCons \/ JoinProd \/ JoinCons
Critical(t) ==
  \/ Unlock(t) \/ GiveUp(t) \/ Return(t)
  \/ t = "prod" /\ (EnqCheck \/ EnqWrite \/ EnqAdvance)
  \/ t = "cons" /\ (DeqCheck \/ DeqRead \/ DeqAdvance)

Next == MainNext \/ (\E t \in Workers : Lock(t) \/ Critical(t)) \/ Finished

Spec == Init /\ [][Next]_vars

(* A thread that finds the mutex free again and again gets it in the end.  *)
FairSpec ==
  /\ Spec
  /\ WF_vars(MainNext)
  /\ \A t \in Workers : WF_vars(Critical(t)) /\ SF_vars(Lock(t))

(***************************************************************************)
(* Properties.                                                             *)
(***************************************************************************)
InRun == pc["main"] \in {"create_prod", "create_cons", "join_prod", "join_cons"}

(* Every variable keeps its type; the uint32_t indices stay below 2^32 as  *)
(* they never pass MSG_COUNT.                                              *)
TypeOK ==
  /\ head \in Counts /\ tail \in Counts
  /\ data \in [Slots -> Msg]
  /\ lock \in Workers \cup {"free"}
  /\ pc \in [Workers \cup {"main"} -> Labels]
  /\ run \in 0 .. RUNS
  /\ i \in [Workers -> Counts]
  /\ val \in Msg
  /\ received \in Seq(Msg)

(* The plain accesses the thread's next step makes inside the section.     *)
Reads(t) ==
  CASE pc[t] = "check" -> {"head", "tail"}
    [] pc[t] = "access" /\ t = "prod" -> {"tail"}
    [] pc[t] = "access" /\ t = "cons" -> {"head", "data"}
    [] OTHER -> {}

Writes(t) ==
  CASE pc[t] = "access" /\ t = "prod" -> {"data"}
    [] pc[t] = "advance" -> {IF t = "prod" THEN "tail" ELSE "head"}
    [] OTHER -> {}

(* "The mutex provides all necessary memory ordering" (line 117): the two  *)
(* threads are never about to make conflicting plain accesses.             *)
NoDataRace ==
  /\ Writes("prod") \cap (Reads("cons") \cup Writes("cons")) = {}
  /\ Writes("cons") \cap (Reads("prod") \cup Writes("prod")) = {}

(* The consumer gets the producer's values in order (lines 177-192).       *)
InOrder == \A n \in 1 .. Len(received) : received[n] = n - 1

(* The mutex is free whenever main resets the queue or destroys the mutex, *)
(* which is undefined for a locked one (lines 205 and 219), and then       *)
(* every message of the run has been delivered.                            *)
QuietWhenReset ==
  pc["main"] \in {"reset", "done"} =>
    lock = "free" /\ (run > 0 => Len(received) = MSG_COUNT)

(* Both threads finish: neither a full nor an empty ring keeps the lock.   *)
Termination == <>(pc["main"] = "done")

(* The ring as the abstract queue; tail++ and head++ inside the section    *)
(* are the points where the operations take effect.                        *)
Contents ==
  IF InRun THEN [k \in 1 .. tail - head |-> data[Slot(head + k - 1)]] ELSE <<>>

LastOut == IF InRun /\ received # <<>> THEN received[Len(received)] ELSE MSG_COUNT

Queue == INSTANCE FIFOQueue WITH
  Capacity <- CAP, Value <- Msg, NoValue <- MSG_COUNT,
  items <- Contents, out <- LastOut

(* The mutex-protected ring implements the atomic bounded queue            *)
(* (lines 122-154).                                                        *)
ImplementsFIFO == Queue!Spec

(***************************************************************************)
(* The inductive invariant, in parts.                                      *)
(***************************************************************************)
Section == {"check", "access", "advance", "unlock", "give_up"}
Active  == Section \cup {"lock", "done"}

(* A thread exists exactly between main's create and join of it.           *)
PhaseInv ==
  /\ pc["main"] \in {"reset", "create_prod", "create_cons", "join_prod", "join_cons",
                     "done"}
  /\ pc["prod"] \in IF pc["main"] \in {"create_cons", "join_prod"} THEN Active
                                                                   ELSE {"idle"}
  /\ pc["cons"] \in IF pc["main"] \in {"join_prod", "join_cons"} THEN Active
                                                                 ELSE {"idle"}

(* The holder of the lock is exactly the thread inside its section.        *)
LockInv == \A t \in Workers : lock = t <=> pc[t] \in Section

(* The indices count what the loops did; between tail++ and the unlock the *)
(* index is one ahead of the loop.                                         *)
IndexInv ==
  /\ pc["main"] = "create_prod" => head = 0 /\ tail = 0
  /\ pc["main"] = "create_cons" => head = 0
  /\ pc["main"] = "join_cons" => tail = MSG_COUNT
  /\ pc["main"] = "done" \/ (pc["main"] = "reset" /\ run > 0) => head = MSG_COUNT
  /\ pc["prod"] # "idle" => tail = IF pc["prod"] = "unlock" THEN i["prod"] + 1
                                                            ELSE i["prod"]
  /\ pc["cons"] # "idle" => head = IF pc["cons"] = "unlock" THEN i["cons"] + 1
                                                            ELSE i["cons"]
  /\ \A t \in Workers : pc[t] \in Section => i[t] < MSG_COUNT
  /\ \A t \in Workers : pc[t] = "done" => i[t] = MSG_COUNT
  /\ pc["main"] # "done" => run < RUNS
  /\ Len(received) = head /\ InOrder

(* Inside the section a check stays true until the step that uses it.      *)
SlotInv ==
  InRun => /\ head <= tail /\ tail <= head + CAP
           /\ \A k \in head .. tail - 1 : data[Slot(k)] = k
           /\ pc["prod"] \in {"access", "advance"} => tail < head + CAP
           /\ pc["prod"] = "advance" => data[Slot(tail)] = tail
           /\ pc["cons"] \in {"access", "advance"} => head < tail
           /\ pc["cons"] = "advance" => val = head

(* Inductive: the checks made under the lock stay true until the unlock,   *)
(* and it implies the safety properties above (mtq_enqueue, mtq_dequeue).  *)
IndInv == TypeOK /\ PhaseInv /\ LockInv /\ IndexInv /\ SlotInv
=============================================================================
