-------------------------- MODULE MutexQueueProofs -------------------------
(***************************************************************************)
(* The mutex-protected queue is safe for every capacity, message count and *)
(* number of runs.  IndInv is inductive: one lemma per action, one step    *)
(* per part of the invariant.                                              *)
(***************************************************************************)
EXTENDS MutexQueue, CommonTheorems

LEMMA SlotFacts ==
  /\ \A n \in Nat : Slot(n) \in Slots
  /\ \A a, b \in Nat : a < b /\ b < a + CAP => Slot(a) # Slot(b)
BY MutexAssumption, Division, SlotsDistinct DEF Slot, Slots

LEMMA TypeFacts ==
  ASSUME TypeOK
  PROVE  /\ head \in Nat /\ tail \in Nat /\ head <= MSG_COUNT /\ tail <= MSG_COUNT
         /\ \A t \in Workers : i[t] \in Nat /\ i[t] <= MSG_COUNT
BY MutexAssumption DEF TypeOK, Counts

LEMMA GotoFacts ==
  ASSUME TypeOK, NEW t \in Workers \cup {"main"}, NEW l \in Labels, Goto(t, l)
  PROVE  /\ pc' \in [Workers \cup {"main"} -> Labels]
         /\ pc'[t] = l
         /\ \A u \in Workers \cup {"main"} : u # t => pc'[u] = pc[u]
BY DEF TypeOK, Goto

(* A thread inside its section: the other one is not, and a run is on.     *)
LEMMA ProdSection ==
  ASSUME IndInv, pc["prod"] \in Section
  PROVE  /\ pc["main"] \in {"create_cons", "join_prod"} /\ InRun
         /\ lock = "prod" /\ pc["cons"] \notin Section
         /\ i["prod"] < MSG_COUNT
         /\ tail = IF pc["prod"] = "unlock" THEN i["prod"] + 1 ELSE i["prod"]
         /\ head <= tail /\ tail <= head + CAP
<1>1. pc["prod"] # "idle" BY DEF Section
<1>2. pc["main"] \in {"create_cons", "join_prod"} BY <1>1 DEF IndInv, PhaseInv
<1>3. InRun BY <1>2 DEF InRun
<1>4. lock = "prod" /\ pc["cons"] \notin Section BY DEF IndInv, LockInv, Workers
<1>5. /\ i["prod"] < MSG_COUNT
      /\ tail = IF pc["prod"] = "unlock" THEN i["prod"] + 1 ELSE i["prod"]
  BY <1>1 DEF IndInv, IndexInv, Workers
<1>6. head <= tail /\ tail <= head + CAP BY <1>3 DEF IndInv, SlotInv
<1> QED BY <1>2, <1>3, <1>4, <1>5, <1>6

LEMMA ConsSection ==
  ASSUME IndInv, pc["cons"] \in Section
  PROVE  /\ pc["main"] \in {"join_prod", "join_cons"} /\ InRun
         /\ lock = "cons" /\ pc["prod"] \notin Section
         /\ i["cons"] < MSG_COUNT
         /\ head = IF pc["cons"] = "unlock" THEN i["cons"] + 1 ELSE i["cons"]
         /\ head <= tail /\ tail <= head + CAP
<1>1. pc["cons"] # "idle" BY DEF Section
<1>2. pc["main"] \in {"join_prod", "join_cons"} BY <1>1 DEF IndInv, PhaseInv
<1>3. InRun BY <1>2 DEF InRun
<1>4. lock = "cons" /\ pc["prod"] \notin Section BY DEF IndInv, LockInv, Workers
<1>5. /\ i["cons"] < MSG_COUNT
      /\ head = IF pc["cons"] = "unlock" THEN i["cons"] + 1 ELSE i["cons"]
  BY <1>1 DEF IndInv, IndexInv, Workers
<1>6. head <= tail /\ tail <= head + CAP BY <1>3 DEF IndInv, SlotInv
<1> QED BY <1>2, <1>3, <1>4, <1>5, <1>6

LEMMA InitInv == Init => IndInv
<1> SUFFICES ASSUME Init PROVE IndInv OBVIOUS
<1> USE MutexAssumption
<1>1. TypeOK BY DEF Init, TypeOK, Counts, Msg, Slots, Workers, Labels
<1>2. PhaseInv /\ IndexInv BY DEF Init, PhaseInv, IndexInv, InOrder, Workers, Section
<1>3. LockInv /\ SlotInv BY DEF Init, LockInv, SlotInv, InRun, Workers, Section
<1> QED BY <1>1, <1>2, <1>3 DEF IndInv

(***************************************************************************)
(* main keeps the invariant.                                               *)
(***************************************************************************)
LEMMA ResetInv == IndInv /\ Reset => IndInv'
<1> SUFFICES ASSUME IndInv, Reset PROVE IndInv' OBVIOUS
<1>1. /\ pc' \in [Workers \cup {"main"} -> Labels]
      /\ pc'["main"] = "create_prod" /\ pc'["prod"] = "idle" /\ pc'["cons"] = "idle"
      /\ pc["main"] = "reset" /\ pc["prod"] = "idle" /\ pc["cons"] = "idle"
  BY DEF IndInv, Reset, TypeOK, Goto, Workers, PhaseInv, Labels
<1>2. /\ head' = 0 /\ tail' = 0 /\ received' = <<>>
      /\ UNCHANGED <<data, lock, run, i, val>>
  BY DEF Reset
<1>3. TypeOK'
  <2>1. 0 \in Counts /\ <<>> \in Seq(Msg) BY MutexAssumption DEF Counts
  <2> QED BY <1>1, <1>2, <2>1 DEF IndInv, TypeOK
<1>4. PhaseInv' BY <1>1 DEF PhaseInv
<1>5. LockInv' BY <1>1, <1>2 DEF IndInv, LockInv, Workers
<1>6. IndexInv' BY <1>1, <1>2 DEF IndInv, IndexInv, InOrder, Workers, Section
<1>7. SlotInv' BY <1>1, <1>2, MutexAssumption DEF SlotInv
<1> QED BY <1>3, <1>4, <1>5, <1>6, <1>7 DEF IndInv

LEMMA CreateProdInv == IndInv /\ CreateProd => IndInv'
<1> SUFFICES ASSUME IndInv, CreateProd PROVE IndInv' OBVIOUS
<1>1. /\ pc' \in [Workers \cup {"main"} -> Labels]
      /\ pc'["main"] = "create_cons" /\ pc'["prod"] = "lock" /\ pc'["cons"] = "idle"
      /\ pc["main"] = "create_prod" /\ pc["prod"] = "idle" /\ pc["cons"] = "idle"
  BY DEF IndInv, CreateProd, Create, TypeOK, Workers, PhaseInv, Labels
<1>2. head = 0 /\ tail = 0 BY <1>1 DEF IndInv, IndexInv
<1>3. /\ i' \in [Workers -> Counts] /\ i'["prod"] = 0
      /\ UNCHANGED <<head, tail, data, lock, run, val, received>>
  BY MutexAssumption DEF CreateProd, Create, IndInv, TypeOK, Workers, Counts
<1>4. TypeOK' BY <1>1, <1>3 DEF IndInv, TypeOK
<1>5. PhaseInv' BY <1>1 DEF PhaseInv, Active, Section
<1>6. LockInv' BY <1>1, <1>3 DEF IndInv, LockInv, Workers, Section
<1>7. IndexInv' BY <1>1, <1>2, <1>3 DEF IndInv, IndexInv, InOrder, Workers, Section
<1>8. SlotInv' BY <1>1, <1>2, <1>3, MutexAssumption DEF SlotInv
<1> QED BY <1>4, <1>5, <1>6, <1>7, <1>8 DEF IndInv

LEMMA CreateConsInv == IndInv /\ CreateCons => IndInv'
<1> SUFFICES ASSUME IndInv, CreateCons PROVE IndInv' OBVIOUS
<1>1. /\ pc' \in [Workers \cup {"main"} -> Labels]
      /\ pc'["main"] = "join_prod" /\ pc'["prod"] = pc["prod"] /\ pc'["cons"] = "lock"
      /\ pc["main"] = "create_cons" /\ pc["prod"] \in Active /\ pc["cons"] = "idle"
  BY DEF IndInv, CreateCons, Create, TypeOK, Workers, PhaseInv, Labels
<1>2. head = 0 BY <1>1 DEF IndInv, IndexInv
<1>3. i' = [i EXCEPT !["cons"] = 0] /\ 0 \in Counts
  BY MutexAssumption DEF CreateCons, Create, Counts
<1>4. /\ i' \in [Workers -> Counts] /\ i'["cons"] = 0 /\ i'["prod"] = i["prod"]
      /\ UNCHANGED <<head, tail, data, lock, run, val, received>>
  BY <1>3 DEF CreateCons, Create, IndInv, TypeOK, Workers
<1>5. TypeOK' BY <1>1, <1>4 DEF IndInv, TypeOK
<1>6. PhaseInv' BY <1>1 DEF PhaseInv, Active
<1>7. LockInv' BY <1>1, <1>4 DEF IndInv, LockInv, Workers, Section
<1>8. IndexInv' BY <1>1, <1>2, <1>4 DEF IndInv, IndexInv, InOrder, Workers, Section
<1>9. InRun BY <1>1 DEF InRun
<1>10. SlotInv' BY <1>1, <1>4, <1>9 DEF IndInv, SlotInv
<1> QED BY <1>5, <1>6, <1>7, <1>8, <1>10 DEF IndInv

LEMMA JoinProdInv == IndInv /\ JoinProd => IndInv'
<1> SUFFICES ASSUME IndInv, JoinProd PROVE IndInv' OBVIOUS
<1>1. /\ pc' \in [Workers \cup {"main"} -> Labels]
      /\ pc'["main"] = "join_cons" /\ pc'["prod"] = "idle" /\ pc'["cons"] = pc["cons"]
      /\ pc["main"] = "join_prod" /\ pc["prod"] = "done" /\ pc["cons"] \in Active
  BY DEF IndInv, JoinProd, Joined, TypeOK, Workers, PhaseInv, Labels
<1>2. UNCHANGED <<head, tail, data, lock, run, i, val, received>> BY DEF JoinProd
<1>3. tail = MSG_COUNT BY <1>1 DEF IndInv, IndexInv, Workers
<1>4. TypeOK' BY <1>1, <1>2 DEF IndInv, TypeOK
<1>5. PhaseInv' BY <1>1 DEF PhaseInv
<1>6. LockInv' BY <1>1, <1>2 DEF IndInv, LockInv, Workers, Section
<1>7. IndexInv' BY <1>1, <1>2, <1>3 DEF IndInv, IndexInv, InOrder, Workers, Section
<1>8. InRun BY <1>1 DEF InRun
<1>9. SlotInv' BY <1>1, <1>2, <1>8 DEF IndInv, SlotInv
<1> QED BY <1>4, <1>5, <1>6, <1>7, <1>9 DEF IndInv

LEMMA JoinConsInv == IndInv /\ JoinCons => IndInv'
<1> SUFFICES ASSUME IndInv, JoinCons PROVE IndInv' OBVIOUS
<1>1. /\ pc["main"] = "join_cons" /\ pc["cons"] = "done" /\ run' = run + 1
      /\ pc' = [pc EXCEPT !["main"] = IF run' = RUNS THEN "done" ELSE "reset",
                          !["cons"] = "idle"]
  BY DEF JoinCons, Joined
<1>2. /\ pc' \in [Workers \cup {"main"} -> Labels]
      /\ pc'["main"] = IF run' = RUNS THEN "done" ELSE "reset"
      /\ pc'["prod"] = "idle" /\ pc'["cons"] = "idle" /\ pc["prod"] = "idle"
  BY <1>1 DEF IndInv, TypeOK, Workers, PhaseInv, Labels
<1>3. UNCHANGED <<head, tail, data, lock, i, val, received>> BY DEF JoinCons
<1>4. head = MSG_COUNT /\ run < RUNS /\ run \in 0 .. RUNS
  BY <1>1 DEF IndInv, IndexInv, Workers, TypeOK
<1>5. run' \in 0 .. RUNS /\ (run' = RUNS \/ run' < RUNS) BY <1>1, <1>4, MutexAssumption
<1>6. TypeOK' BY <1>2, <1>3, <1>5 DEF IndInv, TypeOK
<1>7. PhaseInv' BY <1>2 DEF PhaseInv
<1>8. LockInv' BY <1>1, <1>2, <1>3 DEF IndInv, LockInv, Workers, Section
<1>9. IndexInv' BY <1>2, <1>3, <1>4, <1>5 DEF IndInv, IndexInv, InOrder, Workers, Section
<1>10. SlotInv' BY <1>2 DEF SlotInv, InRun
<1> QED BY <1>6, <1>7, <1>8, <1>9, <1>10 DEF IndInv

(***************************************************************************)
(* Locking and unlocking keep the invariant.                               *)
(***************************************************************************)
LEMMA ThreadFacts ==
  ASSUME IndInv, NEW t \in Workers, pc[t] # "idle"
  PROVE  /\ InRun /\ pc["main"] \in {"create_cons", "join_prod", "join_cons"}
         /\ t = "prod" => pc["main"] # "join_cons"
         /\ t = "cons" => pc["main"] # "create_cons"
BY DEF IndInv, PhaseInv, InRun, Workers

LEMMA LockStepInv == \A t \in Workers : IndInv /\ Lock(t) => IndInv'
<1> SUFFICES ASSUME NEW t \in Workers, IndInv, Lock(t) PROVE IndInv' OBVIOUS
<1>1. pc[t] = "lock" /\ InRun /\ lock = "free" /\ i[t] < MSG_COUNT
  BY ThreadFacts DEF Lock, LockAvailable, MoreMessages
<1>2. /\ pc' \in [Workers \cup {"main"} -> Labels] /\ pc'[t] = "check"
      /\ \A u \in Workers \cup {"main"} : u # t => pc'[u] = pc[u]
  BY GotoFacts DEF IndInv, Lock, Workers, Labels
<1>3. UNCHANGED <<head, tail, data, run, i, val, received>> /\ lock' = t BY DEF Lock
<1>4. TypeOK' BY <1>2, <1>3 DEF IndInv, TypeOK
<1>5. PhaseInv' BY <1>1, <1>2 DEF IndInv, PhaseInv, Active, Section, Workers
<1>6. LockInv' BY <1>1, <1>2, <1>3 DEF IndInv, LockInv, Section, Workers
<1>7. IndexInv' BY <1>1, <1>2, <1>3 DEF IndInv, IndexInv, InOrder, Workers, Section
<1>8. SlotInv' BY <1>1, <1>2, <1>3 DEF IndInv, SlotInv, Workers
<1> QED BY <1>4, <1>5, <1>6, <1>7, <1>8 DEF IndInv

LEMMA UnlockInv == \A t \in Workers : IndInv /\ Unlock(t) => IndInv'
<1> SUFFICES ASSUME NEW t \in Workers, IndInv, Unlock(t) PROVE IndInv' OBVIOUS
<1>1. pc[t] = "unlock" /\ InRun /\ i[t] < MSG_COUNT /\ lock = t
  BY ThreadFacts DEF Unlock, IndInv, IndexInv, LockInv, Section
<1>2. /\ pc' \in [Workers \cup {"main"} -> Labels] /\ pc'[t] = "lock"
      /\ \A u \in Workers \cup {"main"} : u # t => pc'[u] = pc[u]
  BY GotoFacts DEF IndInv, Unlock, Workers, Labels
<1>3. UNCHANGED <<head, tail, data, run, val, received>> /\ lock' = "free" BY DEF Unlock
<1>4. /\ i' \in [Workers -> Counts] /\ i'[t] = i[t] + 1
      /\ \A u \in Workers : u # t => i'[u] = i[u]
  <2>1. i[t] + 1 \in Counts
    BY <1>1, TypeFacts, MutexAssumption DEF IndInv, Counts
  <2>2. i' = [i EXCEPT ![t] = i[t] + 1] BY DEF Unlock
  <2> QED BY <2>1, <2>2 DEF IndInv, TypeOK
<1>5. TypeOK' BY <1>2, <1>3, <1>4 DEF IndInv, TypeOK
<1>6. PhaseInv' BY <1>1, <1>2 DEF IndInv, PhaseInv, Active, Section, Workers
<1>7. LockInv' BY <1>1, <1>2, <1>3 DEF IndInv, LockInv, Section, Workers
<1>8. IndexInv' BY <1>1, <1>2, <1>3, <1>4 DEF IndInv, IndexInv, InOrder, Workers, Section
<1>9. SlotInv' BY <1>1, <1>2, <1>3 DEF IndInv, SlotInv, Workers
<1> QED BY <1>5, <1>6, <1>7, <1>8, <1>9 DEF IndInv

LEMMA GiveUpInv == \A t \in Workers : IndInv /\ GiveUp(t) => IndInv'
<1> SUFFICES ASSUME NEW t \in Workers, IndInv, GiveUp(t) PROVE IndInv' OBVIOUS
<1>1. pc[t] = "give_up" /\ InRun /\ lock = t
  BY ThreadFacts DEF GiveUp, IndInv, LockInv, Section
<1>2. /\ pc' \in [Workers \cup {"main"} -> Labels] /\ pc'[t] = "lock"
      /\ \A u \in Workers \cup {"main"} : u # t => pc'[u] = pc[u]
  BY GotoFacts DEF IndInv, GiveUp, Workers, Labels
<1>3. UNCHANGED <<head, tail, data, run, i, val, received>> /\ lock' = "free" BY DEF GiveUp
<1>4. TypeOK' BY <1>2, <1>3 DEF IndInv, TypeOK
<1>5. PhaseInv' BY <1>1, <1>2 DEF IndInv, PhaseInv, Active, Section, Workers
<1>6. LockInv' BY <1>1, <1>2, <1>3 DEF IndInv, LockInv, Section, Workers
<1>7. IndexInv' BY <1>1, <1>2, <1>3 DEF IndInv, IndexInv, InOrder, Workers, Section
<1>8. SlotInv' BY <1>1, <1>2, <1>3 DEF IndInv, SlotInv, Workers
<1> QED BY <1>4, <1>5, <1>6, <1>7, <1>8 DEF IndInv

LEMMA ReturnInv == \A t \in Workers : IndInv /\ Return(t) => IndInv'
<1> SUFFICES ASSUME NEW t \in Workers, IndInv, Return(t) PROVE IndInv' OBVIOUS
<1>1. pc[t] = "lock" /\ InRun BY ThreadFacts DEF Return
<1>2. /\ pc' \in [Workers \cup {"main"} -> Labels] /\ pc'[t] = "done"
      /\ \A u \in Workers \cup {"main"} : u # t => pc'[u] = pc[u]
  BY GotoFacts DEF IndInv, Return, Workers, Labels
<1>3. UNCHANGED <<head, tail, data, lock, run, i, val, received>> BY DEF Return
<1>4. i[t] = MSG_COUNT BY TypeFacts, MutexAssumption DEF Return, MoreMessages, IndInv
<1>5. TypeOK' BY <1>2, <1>3 DEF IndInv, TypeOK
<1>6. PhaseInv' BY <1>1, <1>2 DEF IndInv, PhaseInv, Active, Workers
<1>7. LockInv' BY <1>1, <1>2, <1>3 DEF IndInv, LockInv, Section, Workers
<1>8. IndexInv' BY <1>1, <1>2, <1>3, <1>4 DEF IndInv, IndexInv, InOrder, Workers, Section
<1>9. SlotInv' BY <1>1, <1>2, <1>3 DEF IndInv, SlotInv, Workers
<1> QED BY <1>5, <1>6, <1>7, <1>8, <1>9 DEF IndInv

(***************************************************************************)
(* The two critical sections keep the invariant.                           *)
(***************************************************************************)
LEMMA EnqCheckInv == IndInv /\ EnqCheck => IndInv'
<1> SUFFICES ASSUME IndInv, EnqCheck PROVE IndInv' OBVIOUS
<1>1. /\ pc["main"] \in {"create_cons", "join_prod"} /\ InRun /\ pc["prod"] = "check"
      /\ head \in Nat /\ tail \in Nat /\ head <= tail /\ tail <= head + CAP
  BY ProdSection, TypeFacts DEF EnqCheck, IndInv, Section
<1>2. /\ pc' \in [Workers \cup {"main"} -> Labels]
      /\ pc'["prod"] = IF tail - head = CAP THEN "give_up" ELSE "access"
      /\ pc'["main"] = pc["main"] /\ pc'["cons"] = pc["cons"]
  BY GotoFacts DEF IndInv, EnqCheck, IsFull, Workers, Labels
<1>3. UNCHANGED <<head, tail, data, lock, run, i, val, received>> BY DEF EnqCheck
<1>4. TypeOK' BY <1>2, <1>3 DEF IndInv, TypeOK
<1>5. PhaseInv' BY <1>1, <1>2 DEF IndInv, PhaseInv, Active, Section
<1>6. LockInv' BY <1>1, <1>2, <1>3 DEF IndInv, LockInv, Section, Workers
<1>7. IndexInv' BY <1>1, <1>2, <1>3 DEF IndInv, IndexInv, InOrder, Workers, Section
<1>8. SlotInv'
  <2>1. tail - head # CAP => tail < head + CAP BY <1>1, MutexAssumption
  <2> QED BY <1>1, <1>2, <1>3, <2>1 DEF IndInv, SlotInv
<1> QED BY <1>4, <1>5, <1>6, <1>7, <1>8 DEF IndInv

LEMMA EnqWriteInv == IndInv /\ EnqWrite => IndInv'
<1> SUFFICES ASSUME IndInv, EnqWrite PROVE IndInv' OBVIOUS
<1>1. /\ pc["main"] \in {"create_cons", "join_prod"} /\ InRun /\ pc["prod"] = "access"
      /\ head \in Nat /\ tail \in Nat /\ head <= tail /\ tail < head + CAP
      /\ i["prod"] = tail /\ tail < MSG_COUNT /\ pc["cons"] \notin Section
  BY ProdSection, TypeFacts DEF EnqWrite, IndInv, SlotInv, Section
<1>2. /\ pc' \in [Workers \cup {"main"} -> Labels] /\ pc'["prod"] = "advance"
      /\ pc'["main"] = pc["main"] /\ pc'["cons"] = pc["cons"]
  BY GotoFacts DEF IndInv, EnqWrite, Workers, Labels
<1>3. /\ UNCHANGED <<head, tail, lock, run, i, val, received>>
      /\ data' = [data EXCEPT ![Slot(tail)] = tail]
  BY <1>1 DEF EnqWrite
<1>4. tail \in Msg /\ Slot(tail) \in Slots
  BY <1>1, SlotFacts, MutexAssumption DEF Msg
<1>5. data' \in [Slots -> Msg] /\ data'[Slot(tail)] = tail
  BY <1>3, <1>4 DEF IndInv, TypeOK
<1>6. TypeOK' BY <1>2, <1>3, <1>5 DEF IndInv, TypeOK
<1>7. PhaseInv' BY <1>1, <1>2 DEF IndInv, PhaseInv, Active, Section
<1>8. LockInv' BY <1>1, <1>2, <1>3 DEF IndInv, LockInv, Section, Workers
<1>9. IndexInv' BY <1>1, <1>2, <1>3 DEF IndInv, IndexInv, InOrder, Workers, Section
<1>10. SlotInv'
  <2>1. ASSUME NEW k \in head .. tail - 1 PROVE data'[Slot(k)] = k
    <3>1. k \in Nat /\ k < tail /\ tail < k + CAP BY <1>1, MutexAssumption
    <3>2. Slot(k) \in Slots /\ Slot(k) # Slot(tail) BY <1>1, <3>1, SlotFacts
    <3>3. data[Slot(k)] = k BY <1>1 DEF IndInv, SlotInv
    <3> QED BY <1>3, <3>2, <3>3 DEF IndInv, TypeOK
  <2> QED BY <1>1, <1>2, <1>3, <1>5, <2>1 DEF IndInv, SlotInv, Section
<1> QED BY <1>6, <1>7, <1>8, <1>9, <1>10 DEF IndInv

LEMMA EnqAdvanceInv == IndInv /\ EnqAdvance => IndInv'
<1> SUFFICES ASSUME IndInv, EnqAdvance PROVE IndInv' OBVIOUS
<1>1. /\ pc["main"] \in {"create_cons", "join_prod"} /\ InRun /\ pc["prod"] = "advance"
      /\ head \in Nat /\ tail \in Nat /\ head <= tail /\ tail < head + CAP
      /\ i["prod"] = tail /\ tail < MSG_COUNT /\ pc["cons"] \notin Section
      /\ data[Slot(tail)] = tail
  BY ProdSection, TypeFacts DEF EnqAdvance, IndInv, SlotInv, Section
<1>2. /\ pc' \in [Workers \cup {"main"} -> Labels] /\ pc'["prod"] = "unlock"
      /\ pc'["main"] = pc["main"] /\ pc'["cons"] = pc["cons"]
  BY GotoFacts DEF IndInv, EnqAdvance, Workers, Labels
<1>3. UNCHANGED <<head, data, lock, run, i, val, received>> /\ tail' = tail + 1
  BY DEF EnqAdvance
<1>4. tail + 1 \in Counts /\ tail + 1 <= head + CAP /\ head <= tail + 1
  BY <1>1, MutexAssumption DEF Counts
<1>5. TypeOK' BY <1>2, <1>3, <1>4 DEF IndInv, TypeOK
<1>6. PhaseInv' BY <1>1, <1>2 DEF IndInv, PhaseInv, Active, Section
<1>7. LockInv' BY <1>1, <1>2, <1>3 DEF IndInv, LockInv, Section, Workers
<1>8. IndexInv' BY <1>1, <1>2, <1>3 DEF IndInv, IndexInv, InOrder, Workers, Section
<1>9. SlotInv'
  <2>1. \A k \in head .. tail : data[Slot(k)] = k BY <1>1 DEF IndInv, SlotInv
  <2> QED BY <1>1, <1>2, <1>3, <1>4, <2>1 DEF SlotInv, Section
<1> QED BY <1>5, <1>6, <1>7, <1>8, <1>9 DEF IndInv

LEMMA DeqCheckInv == IndInv /\ DeqCheck => IndInv'
<1> SUFFICES ASSUME IndInv, DeqCheck PROVE IndInv' OBVIOUS
<1>1. /\ pc["main"] \in {"join_prod", "join_cons"} /\ InRun /\ pc["cons"] = "check"
      /\ head \in Nat /\ tail \in Nat /\ head <= tail
  BY ConsSection, TypeFacts DEF DeqCheck, IndInv, Section
<1>2. /\ pc' \in [Workers \cup {"main"} -> Labels]
      /\ pc'["cons"] = IF head = tail THEN "give_up" ELSE "access"
      /\ pc'["main"] = pc["main"] /\ pc'["prod"] = pc["prod"]
  BY GotoFacts DEF IndInv, DeqCheck, IsEmpty, Workers, Labels
<1>3. UNCHANGED <<head, tail, data, lock, run, i, val, received>> BY DEF DeqCheck
<1>4. TypeOK' BY <1>2, <1>3 DEF IndInv, TypeOK
<1>5. PhaseInv' BY <1>1, <1>2 DEF IndInv, PhaseInv, Active, Section
<1>6. LockInv' BY <1>1, <1>2, <1>3 DEF IndInv, LockInv, Section, Workers
<1>7. IndexInv' BY <1>1, <1>2, <1>3 DEF IndInv, IndexInv, InOrder, Workers, Section
<1>8. SlotInv'
  <2>1. head # tail => head < tail BY <1>1
  <2> QED BY <1>1, <1>2, <1>3, <2>1 DEF IndInv, SlotInv
<1> QED BY <1>4, <1>5, <1>6, <1>7, <1>8 DEF IndInv

LEMMA DeqReadInv == IndInv /\ DeqRead => IndInv'
<1> SUFFICES ASSUME IndInv, DeqRead PROVE IndInv' OBVIOUS
<1>1. /\ pc["main"] \in {"join_prod", "join_cons"} /\ InRun /\ pc["cons"] = "access"
      /\ head \in Nat /\ tail \in Nat /\ head < tail /\ head < MSG_COUNT
  BY ConsSection, TypeFacts DEF DeqRead, IndInv, SlotInv, Section
<1>2. /\ pc' \in [Workers \cup {"main"} -> Labels] /\ pc'["cons"] = "advance"
      /\ pc'["main"] = pc["main"] /\ pc'["prod"] = pc["prod"]
  BY GotoFacts DEF IndInv, DeqRead, Workers, Labels
<1>3. UNCHANGED <<head, tail, data, lock, run, i, received>> BY DEF DeqRead
<1>4. val' = head /\ head \in Msg
  <2>1. head \in head .. tail - 1 BY <1>1
  <2>2. data[Slot(head)] = head BY <1>1, <2>1 DEF IndInv, SlotInv
  <2> QED BY <1>1, <2>2, MutexAssumption DEF DeqRead, Msg
<1>5. TypeOK' BY <1>2, <1>3, <1>4 DEF IndInv, TypeOK
<1>6. PhaseInv' BY <1>1, <1>2 DEF IndInv, PhaseInv, Active, Section
<1>7. LockInv' BY <1>1, <1>2, <1>3 DEF IndInv, LockInv, Section, Workers
<1>8. IndexInv' BY <1>1, <1>2, <1>3 DEF IndInv, IndexInv, InOrder, Workers, Section
<1>9. SlotInv' BY <1>1, <1>2, <1>3, <1>4 DEF IndInv, SlotInv
<1> QED BY <1>5, <1>6, <1>7, <1>8, <1>9 DEF IndInv

LEMMA DeqAdvanceInv == IndInv /\ DeqAdvance => IndInv'
<1> SUFFICES ASSUME IndInv, DeqAdvance PROVE IndInv' OBVIOUS
<1>1. /\ pc["main"] \in {"join_prod", "join_cons"} /\ InRun /\ pc["cons"] = "advance"
      /\ head \in Nat /\ tail \in Nat /\ head < tail /\ tail <= head + CAP
      /\ i["cons"] = head /\ head < MSG_COUNT /\ val = head /\ pc["prod"] \notin Section
  BY ConsSection, TypeFacts DEF DeqAdvance, IndInv, SlotInv, Section
<1>2. /\ pc' \in [Workers \cup {"main"} -> Labels] /\ pc'["cons"] = "unlock"
      /\ pc'["main"] = pc["main"] /\ pc'["prod"] = pc["prod"]
  BY GotoFacts DEF IndInv, DeqAdvance, Workers, Labels
<1>3. /\ UNCHANGED <<tail, data, lock, run, i, val>>
      /\ head' = head + 1 /\ received' = Append(received, head)
  BY <1>1 DEF DeqAdvance
<1>4. head + 1 \in Counts /\ head \in Msg /\ head + 1 <= tail /\ tail <= head + 1 + CAP
  BY <1>1, MutexAssumption DEF Counts, Msg
<1>5. received \in Seq(Msg) /\ Len(received) = head /\ \A n \in 1 .. head : received[n] = n - 1
  BY DEF IndInv, TypeOK, IndexInv, InOrder
<1>6. /\ received' \in Seq(Msg) /\ Len(received') = head + 1
      /\ \A n \in 1 .. head + 1 : received'[n] = n - 1
  BY <1>1, <1>3, <1>4, <1>5
<1>7. TypeOK' BY <1>2, <1>3, <1>4, <1>6 DEF IndInv, TypeOK
<1>8. PhaseInv' BY <1>1, <1>2 DEF IndInv, PhaseInv, Active, Section
<1>9. LockInv' BY <1>1, <1>2, <1>3 DEF IndInv, LockInv, Section, Workers
<1>10. IndexInv'
  <2>1. InOrder' BY <1>6 DEF InOrder
  <2> QED BY <1>1, <1>2, <1>3, <1>6, <2>1 DEF IndInv, IndexInv, Workers, Section
<1>11. SlotInv'
  <2>1. \A k \in head + 1 .. tail - 1 : data[Slot(k)] = k BY <1>1 DEF IndInv, SlotInv
  <2> QED BY <1>1, <1>2, <1>3, <1>4, <2>1 DEF SlotInv, Section
<1> QED BY <1>7, <1>8, <1>9, <1>10, <1>11 DEF IndInv

LEMMA StutterInv == IndInv /\ UNCHANGED vars => IndInv'
BY DEF IndInv, TypeOK, PhaseInv, LockInv, IndexInv, InOrder, SlotInv, InRun, vars

LEMMA StepInv == IndInv /\ [Next]_vars => IndInv'
<1> SUFFICES ASSUME IndInv, [Next]_vars PROVE IndInv' OBVIOUS
<1>1. CASE MainNext
  BY <1>1, ResetInv, CreateProdInv, CreateConsInv, JoinProdInv, JoinConsInv DEF MainNext
<1>2. ASSUME NEW t \in Workers, Lock(t) \/ Critical(t) PROVE IndInv'
  BY <1>2, LockStepInv, UnlockInv, GiveUpInv, ReturnInv, EnqCheckInv, EnqWriteInv,
     EnqAdvanceInv, DeqCheckInv, DeqReadInv, DeqAdvanceInv DEF Critical
<1>3. CASE Finished \/ UNCHANGED vars BY <1>3, StutterInv DEF Finished
<1> QED BY <1>1, <1>2, <1>3 DEF Next

(***************************************************************************)
(* The theorems.                                                           *)
(***************************************************************************)

(* The invariant holds in every reachable state of mtq_enqueue,            *)
(* mtq_dequeue and run_mutex, whatever the capacity and the counts.        *)
THEOREM Invariance == Spec => []IndInv
BY InitInv, StepInv, PTL DEF Spec

(* The mutex keeps the threads' plain accesses to head, tail and data[]    *)
(* apart, on the give-up paths too.                                        *)
THEOREM NoRace == Spec => []NoDataRace
<1>1. IndInv => NoDataRace
  <2> SUFFICES ASSUME IndInv PROVE NoDataRace OBVIOUS
  <2>1. pc["prod"] \notin Section \/ pc["cons"] \notin Section
    BY ProdSection
  <2>2. ASSUME NEW t \in Workers, pc[t] \notin Section PROVE Reads(t) = {} /\ Writes(t) = {}
    BY <2>2 DEF Reads, Writes, Section
  <2> QED BY <2>1, <2>2 DEF NoDataRace, Workers
<1> QED BY <1>1, Invariance, PTL

(* The consumer receives what was sent, in order and complete so far.      *)
THEOREM InOrderDelivery == Spec => []InOrder
<1>1. IndInv => InOrder BY DEF IndInv, IndexInv
<1> QED BY <1>1, Invariance, PTL

(* run_mutex resets, and main destroys the mutex, only when it is unlocked *)
(* and every message was delivered.                                        *)
THEOREM QuietResets == Spec => []QuietWhenReset
<1>1. IndInv => QuietWhenReset
  <2> SUFFICES ASSUME IndInv, pc["main"] \in {"reset", "done"}
               PROVE  lock = "free" /\ (run > 0 => Len(received) = MSG_COUNT)
    BY DEF QuietWhenReset
  <2>1. pc["prod"] \notin Section /\ pc["cons"] \notin Section
    BY DEF IndInv, PhaseInv, Section
  <2> QED BY <2>1 DEF IndInv, LockInv, IndexInv, TypeOK, Workers
<1> QED BY <1>1, Invariance, PTL

(***************************************************************************)
(* The mutex-protected ring implements the abstract queue.                 *)
(***************************************************************************)
LEMMA ContentsFacts ==
  IndInv /\ InRun =>
    /\ head \in Nat /\ tail \in Nat /\ head <= tail /\ tail <= head + CAP
    /\ Contents = Span(head, tail)
    /\ LastOut = IF head = 0 THEN MSG_COUNT ELSE head - 1
<1> SUFFICES ASSUME IndInv, InRun
             PROVE  /\ head \in Nat /\ tail \in Nat /\ head <= tail /\ tail <= head + CAP
                    /\ Contents = Span(head, tail)
                    /\ LastOut = IF head = 0 THEN MSG_COUNT ELSE head - 1
  OBVIOUS
<1>1. head \in Nat /\ tail \in Nat /\ head <= tail /\ tail <= head + CAP
  BY TypeFacts DEF IndInv, SlotInv
<1>2. ASSUME NEW k \in 1 .. tail - head PROVE data[Slot(head + k - 1)] = head + k - 1
  <2>1. head + k - 1 \in head .. tail - 1 BY <1>1
  <2> QED BY <2>1 DEF IndInv, SlotInv
<1>3. Contents = Span(head, tail) BY <1>2 DEF Contents, Span
<1>4. LastOut = IF head = 0 THEN MSG_COUNT ELSE head - 1
  <2>1. received \in Seq(Msg) /\ Len(received) = head /\ \A n \in 1 .. head : received[n] = n - 1
    BY DEF IndInv, TypeOK, IndexInv, InOrder
  <2>2. received = <<>> <=> head = 0 BY <1>1, <2>1
  <2>3. head # 0 => received[head] = head - 1 BY <1>1, <2>1
  <2> QED BY <2>1, <2>2, <2>3 DEF LastOut
<1> QED BY <1>1, <1>3, <1>4

LEMMA OutsideRun == ~ InRun => Contents = <<>> /\ LastOut = MSG_COUNT
BY DEF Contents, LastOut

LEMMA InitImplements == Init => Queue!Init
<1> SUFFICES ASSUME Init PROVE Queue!Init OBVIOUS
<1>1. ~ InRun BY DEF Init, InRun, Workers
<1> QED BY <1>1, OutsideRun DEF Queue!Init

(* The visible steps are tail++, head++ and main's last join.              *)
LEMMA StepImplements ==
  IndInv /\ IndInv' /\ [Next]_vars => [Queue!Next]_(Queue!fifoVars)
<1> SUFFICES ASSUME IndInv, IndInv', [Next]_vars
             PROVE  Queue!Next \/ (Contents' = Contents /\ LastOut' = LastOut)
  BY DEF Queue!fifoVars
<1>1. InRun' => /\ head' \in Nat /\ tail' \in Nat
                /\ Contents' = Span(head', tail')
                /\ LastOut' = IF head' = 0 THEN MSG_COUNT ELSE head' - 1
  <2>1. (IndInv /\ InRun =>
          /\ head \in Nat /\ tail \in Nat /\ head <= tail /\ tail <= head + CAP
          /\ Contents = Span(head, tail)
          /\ LastOut = IF head = 0 THEN MSG_COUNT ELSE head - 1)'
    BY ContentsFacts, PTL
  <2> QED BY <2>1
<1>2. ~ InRun' => Contents' = <<>> /\ LastOut' = MSG_COUNT BY DEF Contents, LastOut
<1>3. ASSUME InRun' <=> InRun, InRun => head' = head /\ tail' = tail
      PROVE  Contents' = Contents /\ LastOut' = LastOut
  BY <1>1, <1>2, <1>3, ContentsFacts, OutsideRun
<1>4. ASSUME NEW t \in Workers, NEW l \in Labels, Goto(t, l) PROVE InRun' <=> InRun
  BY <1>4, GotoFacts DEF InRun, IndInv, Workers
<1>5. CASE Reset
  <2>1. ~ InRun /\ InRun' /\ head' = 0 /\ tail' = 0
    BY <1>5 DEF Reset, InRun, Goto, IndInv, TypeOK, Workers
  <2>2. Contents' = <<>> /\ LastOut' = MSG_COUNT BY <1>1, <2>1 DEF Span
  <2> QED BY <2>1, <2>2, OutsideRun
<1>6. CASE CreateProd \/ CreateCons \/ JoinProd
  <2>1. head' = head /\ tail' = tail /\ InRun /\ InRun'
    BY <1>6 DEF CreateProd, CreateCons, Create, JoinProd, InRun, IndInv, TypeOK, Workers
  <2> QED BY <1>3, <2>1
<1>7. CASE JoinCons
  <2>1. ~ InRun' BY <1>7 DEF JoinCons, InRun, IndInv, TypeOK, Workers
  <2> QED BY <1>2, <2>1 DEF Queue!Next, Queue!Clear
<1>8. CASE EnqAdvance
  <2>1. InRun /\ i["prod"] = tail /\ tail < MSG_COUNT /\ tail < head + CAP
    BY <1>8, ProdSection DEF EnqAdvance, Section, IndInv, SlotInv
  <2>2. head' = head /\ tail' = tail + 1 /\ InRun'
    BY <1>4, <1>8, <2>1 DEF EnqAdvance, Workers, Labels
  <2>3. head \in Nat /\ tail \in Nat /\ head <= tail /\ Contents = Span(head, tail)
    BY <2>1, ContentsFacts
  <2>4. Len(Contents) < CAP /\ tail \in Msg
    <3>1. Len(Contents) = tail - head BY <2>3, SpanType
    <3>2. tail - head < CAP BY <2>1, <2>3, MutexAssumption
    <3> QED BY <2>1, <2>3, <3>1, <3>2, MutexAssumption DEF Msg
  <2>5. Contents' = Append(Contents, tail) /\ LastOut' = LastOut
    BY <1>1, <2>1, <2>2, <2>3, SpanAppend, ContentsFacts
  <2> QED BY <2>4, <2>5 DEF Queue!Next, Queue!Put
<1>9. CASE DeqAdvance
  <2>1. InRun /\ head < tail
    BY <1>9, ConsSection DEF DeqAdvance, Section, IndInv, SlotInv
  <2>2. head' = head + 1 /\ tail' = tail /\ InRun'
    BY <1>4, <1>9, <2>1 DEF DeqAdvance, Workers, Labels
  <2>3. head \in Nat /\ tail \in Nat /\ Contents = Span(head, tail)
    BY <2>1, ContentsFacts
  <2>4. Contents # <<>> /\ Head(Contents) = head /\ Tail(Contents) = Contents'
    BY <1>1, <2>1, <2>2, <2>3, SpanTake
  <2>5. LastOut' = head BY <1>1, <2>2, <2>3
  <2> QED BY <2>4, <2>5 DEF Queue!Next, Queue!Take
<1>10. CASE EnqCheck \/ EnqWrite
  <2>1. head' = head /\ tail' = tail /\ \E l \in Labels : Goto("prod", l)
    BY <1>10 DEF EnqCheck, EnqWrite, Labels
  <2> QED BY <1>3, <1>4, <2>1 DEF Workers
<1>11. CASE DeqCheck \/ DeqRead
  <2>1. head' = head /\ tail' = tail /\ \E l \in Labels : Goto("cons", l)
    BY <1>11 DEF DeqCheck, DeqRead, Labels
  <2> QED BY <1>3, <1>4, <2>1 DEF Workers
<1>12. ASSUME NEW t \in Workers, Lock(t) \/ Unlock(t) \/ GiveUp(t) \/ Return(t)
       PROVE  Contents' = Contents /\ LastOut' = LastOut
  <2>1. head' = head /\ tail' = tail /\ \E l \in Labels : Goto(t, l)
    BY <1>12 DEF Lock, Unlock, GiveUp, Return, Labels
  <2> QED BY <1>3, <1>4, <2>1
<1>13. CASE Finished \/ UNCHANGED vars
  <2>1. head' = head /\ tail' = tail /\ pc' = pc BY <1>13 DEF Finished, vars
  <2> QED BY <1>3, <2>1 DEF InRun
<1> QED BY <1>5, <1>6, <1>7, <1>8, <1>9, <1>10, <1>11, <1>12, <1>13
       DEF Next, MainNext, Critical

(* mtq_enqueue and mtq_dequeue together behave as an atomic bounded queue  *)
(* whose operations take effect at tail++ and head++.                      *)
THEOREM Refinement == Spec => ImplementsFIFO
<1>1. Spec => []IndInv BY Invariance
<1> QED BY <1>1, InitImplements, StepImplements, PTL
       DEF Spec, ImplementsFIFO, Queue!Spec
=============================================================================
