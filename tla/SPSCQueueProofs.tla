-------------------------- MODULE SPSCQueueProofs --------------------------
(***************************************************************************)
(* The lock-free queue is safe for every capacity, message count and       *)
(* number of runs.  IndInv is inductive: one lemma per action shows that   *)
(* the action keeps it, with one step per part of the invariant.           *)
(***************************************************************************)
EXTENDS SPSCQueue, CommonTheorems

LEMMA SlotFacts ==
  /\ \A n \in Nat : Slot(n) \in Slots
  /\ \A a, b \in Nat : a < b /\ b < a + CAP => Slot(a) # Slot(b)
BY SPSCAssumption, Division, SlotsDistinct DEF Slot, Slots

LEMMA InitInv == Init => IndInv
<1> SUFFICES ASSUME Init PROVE IndInv OBVIOUS
<1> USE SPSCAssumption
<1>1. TypeOK
  BY DEF Init, TypeOK, Counts, Msg, Slots, NoCount, NoTouch, NoView, Workers, Labels
<1>2. PhaseInv /\ IndexInv /\ LocalInv
  BY DEF Init, PhaseInv, IndexInv, LocalInv, InOrder, Workers, NoCount
<1>3. OrderInv /\ SlotInv
  BY DEF Init, OrderInv, SlotInv, InRun, Workers, NoCount
<1> QED BY <1>1, <1>2, <1>3 DEF IndInv

(***************************************************************************)
(* What the invariant says of each thread, as facts about single values.   *)
(***************************************************************************)
LEMMA TypeFacts ==
  ASSUME TypeOK
  PROVE  /\ head \in Nat /\ tail \in Nat /\ head <= MSG_COUNT /\ tail <= MSG_COUNT
         /\ \A t \in Workers : /\ i[t] \in Nat /\ own[t] \in Nat /\ seen[t] \in Nat
                              /\ made[t] \in Nat /\ knows[t] \in Nat
         /\ \A t \in Workers, s \in Slots : last[t][s] \in Nat
<1>1. \A n \in Counts : n \in Nat /\ n <= MSG_COUNT BY SPSCAssumption DEF Counts
<1>2. head \in Counts /\ tail \in Counts BY DEF TypeOK
<1>3. ASSUME NEW t \in Workers
      PROVE  /\ i[t] \in Counts /\ own[t] \in Counts /\ seen[t] \in Counts
             /\ made[t] \in Counts /\ knows[t] \in Counts
  BY DEF TypeOK
<1>4. ASSUME NEW t \in Workers, NEW s \in Slots PROVE last[t][s] \in Counts
  BY DEF TypeOK
<1> QED BY <1>1, <1>2, <1>3, <1>4

LEMMA GotoFacts ==
  ASSUME TypeOK, NEW t \in Workers \cup {"main"}, NEW l \in Labels, Goto(t, l)
  PROVE  /\ pc' \in [Workers \cup {"main"} -> Labels]
         /\ pc'[t] = l
         /\ \A u \in Workers \cup {"main"} : u # t => pc'[u] = pc[u]
BY DEF TypeOK, Goto

LEMMA ProdFacts ==
  ASSUME IndInv, pc["prod"] \in Active
  PROVE  /\ pc["main"] \in {"create_cons", "join_prod"} /\ InRun
         /\ head <= tail /\ i["prod"] = tail
         /\ knows["prod"] = seen["prod"] /\ seen["prod"] <= head
         /\ tail <= seen["prod"] + CAP
         /\ made["prod"] = IF pc["prod"] = "publish" THEN tail + 1 ELSE tail
<1>1. pc["main"] \in {"create_cons", "join_prod"} /\ pc["prod"] # "idle"
  BY DEF IndInv, PhaseInv, Active
<1>2. InRun BY <1>1 DEF InRun
<1>3. i["prod"] = tail BY <1>1 DEF IndInv, IndexInv
<1>4. knows["prod"] = seen["prod"] BY <1>1 DEF IndInv, OrderInv, Workers
<1>5. seen["prod"] <= head /\ tail <= seen["prod"] + CAP BY <1>1 DEF IndInv, LocalInv
<1>6. head <= tail BY <1>2 DEF IndInv, SlotInv
<1>7. made["prod"] = IF pc["prod"] = "publish" THEN tail + 1 ELSE tail
  BY <1>2 DEF IndInv, OrderInv
<1> QED BY <1>1, <1>2, <1>3, <1>4, <1>5, <1>6, <1>7

LEMMA ConsFacts ==
  ASSUME IndInv, pc["cons"] \in Active
  PROVE  /\ pc["main"] \in {"join_prod", "join_cons"} /\ InRun
         /\ head <= tail /\ tail <= head + CAP /\ i["cons"] = head
         /\ knows["cons"] = seen["cons"] /\ head <= seen["cons"] /\ seen["cons"] <= tail
         /\ made["cons"] = IF pc["cons"] = "publish" THEN head + 1 ELSE head
<1>1. pc["main"] \in {"join_prod", "join_cons"} /\ pc["cons"] # "idle"
  BY DEF IndInv, PhaseInv, Active
<1>2. InRun BY <1>1 DEF InRun
<1>3. i["cons"] = head BY <1>1 DEF IndInv, IndexInv
<1>4. knows["cons"] = seen["cons"] BY <1>1 DEF IndInv, OrderInv, Workers
<1>5. head <= seen["cons"] /\ seen["cons"] <= tail BY <1>1 DEF IndInv, LocalInv
<1>6. head <= tail /\ tail <= head + CAP BY <1>2 DEF IndInv, SlotInv
<1>7. made["cons"] = IF pc["cons"] = "publish" THEN head + 1 ELSE head
  BY <1>2 DEF IndInv, OrderInv
<1> QED BY <1>1, <1>2, <1>3, <1>4, <1>5, <1>6, <1>7

(* Every slot a thread last touched with its n-th access is the slot of n. *)
LEMMA TouchFacts ==
  ASSUME IndInv, InRun, NEW t \in Workers, NEW s \in Slots
  PROVE  last[t][s] <= made[t] /\ (last[t][s] > 0 => Slot(last[t][s] - 1) = s)
BY DEF IndInv, OrderInv

(***************************************************************************)
(* The invariant orders the two threads' accesses to a slot.               *)
(***************************************************************************)
LEMMA ProdOrdered ==
  ASSUME IndInv, pc["prod"] = "access"
  PROVE  ~ Unordered("prod", Slot(own["prod"]))
<1>1. TypeOK BY DEF IndInv
<1>2. own["prod"] = tail /\ tail < seen["prod"] + CAP BY DEF IndInv, LocalInv
<1>3. InRun /\ knows["prod"] = seen["prod"] /\ seen["prod"] <= head /\ head <= tail
  BY ProdFacts DEF Active
<1> DEFINE r == last["cons"][Slot(tail)]
<1>4. SUFFICES ASSUME r > seen["prod"] PROVE FALSE
  BY <1>2, <1>3 DEF Unordered, Other
<1>5. Slot(tail) \in Slots BY <1>1, TypeFacts, SlotFacts
<1>6. /\ r \in Nat /\ seen["prod"] \in Nat /\ head \in Nat /\ tail \in Nat
      /\ made["cons"] \in Nat
  BY <1>1, <1>5, TypeFacts DEF Workers
<1>7. r <= made["cons"] /\ Slot(r - 1) = Slot(tail)
  BY <1>3, <1>4, <1>5, <1>6, TouchFacts DEF Workers
<1>8. made["cons"] <= head \/ (made["cons"] = head + 1 /\ head < tail)
  <2>1. CASE pc["cons"] = "publish"
    <3>1. made["cons"] = head + 1 BY <2>1, <1>3 DEF IndInv, OrderInv
    <3>2. head < seen["cons"] /\ seen["cons"] <= tail BY <2>1 DEF IndInv, LocalInv
    <3> QED BY <1>1, <1>6, <3>1, <3>2, TypeFacts DEF Workers
  <2>2. CASE pc["cons"] # "publish"
    BY <2>2, <1>3, <1>6 DEF IndInv, OrderInv
  <2> QED BY <2>1, <2>2
<1> HIDE DEF r
<1>9. r - 1 \in Nat /\ r - 1 < tail /\ tail < (r - 1) + CAP
  BY <1>2, <1>3, <1>4, <1>6, <1>7, <1>8, SPSCAssumption
<1> QED BY <1>6, <1>7, <1>9, SlotFacts

LEMMA ConsOrdered ==
  ASSUME IndInv, pc["cons"] = "access"
  PROVE  ~ Unordered("cons", Slot(own["cons"]))
<1>1. TypeOK BY DEF IndInv
<1>2. own["cons"] = head /\ head < seen["cons"] BY DEF IndInv, LocalInv
<1>3. InRun /\ knows["cons"] = seen["cons"] /\ head <= tail /\ tail <= head + CAP
  BY ConsFacts DEF Active
<1> DEFINE w == last["prod"][Slot(head)]
<1>4. SUFFICES ASSUME w > seen["cons"] PROVE FALSE
  BY <1>2, <1>3 DEF Unordered, Other
<1>5. Slot(head) \in Slots BY <1>1, TypeFacts, SlotFacts
<1>6. /\ w \in Nat /\ seen["cons"] \in Nat /\ head \in Nat /\ tail \in Nat
      /\ made["prod"] \in Nat
  BY <1>1, <1>5, TypeFacts DEF Workers
<1>7. w <= made["prod"] /\ Slot(w - 1) = Slot(head)
  BY <1>3, <1>4, <1>5, <1>6, TouchFacts DEF Workers
<1>8. made["prod"] <= tail \/ (made["prod"] = tail + 1 /\ tail < head + CAP)
  <2>1. CASE pc["prod"] = "publish"
    <3>1. made["prod"] = tail + 1 /\ seen["prod"] <= head BY <2>1, ProdFacts DEF Active
    <3>2. tail < seen["prod"] + CAP BY <2>1 DEF IndInv, LocalInv
    <3> QED BY <1>1, <1>6, <3>1, <3>2, TypeFacts, SPSCAssumption DEF Workers
  <2>2. CASE pc["prod"] # "publish"
    BY <2>2, <1>3, <1>6 DEF IndInv, OrderInv
  <2> QED BY <2>1, <2>2
<1> HIDE DEF w
<1>9. w - 1 \in Nat /\ head < w - 1 /\ w - 1 < head + CAP
  BY <1>2, <1>3, <1>4, <1>6, <1>7, <1>8, SPSCAssumption
<1> QED BY <1>6, <1>7, <1>9, SlotFacts

LEMMA RaceFree == IndInv => NoDataRace
BY ProdOrdered, ConsOrdered DEF NoDataRace, Workers

(***************************************************************************)
(* main keeps the invariant.                                               *)
(***************************************************************************)
LEMMA ResetHeadInv == IndInv /\ ResetHead => IndInv'
<1> SUFFICES ASSUME IndInv, ResetHead PROVE IndInv' OBVIOUS
<1>1. /\ pc' \in [Workers \cup {"main"} -> Labels]
      /\ pc'["main"] = "reset_tail" /\ pc'["prod"] = "idle" /\ pc'["cons"] = "idle"
      /\ pc["main"] = "reset_head"
  BY DEF IndInv, ResetHead, TypeOK, Goto, Workers, PhaseInv, Labels
<1>2. TypeOK'
  <2>1. made' \in [Workers -> Counts] /\ knows' \in [Workers -> Counts]
     /\ last' \in [Workers -> [Slots -> Counts]] /\ view' \in [Workers -> [Counts -> Counts]]
    BY SPSCAssumption DEF ResetHead, NoCount, NoTouch, NoView, Counts
  <2>2. head' \in Counts /\ received' \in Seq(Msg)
    BY SPSCAssumption DEF ResetHead, Counts
  <2> QED BY <1>1, <2>1, <2>2 DEF IndInv, ResetHead, TypeOK
<1>3. PhaseInv' BY <1>1 DEF PhaseInv
<1>4. IndexInv' BY <1>1 DEF IndInv, ResetHead, IndexInv, InOrder, Workers
<1>5. OrderInv' BY <1>1 DEF ResetHead, OrderInv, Workers, InRun
<1>6. LocalInv' BY <1>1 DEF LocalInv
<1>7. SlotInv' BY <1>1 DEF SlotInv, InRun
<1> QED BY <1>2, <1>3, <1>4, <1>5, <1>6, <1>7 DEF IndInv

LEMMA ResetTailInv == IndInv /\ ResetTail => IndInv'
<1> SUFFICES ASSUME IndInv, ResetTail PROVE IndInv' OBVIOUS
<1>1. /\ pc' \in [Workers \cup {"main"} -> Labels]
      /\ pc'["main"] = "create_prod" /\ pc'["prod"] = "idle" /\ pc'["cons"] = "idle"
      /\ pc["main"] = "reset_tail"
  BY DEF IndInv, ResetTail, TypeOK, Goto, Workers, PhaseInv, Labels
<1>2. TypeOK'
  <2>1. tail' \in Counts BY SPSCAssumption DEF ResetTail, Counts
  <2> QED BY <1>1, <2>1 DEF IndInv, ResetTail, TypeOK, localVars, hbVars
<1>3. PhaseInv' BY <1>1 DEF PhaseInv
<1>4. IndexInv' BY <1>1 DEF IndInv, ResetTail, IndexInv, InOrder, Workers, localVars
<1>5. OrderInv'
  <2>1. /\ made' = NoCount /\ knows' = NoCount /\ view' = NoView /\ last' = NoTouch
        /\ head' = 0 /\ tail' = 0
    BY <1>1 DEF IndInv, ResetTail, OrderInv, IndexInv, hbVars
  <2>2. /\ made'["prod"] = 0 /\ made'["cons"] = 0
        /\ \A n \in 0 .. 0 : view'["prod"][n] = n /\ view'["cons"][n] = n
        /\ \A t \in Workers, s \in Slots : last'[t][s] = 0 /\ made'[t] = 0
    BY <2>1, SPSCAssumption DEF NoCount, NoView, NoTouch, Workers, Counts
  <2> QED BY <1>1, <2>1, <2>2 DEF OrderInv, Workers
<1>6. LocalInv' BY <1>1 DEF LocalInv
<1>7. SlotInv'
  <2>1. made'["prod"] = 0 /\ head' = 0 /\ tail' = 0
    BY <1>1 DEF IndInv, ResetTail, OrderInv, IndexInv, hbVars, NoCount, Workers
  <2> QED BY <2>1, SPSCAssumption DEF SlotInv
<1> QED BY <1>2, <1>3, <1>4, <1>5, <1>6, <1>7 DEF IndInv

LEMMA CreateProdInv == IndInv /\ CreateProd => IndInv'
<1> SUFFICES ASSUME IndInv, CreateProd PROVE IndInv' OBVIOUS
<1>1. /\ pc' \in [Workers \cup {"main"} -> Labels]
      /\ pc'["main"] = "create_cons" /\ pc'["prod"] = "load_own" /\ pc'["cons"] = "idle"
      /\ pc["main"] = "create_prod"
  BY DEF IndInv, CreateProd, Create, TypeOK, Workers, PhaseInv, Labels
<1>2. head = 0 /\ tail = 0 /\ made = NoCount /\ knows = NoCount
  BY <1>1 DEF IndInv, IndexInv, OrderInv
<1>3. /\ i' \in [Workers -> Counts] /\ i'["prod"] = 0
      /\ seen' \in [Workers -> Counts] /\ seen'["prod"] = 0
      /\ UNCHANGED <<head, tail, data, run, own, val, received, made, last, view, knows>>
  BY <1>2, SPSCAssumption
     DEF CreateProd, Create, IndInv, TypeOK, Workers, Counts, queueVars, hbVars
<1>4. TypeOK' BY <1>1, <1>3 DEF IndInv, TypeOK
<1>5. PhaseInv' BY <1>1 DEF PhaseInv, Active
<1>6. IndexInv' BY <1>1, <1>2, <1>3 DEF IndInv, IndexInv, InOrder, Workers
<1>7. knows'["prod"] = 0 /\ knows'["cons"] = 0 /\ InRun BY <1>1, <1>2, <1>3 DEF NoCount, Workers, InRun
<1>8. OrderInv' BY <1>1, <1>3, <1>7 DEF IndInv, PhaseInv, OrderInv, Workers, InRun
<1>9. LocalInv' BY <1>1, <1>2, <1>3, SPSCAssumption DEF LocalInv
<1>10. SlotInv' BY <1>3, <1>7 DEF IndInv, SlotInv
<1> QED BY <1>4, <1>5, <1>6, <1>8, <1>9, <1>10 DEF IndInv

LEMMA CreateConsInv == IndInv /\ CreateCons => IndInv'
<1> SUFFICES ASSUME IndInv, CreateCons PROVE IndInv' OBVIOUS
<1>1. /\ pc' \in [Workers \cup {"main"} -> Labels]
      /\ pc'["main"] = "join_prod" /\ pc'["prod"] = pc["prod"] /\ pc'["cons"] = "load_own"
      /\ pc["main"] = "create_cons" /\ pc["prod"] \in Active /\ pc["cons"] = "idle"
  BY DEF IndInv, CreateCons, Create, TypeOK, Workers, PhaseInv, Labels
<1>2. head = 0 /\ tail \in Nat /\ knows["cons"] = 0
  BY <1>1, TypeFacts DEF IndInv, IndexInv, OrderInv
<1>3. /\ i' \in [Workers -> Counts] /\ i'["cons"] = 0 /\ i'["prod"] = i["prod"]
      /\ seen' \in [Workers -> Counts] /\ seen'["cons"] = 0 /\ seen'["prod"] = seen["prod"]
      /\ UNCHANGED <<head, tail, data, run, own, val, received, made, last, view, knows>>
  <2>1. 0 \in Counts BY SPSCAssumption DEF Counts
  <2>2. i' = [i EXCEPT !["cons"] = 0] /\ seen' = [seen EXCEPT !["cons"] = 0]
    BY DEF CreateCons, Create
  <2> QED BY <2>1, <2>2
         DEF CreateCons, Create, IndInv, TypeOK, Workers, queueVars, hbVars
<1>4. TypeOK' BY <1>1, <1>3 DEF IndInv, TypeOK
<1>5. PhaseInv' BY <1>1 DEF PhaseInv, Active
<1>6. IndexInv' BY <1>1, <1>2, <1>3 DEF IndInv, IndexInv, InOrder, Workers
<1>7. InRun BY <1>1 DEF InRun
<1>8. OrderInv' BY <1>1, <1>2, <1>3, <1>7 DEF IndInv, OrderInv, Workers, InRun
<1>9. LocalInv' BY <1>1, <1>2, <1>3 DEF IndInv, LocalInv
<1>10. SlotInv' BY <1>3, <1>7 DEF IndInv, SlotInv
<1> QED BY <1>4, <1>5, <1>6, <1>8, <1>9, <1>10 DEF IndInv

LEMMA JoinProdInv == IndInv /\ JoinProd => IndInv'
<1> SUFFICES ASSUME IndInv, JoinProd PROVE IndInv' OBVIOUS
<1>1. /\ pc' \in [Workers \cup {"main"} -> Labels]
      /\ pc'["main"] = "join_cons" /\ pc'["prod"] = "idle" /\ pc'["cons"] = pc["cons"]
      /\ pc["main"] = "join_prod" /\ pc["prod"] = "done" /\ pc["cons"] \in Active
  BY DEF IndInv, JoinProd, Joined, TypeOK, Workers, PhaseInv, Labels
<1>2. UNCHANGED <<head, tail, data, run, i, own, seen, val, received, made, last, view, knows>>
  BY DEF JoinProd, queueVars, localVars, hbVars
<1>3. tail = MSG_COUNT BY <1>1 DEF IndInv, IndexInv, Workers
<1>4. TypeOK' BY <1>1, <1>2 DEF IndInv, TypeOK
<1>5. PhaseInv' BY <1>1 DEF PhaseInv
<1>6. IndexInv' BY <1>1, <1>2, <1>3 DEF IndInv, IndexInv, InOrder, Workers
<1>7. InRun BY <1>1 DEF InRun
<1>8. OrderInv' BY <1>1, <1>2, <1>7 DEF IndInv, OrderInv, Workers
<1>9. LocalInv' BY <1>1, <1>2 DEF IndInv, LocalInv
<1>10. SlotInv' BY <1>2, <1>7 DEF IndInv, SlotInv
<1> QED BY <1>4, <1>5, <1>6, <1>8, <1>9, <1>10 DEF IndInv

LEMMA JoinConsInv == IndInv /\ JoinCons => IndInv'
<1> SUFFICES ASSUME IndInv, JoinCons PROVE IndInv' OBVIOUS
<1>1. /\ pc["main"] = "join_cons" /\ pc["cons"] = "done" /\ run' = run + 1
      /\ pc' = [pc EXCEPT !["main"] = IF run' = RUNS THEN "done" ELSE "reset_head",
                          !["cons"] = "idle"]
  BY DEF JoinCons, Joined
<1>2. /\ pc' \in [Workers \cup {"main"} -> Labels]
      /\ pc'["main"] = IF run' = RUNS THEN "done" ELSE "reset_head"
      /\ pc'["prod"] = "idle" /\ pc'["cons"] = "idle"
  BY <1>1 DEF IndInv, TypeOK, Workers, PhaseInv, Labels
<1>3. UNCHANGED <<head, tail, data, i, own, seen, val, received, made, last, view, knows>>
  BY DEF JoinCons, queueVars, localVars, hbVars
<1>4. head = MSG_COUNT /\ run < RUNS /\ run \in 0 .. RUNS
  BY <1>1 DEF IndInv, IndexInv, Workers, TypeOK
<1>5. TypeOK'
  <2>1. run' \in 0 .. RUNS BY <1>1, <1>4, SPSCAssumption
  <2> QED BY <1>2, <1>3, <2>1 DEF IndInv, TypeOK
<1>6. PhaseInv' BY <1>2 DEF PhaseInv
<1>7. IndexInv'
  <2>1. run' = RUNS \/ run' < RUNS BY <1>1, <1>4, SPSCAssumption
  <2> QED BY <1>2, <1>3, <1>4, <2>1 DEF IndInv, IndexInv, InOrder, Workers
<1>8. OrderInv' BY <1>2 DEF OrderInv, Workers, InRun
<1>9. LocalInv' BY <1>2 DEF LocalInv
<1>10. SlotInv' BY <1>2 DEF SlotInv, InRun
<1> QED BY <1>5, <1>6, <1>7, <1>8, <1>9, <1>10 DEF IndInv

(***************************************************************************)
(* The producer keeps the invariant.                                       *)
(***************************************************************************)
LEMMA EnqLoadTailInv == IndInv /\ EnqLoadTail => IndInv'
<1> SUFFICES ASSUME IndInv, EnqLoadTail PROVE IndInv' OBVIOUS
<1>1. /\ pc["main"] \in {"create_cons", "join_prod"} /\ InRun /\ i["prod"] = tail
      /\ pc["prod"] = "load_own"
  BY ProdFacts DEF EnqLoadTail, Active
<1>2. /\ pc' \in [Workers \cup {"main"} -> Labels] /\ pc'["prod"] = "load_other"
      /\ pc'["main"] = pc["main"] /\ pc'["cons"] = pc["cons"]
  BY GotoFacts DEF IndInv, EnqLoadTail, Workers, Labels
<1>3. /\ UNCHANGED <<head, tail, data, run, i, seen, val, received, made, last, view, knows>>
      /\ tail < MSG_COUNT
  BY <1>1 DEF EnqLoadTail, MoreMessages, queueVars, hbVars
<1>4. own' \in [Workers -> Counts] /\ own'["prod"] = tail /\ own'["cons"] = own["cons"]
  BY DEF EnqLoadTail, IndInv, TypeOK, Workers
<1>5. TypeOK' BY <1>2, <1>3, <1>4 DEF IndInv, TypeOK
<1>6. PhaseInv' BY <1>1, <1>2 DEF IndInv, PhaseInv, Active
<1>7. IndexInv' BY <1>1, <1>2, <1>3 DEF IndInv, IndexInv, InOrder, Workers
<1>8. OrderInv' BY <1>1, <1>2, <1>3 DEF IndInv, OrderInv, Workers
<1>9. LocalInv' BY <1>1, <1>2, <1>3, <1>4 DEF IndInv, LocalInv
<1>10. SlotInv' BY <1>1, <1>3 DEF IndInv, SlotInv
<1> QED BY <1>5, <1>6, <1>7, <1>8, <1>9, <1>10 DEF IndInv

LEMMA EnqLoadHeadInv == \A h \in Counts : IndInv /\ EnqLoadHead(h) => IndInv'
<1> SUFFICES ASSUME NEW h \in Counts, IndInv, EnqLoadHead(h) PROVE IndInv' OBVIOUS
<1>1. /\ pc["main"] \in {"create_cons", "join_prod"} /\ InRun
      /\ pc["prod"] = "load_other" /\ knows["prod"] = seen["prod"]
      /\ seen["prod"] <= head /\ tail <= seen["prod"] + CAP /\ own["prod"] = tail
      /\ made["prod"] = tail
  BY ProdFacts DEF EnqLoadHead, Active, IndInv, LocalInv
<1>2. head \in Nat /\ tail \in Nat /\ seen["prod"] \in Nat /\ h \in Nat
      /\ seen["prod"] <= h /\ h <= head
  BY TypeFacts, SPSCAssumption DEF IndInv, EnqLoadHead, Counts, Workers
<1>3. /\ pc' \in [Workers \cup {"main"} -> Labels]
      /\ pc'["prod"] = IF tail - h = CAP THEN "load_own" ELSE "access"
      /\ pc'["main"] = pc["main"] /\ pc'["cons"] = pc["cons"]
  BY <1>1, GotoFacts DEF IndInv, EnqLoadHead, Workers, Labels, IsFull
<1>4. UNCHANGED <<head, tail, data, run, i, own, val, received, made, last, view>>
  BY DEF EnqLoadHead, queueVars
<1>5. view["cons"][h] = h BY <1>1, <1>2 DEF IndInv, OrderInv
<1>6. seen' = [seen EXCEPT !["prod"] = h] /\ knows' = [knows EXCEPT !["prod"] = h]
  <2>1. /\ seen' = [seen EXCEPT !["prod"] = h]
        /\ knows' = [knows EXCEPT !["prod"] = IF view["cons"][h] > @ THEN view["cons"][h]
                                                                  ELSE @]
    BY DEF EnqLoadHead, Acquire, Other
  <2>2. (IF h > knows["prod"] THEN h ELSE knows["prod"]) = h BY <1>1, <1>2
  <2> QED BY <1>5, <2>1, <2>2
<1>7. /\ seen' \in [Workers -> Counts] /\ knows' \in [Workers -> Counts]
      /\ seen'["prod"] = h /\ seen'["cons"] = seen["cons"]
      /\ knows'["prod"] = h /\ knows'["cons"] = knows["cons"]
  BY <1>6 DEF IndInv, TypeOK, Workers
<1>8. TypeOK' BY <1>3, <1>4, <1>7 DEF IndInv, TypeOK
<1>9. PhaseInv' BY <1>1, <1>3 DEF IndInv, PhaseInv, Active
<1>10. IndexInv' BY <1>1, <1>3, <1>4 DEF IndInv, IndexInv, InOrder, Workers
<1>11. OrderInv' BY <1>1, <1>3, <1>4, <1>7 DEF IndInv, OrderInv, Workers, InRun
<1>12. LocalInv'
  <2>1. tail <= h + CAP /\ (tail - h # CAP => tail < h + CAP)
    BY <1>1, <1>2, SPSCAssumption
  <2> QED BY <1>1, <1>2, <1>3, <1>4, <1>7, <2>1 DEF IndInv, LocalInv
<1>13. SlotInv' BY <1>1, <1>4 DEF IndInv, SlotInv
<1> QED BY <1>8, <1>9, <1>10, <1>11, <1>12, <1>13 DEF IndInv

LEMMA EnqWriteInv == IndInv /\ EnqWrite => IndInv'
<1> SUFFICES ASSUME IndInv, EnqWrite PROVE IndInv' OBVIOUS
<1>1. /\ pc["main"] \in {"create_cons", "join_prod"} /\ InRun /\ i["prod"] = tail
      /\ pc["prod"] = "access" /\ own["prod"] = tail /\ tail < MSG_COUNT
      /\ made["prod"] = tail /\ seen["prod"] <= head /\ tail < seen["prod"] + CAP
      /\ head <= tail
  BY ProdFacts DEF EnqWrite, Active, IndInv, LocalInv
<1>2. /\ head \in Nat /\ tail \in Nat /\ seen["prod"] \in Nat /\ tail \in Msg
      /\ tail + 1 \in Counts /\ tail < head + CAP /\ Slot(tail) \in Slots
  BY <1>1, TypeFacts, SlotFacts, SPSCAssumption DEF IndInv, Counts, Msg, Workers
<1>3. /\ pc' \in [Workers \cup {"main"} -> Labels] /\ pc'["prod"] = "publish"
      /\ pc'["main"] = pc["main"] /\ pc'["cons"] = pc["cons"]
  BY GotoFacts DEF IndInv, EnqWrite, Workers, Labels
<1>4. UNCHANGED <<head, tail, run, i, own, seen, val, received, view, knows>>
  BY DEF EnqWrite, localVars
<1>5. /\ data' = [data EXCEPT ![Slot(tail)] = tail]
      /\ made' = [made EXCEPT !["prod"] = tail + 1]
      /\ last' = [last EXCEPT !["prod"][Slot(tail)] = tail + 1]
  BY <1>1 DEF EnqWrite, Touch
<1>6. made'["prod"] = tail + 1 /\ made'["cons"] = made["cons"]
  BY <1>5 DEF IndInv, TypeOK, Workers
<1>7. TypeOK'
  <2>1. data' \in [Slots -> Msg] BY <1>2, <1>5 DEF IndInv, TypeOK
  <2>2. made' \in [Workers -> Counts] BY <1>2, <1>5 DEF IndInv, TypeOK
  <2>3. last' \in [Workers -> [Slots -> Counts]] BY <1>2, <1>5 DEF IndInv, TypeOK
  <2> QED BY <1>3, <1>4, <2>1, <2>2, <2>3 DEF IndInv, TypeOK
<1>8. PhaseInv' BY <1>1, <1>3 DEF IndInv, PhaseInv, Active
<1>9. IndexInv' BY <1>1, <1>3, <1>4 DEF IndInv, IndexInv, InOrder, Workers
<1>10. OrderInv'
  <2>1. ASSUME NEW t \in Workers, NEW s \in Slots
        PROVE  last'[t][s] <= made'[t] /\ (last'[t][s] > 0 => Slot(last'[t][s] - 1) = s)
    <3>1. CASE t = "prod" /\ s = Slot(tail)
      <4>1. last'[t][s] = tail + 1 BY <1>2, <1>5, <3>1 DEF IndInv, TypeOK, Workers
      <4> QED BY <1>2, <1>6, <3>1, <4>1
    <3>2. CASE ~ (t = "prod" /\ s = Slot(tail))
      <4>1. last'[t][s] = last[t][s] BY <1>2, <1>5, <3>2 DEF IndInv, TypeOK, Workers
      <4>2. made[t] \in Nat /\ last[t][s] \in Nat BY TypeFacts DEF IndInv
      <4>3. made'[t] \in Nat /\ made[t] <= made'[t] BY <1>1, <1>2, <1>6, <4>2 DEF Workers
      <4> QED BY <1>1, <4>1, <4>2, <4>3, TouchFacts
    <3> QED BY <3>1, <3>2
  <2> QED BY <1>1, <1>3, <1>4, <1>6, <2>1 DEF IndInv, OrderInv, Workers
<1>11. LocalInv' BY <1>1, <1>3, <1>4 DEF IndInv, LocalInv
<1>12. SlotInv'
  <2>1. ASSUME NEW k \in head .. tail PROVE data'[Slot(k)] = k
    <3>1. k \in Nat /\ Slot(k) \in Slots BY <1>2, SlotFacts
    <3>2. CASE k = tail BY <1>5, <3>1, <3>2 DEF IndInv, TypeOK
    <3>3. CASE k < tail
      <4>1. Slot(k) # Slot(tail) BY <1>2, <3>1, <3>3, SlotFacts, SPSCAssumption
      <4>2. data[Slot(k)] = k BY <1>1, <1>2, <3>3 DEF IndInv, SlotInv
      <4> QED BY <1>5, <3>1, <4>1, <4>2 DEF IndInv, TypeOK
    <3> QED BY <1>2, <3>2, <3>3
  <2> QED BY <1>1, <1>2, <1>4, <1>6, <2>1, SPSCAssumption DEF SlotInv
<1> QED BY <1>7, <1>8, <1>9, <1>10, <1>11, <1>12 DEF IndInv

LEMMA EnqPublishInv == IndInv /\ EnqPublish => IndInv'
<1> SUFFICES ASSUME IndInv, EnqPublish PROVE IndInv' OBVIOUS
<1>1. /\ pc["main"] \in {"create_cons", "join_prod"} /\ InRun /\ i["prod"] = tail
      /\ pc["prod"] = "publish" /\ own["prod"] = tail /\ tail < MSG_COUNT
      /\ made["prod"] = tail + 1 /\ seen["prod"] <= head /\ tail < seen["prod"] + CAP
      /\ head <= tail
  BY ProdFacts DEF EnqPublish, Active, IndInv, LocalInv
<1>2. /\ head \in Nat /\ tail \in Nat /\ seen["prod"] \in Nat
      /\ tail + 1 \in Counts /\ tail + 1 <= head + CAP
  BY <1>1, TypeFacts, SPSCAssumption DEF IndInv, Counts, Workers
<1>3. /\ pc' \in [Workers \cup {"main"} -> Labels] /\ pc'["prod"] = "load_own"
      /\ pc'["main"] = pc["main"] /\ pc'["cons"] = pc["cons"]
  BY GotoFacts DEF IndInv, EnqPublish, Workers, Labels
<1>4. /\ UNCHANGED <<head, data, run, own, seen, val, received, made, last, knows>>
      /\ tail' = tail + 1
  BY <1>1 DEF EnqPublish
<1>5. i' = [i EXCEPT !["prod"] = tail + 1] /\ view' = [view EXCEPT !["prod"][tail + 1] = tail + 1]
  BY <1>1, <1>4 DEF EnqPublish, Release
<1>6. TypeOK'
  <2>1. i' \in [Workers -> Counts] BY <1>2, <1>5 DEF IndInv, TypeOK
  <2>2. view' \in [Workers -> [Counts -> Counts]] BY <1>2, <1>5 DEF IndInv, TypeOK
  <2> QED BY <1>2, <1>3, <1>4, <2>1, <2>2 DEF IndInv, TypeOK
<1>7. i'["prod"] = tail + 1 /\ i'["cons"] = i["cons"] BY <1>5 DEF IndInv, TypeOK, Workers
<1>8. PhaseInv' BY <1>1, <1>3 DEF IndInv, PhaseInv, Active
<1>9. IndexInv' BY <1>1, <1>3, <1>4, <1>7 DEF IndInv, IndexInv, InOrder, Workers
<1>10. OrderInv'
  <2>1. \A n \in 0 .. head : view'["cons"][n] = n
    BY <1>1, <1>5 DEF IndInv, OrderInv, TypeOK, Workers
  <2>2. ASSUME NEW n \in 0 .. tail + 1 PROVE view'["prod"][n] = n
    <3>1. n \in Counts BY <1>2, SPSCAssumption DEF Counts
    <3>2. CASE n = tail + 1 BY <1>5, <3>1, <3>2 DEF IndInv, TypeOK, Workers
    <3>3. CASE n # tail + 1
      <4>1. view["prod"][n] = n BY <1>1, <1>2, <3>3 DEF IndInv, OrderInv
      <4> QED BY <1>5, <3>1, <3>3, <4>1 DEF IndInv, TypeOK, Workers
    <3> QED BY <3>2, <3>3
  <2> QED BY <1>1, <1>3, <1>4, <2>1, <2>2 DEF IndInv, OrderInv, Workers, InRun
<1>11. LocalInv'
  <2>1. tail + 1 <= seen["prod"] + CAP BY <1>1, <1>2, SPSCAssumption
  <2>2. pc["cons"] # "idle" => seen["cons"] \in Nat /\ seen["cons"] <= tail
    BY TypeFacts DEF IndInv, LocalInv, Workers
  <2>3. pc["cons"] # "idle" => seen["cons"] <= tail + 1 BY <1>2, <2>2
  <2> QED BY <1>1, <1>3, <1>4, <2>1, <2>3 DEF IndInv, LocalInv
<1>12. SlotInv' BY <1>1, <1>2, <1>4 DEF IndInv, SlotInv
<1> QED BY <1>6, <1>8, <1>9, <1>10, <1>11, <1>12 DEF IndInv

LEMMA ProdReturnInv == IndInv /\ ProdReturn => IndInv'
<1> SUFFICES ASSUME IndInv, ProdReturn PROVE IndInv' OBVIOUS
<1>1. /\ pc["main"] \in {"create_cons", "join_prod"} /\ InRun /\ pc["prod"] = "load_own"
  BY ProdFacts DEF ProdReturn, Active
<1>2. /\ pc' \in [Workers \cup {"main"} -> Labels] /\ pc'["prod"] = "done"
      /\ pc'["main"] = pc["main"] /\ pc'["cons"] = pc["cons"]
  BY GotoFacts DEF IndInv, ProdReturn, Workers, Labels
<1>3. UNCHANGED <<head, tail, data, run, i, own, seen, val, received, made, last, view, knows>>
  BY DEF ProdReturn, queueVars, localVars, hbVars
<1>4. i["prod"] = MSG_COUNT
  BY SPSCAssumption DEF ProdReturn, MoreMessages, IndInv, TypeOK, Counts, Workers
<1>5. TypeOK' BY <1>2, <1>3 DEF IndInv, TypeOK
<1>6. PhaseInv' BY <1>1, <1>2 DEF IndInv, PhaseInv, Active
<1>7. IndexInv' BY <1>1, <1>2, <1>3, <1>4 DEF IndInv, IndexInv, InOrder, Workers
<1>8. OrderInv' BY <1>1, <1>2, <1>3 DEF IndInv, OrderInv, Workers
<1>9. LocalInv' BY <1>1, <1>2, <1>3 DEF IndInv, LocalInv
<1>10. SlotInv' BY <1>1, <1>3 DEF IndInv, SlotInv
<1> QED BY <1>5, <1>6, <1>7, <1>8, <1>9, <1>10 DEF IndInv

(***************************************************************************)
(* The consumer keeps the invariant.                                       *)
(***************************************************************************)
LEMMA DeqLoadHeadInv == IndInv /\ DeqLoadHead => IndInv'
<1> SUFFICES ASSUME IndInv, DeqLoadHead PROVE IndInv' OBVIOUS
<1>1. /\ pc["main"] \in {"join_prod", "join_cons"} /\ InRun /\ i["cons"] = head
      /\ pc["cons"] = "load_own"
  BY ConsFacts DEF DeqLoadHead, Active
<1>2. /\ pc' \in [Workers \cup {"main"} -> Labels] /\ pc'["cons"] = "load_other"
      /\ pc'["main"] = pc["main"] /\ pc'["prod"] = pc["prod"]
  BY GotoFacts DEF IndInv, DeqLoadHead, Workers, Labels
<1>3. /\ UNCHANGED <<head, tail, data, run, i, seen, val, received, made, last, view, knows>>
      /\ head < MSG_COUNT
  BY <1>1 DEF DeqLoadHead, MoreMessages, queueVars, hbVars
<1>4. own' \in [Workers -> Counts] /\ own'["cons"] = head /\ own'["prod"] = own["prod"]
  BY DEF DeqLoadHead, IndInv, TypeOK, Workers
<1>5. TypeOK' BY <1>2, <1>3, <1>4 DEF IndInv, TypeOK
<1>6. PhaseInv' BY <1>1, <1>2 DEF IndInv, PhaseInv, Active
<1>7. IndexInv' BY <1>1, <1>2, <1>3 DEF IndInv, IndexInv, InOrder, Workers
<1>8. OrderInv' BY <1>1, <1>2, <1>3 DEF IndInv, OrderInv, Workers
<1>9. LocalInv' BY <1>1, <1>2, <1>3, <1>4 DEF IndInv, LocalInv
<1>10. SlotInv' BY <1>1, <1>3 DEF IndInv, SlotInv
<1> QED BY <1>5, <1>6, <1>7, <1>8, <1>9, <1>10 DEF IndInv

LEMMA DeqLoadTailInv == \A t \in Counts : IndInv /\ DeqLoadTail(t) => IndInv'
<1> SUFFICES ASSUME NEW t \in Counts, IndInv, DeqLoadTail(t) PROVE IndInv' OBVIOUS
<1>1. /\ pc["main"] \in {"join_prod", "join_cons"} /\ InRun
      /\ pc["cons"] = "load_other" /\ knows["cons"] = seen["cons"]
      /\ head <= seen["cons"] /\ seen["cons"] <= tail /\ own["cons"] = head
  BY ConsFacts DEF DeqLoadTail, Active, IndInv, LocalInv
<1>2. /\ head \in Nat /\ tail \in Nat /\ seen["cons"] \in Nat /\ t \in Nat
      /\ seen["cons"] <= t /\ t <= tail
  BY TypeFacts, SPSCAssumption DEF IndInv, DeqLoadTail, Counts, Workers
<1>3. /\ pc' \in [Workers \cup {"main"} -> Labels]
      /\ pc'["cons"] = IF head = t THEN "load_own" ELSE "access"
      /\ pc'["main"] = pc["main"] /\ pc'["prod"] = pc["prod"]
  BY <1>1, GotoFacts DEF IndInv, DeqLoadTail, Workers, Labels, IsEmpty
<1>4. UNCHANGED <<head, tail, data, run, i, own, val, received, made, last, view>>
  BY DEF DeqLoadTail, queueVars
<1>5. view["prod"][t] = t BY <1>1, <1>2 DEF IndInv, OrderInv
<1>6. seen' = [seen EXCEPT !["cons"] = t] /\ knows' = [knows EXCEPT !["cons"] = t]
  <2>1. /\ seen' = [seen EXCEPT !["cons"] = t]
        /\ knows' = [knows EXCEPT !["cons"] = IF view["prod"][t] > @ THEN view["prod"][t]
                                                                  ELSE @]
    BY DEF DeqLoadTail, Acquire, Other
  <2>2. (IF t > knows["cons"] THEN t ELSE knows["cons"]) = t BY <1>1, <1>2
  <2> QED BY <1>5, <2>1, <2>2
<1>7. /\ seen' \in [Workers -> Counts] /\ knows' \in [Workers -> Counts]
      /\ seen'["cons"] = t /\ seen'["prod"] = seen["prod"]
      /\ knows'["cons"] = t /\ knows'["prod"] = knows["prod"]
  BY <1>6 DEF IndInv, TypeOK, Workers
<1>8. TypeOK' BY <1>3, <1>4, <1>7 DEF IndInv, TypeOK
<1>9. PhaseInv' BY <1>1, <1>3 DEF IndInv, PhaseInv, Active
<1>10. IndexInv' BY <1>1, <1>3, <1>4 DEF IndInv, IndexInv, InOrder, Workers
<1>11. OrderInv' BY <1>1, <1>3, <1>4, <1>7 DEF IndInv, OrderInv, Workers, InRun
<1>12. LocalInv'
  <2>1. head <= t /\ (head # t => head < t) BY <1>1, <1>2
  <2> QED BY <1>1, <1>2, <1>3, <1>4, <1>7, <2>1 DEF IndInv, LocalInv
<1>13. SlotInv' BY <1>1, <1>4 DEF IndInv, SlotInv
<1> QED BY <1>8, <1>9, <1>10, <1>11, <1>12, <1>13 DEF IndInv

LEMMA DeqReadInv == IndInv /\ DeqRead => IndInv'
<1> SUFFICES ASSUME IndInv, DeqRead PROVE IndInv' OBVIOUS
<1>1. /\ pc["main"] \in {"join_prod", "join_cons"} /\ InRun /\ i["cons"] = head
      /\ pc["cons"] = "access" /\ own["cons"] = head /\ head < MSG_COUNT
      /\ made["cons"] = head /\ head < seen["cons"] /\ seen["cons"] <= tail
  BY ConsFacts DEF DeqRead, Active, IndInv, LocalInv
<1>2. /\ head \in Nat /\ tail \in Nat /\ seen["cons"] \in Nat /\ head \in Msg
      /\ head + 1 \in Counts /\ Slot(head) \in Slots /\ made["prod"] \in Nat
  BY <1>1, TypeFacts, SlotFacts, SPSCAssumption DEF IndInv, Counts, Msg, Workers
<1>3. /\ pc' \in [Workers \cup {"main"} -> Labels] /\ pc'["cons"] = "publish"
      /\ pc'["main"] = pc["main"] /\ pc'["prod"] = pc["prod"]
  BY GotoFacts DEF IndInv, DeqRead, Workers, Labels
<1>4. UNCHANGED <<head, tail, data, run, i, own, seen, received, view, knows>>
  BY DEF DeqRead, queueVars
<1>5. /\ made' = [made EXCEPT !["cons"] = head + 1]
      /\ last' = [last EXCEPT !["cons"][Slot(head)] = head + 1]
  BY <1>1 DEF DeqRead, Touch
<1>6. made'["cons"] = head + 1 /\ made'["prod"] = made["prod"]
  BY <1>5 DEF IndInv, TypeOK, Workers
<1>7. val' = head
  <2>1. made["prod"] = tail \/ made["prod"] = tail + 1 BY <1>1 DEF IndInv, OrderInv
  <2>2. head \in head .. made["prod"] - 1 BY <1>1, <1>2, <2>1
  <2>3. data[Slot(head)] = head BY <1>1, <2>2 DEF IndInv, SlotInv
  <2> QED BY <1>1, <2>3, ConsOrdered DEF DeqRead, ReadValues
<1>8. TypeOK'
  <2>1. made' \in [Workers -> Counts] BY <1>2, <1>5 DEF IndInv, TypeOK
  <2>2. last' \in [Workers -> [Slots -> Counts]] BY <1>2, <1>5 DEF IndInv, TypeOK
  <2> QED BY <1>2, <1>3, <1>4, <1>7, <2>1, <2>2 DEF IndInv, TypeOK
<1>9. PhaseInv' BY <1>1, <1>3 DEF IndInv, PhaseInv, Active
<1>10. IndexInv' BY <1>1, <1>3, <1>4 DEF IndInv, IndexInv, InOrder, Workers
<1>11. OrderInv'
  <2>1. ASSUME NEW t \in Workers, NEW s \in Slots
        PROVE  last'[t][s] <= made'[t] /\ (last'[t][s] > 0 => Slot(last'[t][s] - 1) = s)
    <3>1. CASE t = "cons" /\ s = Slot(head)
      <4>1. last'[t][s] = head + 1 BY <1>2, <1>5, <3>1 DEF IndInv, TypeOK, Workers
      <4> QED BY <1>2, <1>6, <3>1, <4>1
    <3>2. CASE ~ (t = "cons" /\ s = Slot(head))
      <4>1. last'[t][s] = last[t][s] BY <1>2, <1>5, <3>2 DEF IndInv, TypeOK, Workers
      <4>2. made[t] \in Nat /\ last[t][s] \in Nat BY TypeFacts DEF IndInv
      <4>3. made'[t] \in Nat /\ made[t] <= made'[t] BY <1>1, <1>2, <1>6, <4>2 DEF Workers
      <4> QED BY <1>1, <4>1, <4>2, <4>3, TouchFacts
    <3> QED BY <3>1, <3>2
  <2> QED BY <1>1, <1>3, <1>4, <1>6, <2>1 DEF IndInv, OrderInv, Workers
<1>12. LocalInv' BY <1>1, <1>3, <1>4, <1>7 DEF IndInv, LocalInv
<1>13. SlotInv' BY <1>1, <1>4, <1>6 DEF IndInv, SlotInv
<1> QED BY <1>8, <1>9, <1>10, <1>11, <1>12, <1>13 DEF IndInv

LEMMA DeqPublishInv == IndInv /\ DeqPublish => IndInv'
<1> SUFFICES ASSUME IndInv, DeqPublish PROVE IndInv' OBVIOUS
<1>1. /\ pc["main"] \in {"join_prod", "join_cons"} /\ InRun /\ i["cons"] = head
      /\ pc["cons"] = "publish" /\ own["cons"] = head /\ head < MSG_COUNT /\ val = head
      /\ made["cons"] = head + 1 /\ head < seen["cons"] /\ seen["cons"] <= tail
      /\ tail <= head + CAP
  BY ConsFacts DEF DeqPublish, Active, IndInv, LocalInv
<1>2. /\ head \in Nat /\ tail \in Nat /\ seen["cons"] \in Nat /\ seen["prod"] \in Nat
      /\ head + 1 \in Counts /\ head + 1 <= tail /\ made["prod"] \in Nat
  BY <1>1, TypeFacts, SPSCAssumption DEF IndInv, Counts, Workers
<1>3. /\ pc' \in [Workers \cup {"main"} -> Labels] /\ pc'["cons"] = "load_own"
      /\ pc'["main"] = pc["main"] /\ pc'["prod"] = pc["prod"]
  BY GotoFacts DEF IndInv, DeqPublish, Workers, Labels
<1>4. /\ UNCHANGED <<tail, data, run, own, seen, val, made, last, knows>>
      /\ head' = head + 1 /\ received' = Append(received, head)
  BY <1>1 DEF DeqPublish
<1>5. i' = [i EXCEPT !["cons"] = head + 1] /\ view' = [view EXCEPT !["cons"][head + 1] = head + 1]
  BY <1>1, <1>4 DEF DeqPublish, Release
<1>6. received \in Seq(Msg) /\ Len(received) = head /\ \A n \in 1 .. head : received[n] = n - 1
  BY DEF IndInv, TypeOK, IndexInv, InOrder
<1>7. TypeOK'
  <2>1. i' \in [Workers -> Counts] BY <1>2, <1>5 DEF IndInv, TypeOK
  <2>2. view' \in [Workers -> [Counts -> Counts]] BY <1>2, <1>5 DEF IndInv, TypeOK
  <2>3. received' \in Seq(Msg) BY <1>1, <1>4, <1>6 DEF IndInv, TypeOK
  <2> QED BY <1>2, <1>3, <1>4, <2>1, <2>2, <2>3 DEF IndInv, TypeOK
<1>8. i'["cons"] = head + 1 /\ i'["prod"] = i["prod"] BY <1>5 DEF IndInv, TypeOK, Workers
<1>9. PhaseInv' BY <1>1, <1>3 DEF IndInv, PhaseInv, Active
<1>10. IndexInv'
  <2>1. Len(received') = head + 1 BY <1>4, <1>6
  <2>2. \A n \in 1 .. head + 1 : received'[n] = n - 1 BY <1>2, <1>4, <1>6
  <2>3. InOrder' BY <2>1, <2>2 DEF InOrder
  <2> QED BY <1>1, <1>3, <1>4, <1>8, <2>1, <2>3 DEF IndInv, IndexInv, Workers
<1>11. OrderInv'
  <2>1. \A n \in 0 .. tail : view'["prod"][n] = n
    BY <1>1, <1>5 DEF IndInv, OrderInv, TypeOK, Workers
  <2>2. ASSUME NEW n \in 0 .. head + 1 PROVE view'["cons"][n] = n
    <3>1. n \in Counts BY <1>2, SPSCAssumption DEF Counts
    <3>2. CASE n = head + 1 BY <1>5, <3>1, <3>2 DEF IndInv, TypeOK, Workers
    <3>3. CASE n # head + 1
      <4>1. view["cons"][n] = n BY <1>1, <1>2, <3>3 DEF IndInv, OrderInv
      <4> QED BY <1>5, <3>1, <3>3, <4>1 DEF IndInv, TypeOK, Workers
    <3> QED BY <3>2, <3>3
  <2> QED BY <1>1, <1>3, <1>4, <2>1, <2>2 DEF IndInv, OrderInv, Workers, InRun
<1>12. LocalInv'
  <2>1. pc["prod"] # "idle" => seen["prod"] <= head + 1
    BY <1>2 DEF IndInv, LocalInv
  <2>2. head + 1 <= seen["cons"] BY <1>1, <1>2
  <2> QED BY <1>1, <1>3, <1>4, <2>1, <2>2 DEF IndInv, LocalInv
<1>13. SlotInv'
  <2>1. \A k \in head + 1 .. made["prod"] - 1 : data[Slot(k)] = k
    BY <1>1, <1>2 DEF IndInv, SlotInv
  <2>2. head + 1 <= tail /\ tail <= head + 1 + CAP BY <1>1, <1>2, SPSCAssumption
  <2> QED BY <1>4, <2>1, <2>2 DEF SlotInv
<1> QED BY <1>7, <1>9, <1>10, <1>11, <1>12, <1>13 DEF IndInv

LEMMA ConsReturnInv == IndInv /\ ConsReturn => IndInv'
<1> SUFFICES ASSUME IndInv, ConsReturn PROVE IndInv' OBVIOUS
<1>1. /\ pc["main"] \in {"join_prod", "join_cons"} /\ InRun /\ pc["cons"] = "load_own"
  BY ConsFacts DEF ConsReturn, Active
<1>2. /\ pc' \in [Workers \cup {"main"} -> Labels] /\ pc'["cons"] = "done"
      /\ pc'["main"] = pc["main"] /\ pc'["prod"] = pc["prod"]
  BY GotoFacts DEF IndInv, ConsReturn, Workers, Labels
<1>3. UNCHANGED <<head, tail, data, run, i, own, seen, val, received, made, last, view, knows>>
  BY DEF ConsReturn, queueVars, localVars, hbVars
<1>4. i["cons"] = MSG_COUNT
  BY SPSCAssumption DEF ConsReturn, MoreMessages, IndInv, TypeOK, Counts, Workers
<1>5. TypeOK' BY <1>2, <1>3 DEF IndInv, TypeOK
<1>6. PhaseInv' BY <1>1, <1>2 DEF IndInv, PhaseInv, Active
<1>7. IndexInv' BY <1>1, <1>2, <1>3, <1>4 DEF IndInv, IndexInv, InOrder, Workers
<1>8. OrderInv' BY <1>1, <1>2, <1>3 DEF IndInv, OrderInv, Workers
<1>9. LocalInv' BY <1>1, <1>2, <1>3 DEF IndInv, LocalInv
<1>10. SlotInv' BY <1>1, <1>3 DEF IndInv, SlotInv
<1> QED BY <1>5, <1>6, <1>7, <1>8, <1>9, <1>10 DEF IndInv

LEMMA StutterInv == IndInv /\ UNCHANGED vars => IndInv'
BY DEF IndInv, TypeOK, PhaseInv, IndexInv, InOrder, OrderInv, LocalInv, SlotInv, InRun,
       vars, queueVars, localVars, hbVars

LEMMA StepInv == IndInv /\ [Next]_vars => IndInv'
<1> SUFFICES ASSUME IndInv, [Next]_vars PROVE IndInv' OBVIOUS
<1>1. CASE MainNext
  BY <1>1, ResetHeadInv, ResetTailInv, CreateProdInv, CreateConsInv, JoinProdInv,
     JoinConsInv DEF MainNext
<1>2. CASE ProdNext
  BY <1>2, EnqLoadTailInv, EnqLoadHeadInv, EnqWriteInv, EnqPublishInv, ProdReturnInv
     DEF ProdNext
<1>3. CASE ConsNext
  BY <1>3, DeqLoadHeadInv, DeqLoadTailInv, DeqReadInv, DeqPublishInv, ConsReturnInv
     DEF ConsNext
<1>4. CASE Finished \/ UNCHANGED vars BY <1>4, StutterInv DEF Finished
<1> QED BY <1>1, <1>2, <1>3, <1>4 DEF Next

(***************************************************************************)
(* The theorems.                                                           *)
(***************************************************************************)

(* The invariant holds in every reachable state of spsc_enqueue,           *)
(* spsc_dequeue and run_lockfree, whatever the capacity and the counts.    *)
THEOREM Invariance == Spec => []IndInv
BY InitInv, StepInv, PTL DEF Spec

(* Types: in particular no uint64_t index passes MSG_COUNT.                *)
THEOREM TypeCorrect == Spec => []TypeOK
<1>1. IndInv => TypeOK BY DEF IndInv
<1> QED BY <1>1, Invariance, PTL

(* The acquire/release pairs of lines 68, 75, 93 and 100 order every pair  *)
(* of conflicting accesses to data[].                                      *)
THEOREM NoRace == Spec => []NoDataRace
BY RaceFree, Invariance, PTL

(* The consumer receives what was sent, in order and complete so far.      *)
THEOREM InOrderDelivery == Spec => []InOrder
<1>1. IndInv => InOrder BY DEF IndInv, IndexInv
<1> QED BY <1>1, Invariance, PTL

(* No more than CAP messages are queued and none is overwritten before it  *)
(* is taken.                                                               *)
THEOREM NothingOverwritten == Spec => []QueueIntact
<1>1. IndInv => QueueIntact
  <2> SUFFICES ASSUME IndInv, InRun PROVE QueueIntact BY DEF QueueIntact
  <2>1. made["prod"] = tail \/ made["prod"] = tail + 1 BY DEF IndInv, OrderInv
  <2>2. head \in Nat /\ tail \in Nat BY TypeFacts DEF IndInv
  <2> QED BY <2>1, <2>2 DEF IndInv, SlotInv, QueueIntact
<1> QED BY <1>1, Invariance, PTL

(* A check made on a stale index still holds when the slot is touched.     *)
THEOREM StaleChecksAreSafe == Spec => []ChecksStayTrue
<1>1. IndInv => ChecksStayTrue
  <2> SUFFICES ASSUME IndInv PROVE ChecksStayTrue OBVIOUS
  <2>1. ASSUME pc["prod"] \in {"access", "publish"}
        PROVE  own["prod"] = tail /\ tail < head + CAP
    <3>1. own["prod"] = tail /\ tail < seen["prod"] + CAP BY <2>1 DEF IndInv, LocalInv
    <3>2. seen["prod"] <= head BY <2>1, ProdFacts DEF Active
    <3>3. head \in Nat /\ tail \in Nat /\ seen["prod"] \in Nat
      BY TypeFacts DEF IndInv, Workers
    <3> QED BY <3>1, <3>2, <3>3, SPSCAssumption
  <2>2. ASSUME pc["cons"] \in {"access", "publish"}
        PROVE  own["cons"] = head /\ head < tail
    <3>1. own["cons"] = head /\ head < seen["cons"] BY <2>2 DEF IndInv, LocalInv
    <3>2. seen["cons"] <= tail BY <2>2, ConsFacts DEF Active
    <3>3. head \in Nat /\ tail \in Nat /\ seen["cons"] \in Nat
      BY TypeFacts DEF IndInv, Workers
    <3> QED BY <3>1, <3>2, <3>3
  <2> QED BY <2>1, <2>2 DEF ChecksStayTrue
<1> QED BY <1>1, Invariance, PTL

(* run_lockfree resets the indices and returns only with both threads gone *)
(* and every message delivered.                                            *)
THEOREM RunsComplete == Spec => []RunDelivers
<1>1. IndInv => RunDelivers
  BY DEF IndInv, PhaseInv, IndexInv, RunDelivers
<1> QED BY <1>1, Invariance, PTL

(***************************************************************************)
(* The ring implements the abstract queue: under the invariant the slots   *)
(* from head to tail hold the numbers from head to tail.                   *)
(***************************************************************************)
LEMMA ContentsFacts ==
  IndInv /\ InRun =>
    /\ head \in Nat /\ tail \in Nat /\ head <= tail /\ tail <= head + CAP
    /\ Contents = Span(head, tail)
    /\ LastOut = IF head = 0 THEN MSG_COUNT ELSE head - 1
<1> SUFFICES ASSUME IndInv, InRun
             PROVE  /\ head \in Nat /\ tail \in Nat /\ head <= tail /\ tail <= head + CAP
                    /\ Contents = Span(head, tail)
                    /\ LastOut = IF head = 0 THEN MSG_COUNT ELSE head - 1
  OBVIOUS
<1>1. head \in Nat /\ tail \in Nat /\ head <= tail /\ tail <= head + CAP
  BY TypeFacts DEF IndInv, SlotInv
<1>2. made["prod"] = tail \/ made["prod"] = tail + 1 BY DEF IndInv, OrderInv
<1>3. ASSUME NEW k \in 1 .. tail - head PROVE data[Slot(head + k - 1)] = head + k - 1
  <2>1. head + k - 1 \in head .. made["prod"] - 1 BY <1>1, <1>2
  <2> QED BY <2>1 DEF IndInv, SlotInv
<1>4. Contents = Span(head, tail) BY <1>3 DEF Contents, Span
<1>5. LastOut = IF head = 0 THEN MSG_COUNT ELSE head - 1
  <2>1. received \in Seq(Msg) /\ Len(received) = head /\ \A n \in 1 .. head : received[n] = n - 1
    BY DEF IndInv, TypeOK, IndexInv, InOrder
  <2>2. received = <<>> <=> head = 0 BY <1>1, <2>1
  <2>3. head # 0 => received[head] = head - 1 BY <1>1, <2>1
  <2> QED BY <2>1, <2>2, <2>3 DEF LastOut
<1> QED BY <1>1, <1>4, <1>5

LEMMA OutsideRun == ~ InRun => Contents = <<>> /\ LastOut = MSG_COUNT
BY DEF Contents, LastOut

LEMMA InitImplements == Init => Queue!Init
<1> SUFFICES ASSUME Init PROVE Queue!Init OBVIOUS
<1>1. ~ InRun BY DEF Init, InRun, Workers
<1> QED BY <1>1, OutsideRun DEF Queue!Init

(* A step that leaves head, tail and the phase alone is a stutter; so the  *)
(* only visible steps are the two publishing stores and main's last join.  *)
LEMMA StepImplements ==
  IndInv /\ IndInv' /\ [Next]_vars => [Queue!Next]_(Queue!fifoVars)
<1> SUFFICES ASSUME IndInv, IndInv', [Next]_vars
             PROVE  Queue!Next \/ (Contents' = Contents /\ LastOut' = LastOut)
  BY DEF Queue!fifoVars
<1>1. InRun' => /\ head' \in Nat /\ tail' \in Nat
                /\ Contents' = Span(head', tail')
                /\ LastOut' = IF head' = 0 THEN MSG_COUNT ELSE head' - 1
  <2>1. (IndInv /\ InRun =>
          /\ head \in Nat /\ tail \in Nat /\ head <= tail /\ tail <= head + CAP
          /\ Contents = Span(head, tail)
          /\ LastOut = IF head = 0 THEN MSG_COUNT ELSE head - 1)'
    BY ContentsFacts, PTL
  <2> QED BY <2>1
<1>2. ~ InRun' => Contents' = <<>> /\ LastOut' = MSG_COUNT BY DEF Contents, LastOut
<1>3. ASSUME InRun' <=> InRun, InRun => head' = head /\ tail' = tail
      PROVE  Contents' = Contents /\ LastOut' = LastOut
  BY <1>1, <1>2, <1>3, ContentsFacts, OutsideRun
<1>4. ASSUME NEW t \in Workers, NEW l \in Labels, Goto(t, l) PROVE InRun' <=> InRun
  BY <1>4, GotoFacts DEF InRun, IndInv, Workers
<1>5. CASE ResetHead
  <2>1. ~ InRun /\ ~ InRun'
    BY <1>5 DEF ResetHead, InRun, Goto, IndInv, TypeOK, Workers
  <2> QED BY <1>2, <2>1, OutsideRun
<1>6. CASE ResetTail
  <2>1. ~ InRun /\ InRun' /\ head' = 0 /\ tail' = 0
    BY <1>6 DEF ResetTail, InRun, Goto, IndInv, TypeOK, IndexInv, Workers
  <2>2. Contents' = <<>> /\ LastOut' = MSG_COUNT BY <1>1, <2>1 DEF Span
  <2> QED BY <2>1, <2>2, OutsideRun
<1>7. CASE CreateProd \/ CreateCons \/ JoinProd
  <2>1. head' = head /\ tail' = tail /\ InRun /\ InRun'
    BY <1>7 DEF CreateProd, CreateCons, Create, JoinProd, InRun, IndInv, TypeOK, Workers,
                queueVars
  <2> QED BY <1>3, <2>1
<1>8. CASE JoinCons
  <2>1. ~ InRun' BY <1>8 DEF JoinCons, InRun, IndInv, TypeOK, Workers
  <2> QED BY <1>2, <2>1 DEF Queue!Next, Queue!Clear
<1>9. CASE EnqPublish
  <2>1. /\ InRun /\ own["prod"] = tail /\ tail < MSG_COUNT /\ tail < seen["prod"] + CAP
        /\ seen["prod"] <= head
    BY <1>9, ProdFacts DEF EnqPublish, Active, IndInv, LocalInv
  <2>2. head' = head /\ tail' = tail + 1 /\ InRun'
    BY <1>4, <1>9, <2>1 DEF EnqPublish, Workers, Labels
  <2>3. /\ head \in Nat /\ tail \in Nat /\ seen["prod"] \in Nat /\ head <= tail
        /\ Contents = Span(head, tail)
    BY <2>1, ContentsFacts, TypeFacts DEF IndInv, Workers
  <2>4. Len(Contents) < CAP /\ tail \in Msg
    <3>1. Len(Contents) = tail - head BY <2>3, SpanType
    <3>2. tail - head < CAP BY <2>1, <2>3, SPSCAssumption
    <3> QED BY <2>1, <2>3, <3>1, <3>2, SPSCAssumption DEF Msg
  <2>5. Contents' = Append(Contents, tail) /\ LastOut' = LastOut
    BY <1>1, <2>1, <2>2, <2>3, SpanAppend, ContentsFacts
  <2> QED BY <2>4, <2>5 DEF Queue!Next, Queue!Put
<1>10. CASE DeqPublish
  <2>1. InRun /\ own["cons"] = head /\ head < seen["cons"] /\ seen["cons"] <= tail
    BY <1>10, ConsFacts DEF DeqPublish, Active, IndInv, LocalInv
  <2>2. head' = head + 1 /\ tail' = tail /\ InRun'
    BY <1>4, <1>10, <2>1 DEF DeqPublish, Workers, Labels
  <2>3. /\ head \in Nat /\ tail \in Nat /\ seen["cons"] \in Nat
        /\ Contents = Span(head, tail)
    BY <2>1, ContentsFacts, TypeFacts DEF IndInv, Workers
  <2>4. head < tail BY <2>1, <2>3
  <2>5. Contents # <<>> /\ Head(Contents) = head /\ Tail(Contents) = Contents'
    BY <1>1, <2>2, <2>3, <2>4, SpanTake
  <2>6. LastOut' = head BY <1>1, <2>2, <2>3
  <2> QED BY <2>5, <2>6 DEF Queue!Next, Queue!Take
<1>11. CASE EnqLoadTail \/ EnqWrite \/ ProdReturn \/ \E h \in Counts : EnqLoadHead(h)
  <2>1. head' = head /\ tail' = tail
    BY <1>11 DEF EnqLoadTail, EnqWrite, ProdReturn, EnqLoadHead, queueVars
  <2>2. \E l \in Labels : Goto("prod", l)
    BY <1>11 DEF EnqLoadTail, EnqWrite, ProdReturn, EnqLoadHead, Labels
  <2> QED BY <1>3, <1>4, <2>1, <2>2 DEF Workers
<1>12. CASE DeqLoadHead \/ DeqRead \/ ConsReturn \/ \E t \in Counts : DeqLoadTail(t)
  <2>1. head' = head /\ tail' = tail
    BY <1>12 DEF DeqLoadHead, DeqRead, ConsReturn, DeqLoadTail, queueVars
  <2>2. \E l \in Labels : Goto("cons", l)
    BY <1>12 DEF DeqLoadHead, DeqRead, ConsReturn, DeqLoadTail, Labels
  <2> QED BY <1>3, <1>4, <2>1, <2>2 DEF Workers
<1>13. CASE Finished \/ UNCHANGED vars
  <2>1. head' = head /\ tail' = tail /\ pc' = pc BY <1>13 DEF Finished, vars, queueVars
  <2> QED BY <1>3, <2>1 DEF InRun
<1> QED BY <1>5, <1>6, <1>7, <1>8, <1>9, <1>10, <1>11, <1>12, <1>13
       DEF Next, MainNext, ProdNext, ConsNext

(* spsc_enqueue and spsc_dequeue together behave as an atomic bounded      *)
(* queue whose operations take effect at the two release stores.           *)
THEOREM Refinement == Spec => ImplementsFIFO
<1>1. Spec => []IndInv BY Invariance
<1> QED BY <1>1, InitImplements, StepImplements, PTL
       DEF Spec, ImplementsFIFO, Queue!Spec
=============================================================================
