----------------------------- MODULE MCPrograms -----------------------------
(* The single-threaded programs without a module for TLC of their own,     *)
(* each a process: a behaviour runs one of them.  ch17 is any client of    *)
(* arena_alloc; MCDeviceTree has the parser.                               *)
EXTENDS BstSearch, DeviceLookup, BloomFilter, Stacks, DynamicArray, Sweeps, HashQuality, Arena

VARIABLE program

programVars ==
  <<program, bstVars, devVars, bloomVars, stackVars, daVars, sweepVars, hashVars,
    arenaVars>>

(* 1.5, 2.0 and 1.618. *)
Factors == {<<3, 2>>, <<2, 1>>, <<1618, 1000>>}
(* 0xdeadbeef *)
DeadBeef == Hex(<<13, 14, 10, 13, 11, 14, 14, 15>>)

Init ==
  /\ program \in {"ch01", "ch05", "ch07", "ch08", "ch09", "ch16", "ch17", "sweeps"}
  /\ BstInit /\ DevInit /\ StackInit /\ HashInit /\ ArenaInit
  /\ BloomInit /\ (program # "ch16" => \A p \in DOMAIN hash : hash[p] = 7)
  /\ DaInit /\ (program # "ch08" => growth = <<2, 1>>)
  /\ SweepInit /\ (program # "sweeps" => sweep = "setup" /\ array_base = 0)

Exited ==
  {bst_pc, dev_pc, bloom_pc, stack_pc, da_pc, sweep, hash_pc} \cap {"done", "exited"} # {}

Next ==
  \/ /\ program = "ch01" /\ DevNext
     /\ UNCHANGED <<program, bstVars, bloomVars, stackVars, daVars, sweepVars, hashVars, arenaVars>>
  \/ /\ program = "ch05" /\ StackNext
     /\ UNCHANGED <<program, bstVars, devVars, bloomVars, daVars, sweepVars, hashVars, arenaVars>>
  \/ /\ program = "ch07" /\ HashNext
     /\ UNCHANGED <<program, bstVars, devVars, bloomVars, stackVars, daVars, sweepVars, arenaVars>>
  \/ /\ program = "ch08" /\ DaNext
     /\ UNCHANGED <<program, bstVars, devVars, bloomVars, stackVars, sweepVars, hashVars, arenaVars>>
  \/ /\ program = "ch09" /\ BstNext
     /\ UNCHANGED <<program, devVars, bloomVars, stackVars, daVars, sweepVars, hashVars, arenaVars>>
  \/ /\ program = "ch16" /\ BloomNext
     /\ UNCHANGED <<program, bstVars, devVars, stackVars, daVars, sweepVars, hashVars, arenaVars>>
  \/ /\ program = "ch17" /\ AnyClient
     /\ UNCHANGED <<program, bstVars, devVars, bloomVars, stackVars, daVars, sweepVars, hashVars>>
  \/ /\ program = "sweeps" /\ SweepNext
     /\ UNCHANGED <<program, bstVars, devVars, bloomVars, stackVars, daVars, hashVars, arenaVars>>
  \/ Exited /\ UNCHANGED programVars

(* The stacks and the arena are given calls without end, and ch07 does     *)
(* nothing but count.                                                      *)
Searching == program \notin {"ch05", "ch07", "ch17"}

Spec == Init /\ [][Next]_programVars /\ WF_programVars(Searching /\ Next)

(* The programs end: no search, descent or sweep goes on for ever (ch09    *)
(* lines 79 and 110, ch01 lines 59 and 104, ch08 line 100).                *)
SearchesEnd == Searching => <>Exited
=============================================================================
