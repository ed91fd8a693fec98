---------------------------- MODULE BloomFilter -----------------------------
(***************************************************************************)
(* solutions/ch16/ex16_1_bloom_filter.c: main inserts INSERT_COUNT keys    *)
(* and counts the false positives among as many others; then it clears the *)
(* filter, inserts the keys again and looks them up.  One action per hash. *)
(* What bloom_hash computes is left open: hash is any function.            *)
(***************************************************************************)
EXTENDS Integers

CONSTANTS
  FILTER_BYTES, NUM_HASH, INSERT_COUNT,
  HashValue    \* what bloom_hash may return: uint32_t

ASSUME BloomAssumption ==
  /\ FILTER_BYTES \in Nat \ {0} /\ NUM_HASH \in Nat /\ INSERT_COUNT \in Nat
  /\ HashValue \subseteq Nat

VARIABLES
  filter,      \* the bytes, each as the set of its bits that are 1
  hash,        \* bloom_hash
  bloom_pc,    \* where the program is
  again,       \* FALSE: the first filling of main, TRUE: that of BENCH_RUN
  n, k,        \* the key and the seed of the loops
  fp,          \* false positives counted
  yes, no      \* the keys bloom_query answered since the last memset (history)

filling   == <<again, fp>>
bloomVars == <<filter, hash, bloom_pc, n, k, filling, yes, no>>

FILTER_BITS == 8 * FILTER_BYTES
Bytes == 0 .. FILTER_BYTES - 1
BloomKey == 0 .. 2 * INSERT_COUNT - 1

BloomInit ==
  /\ filter = [b \in Bytes |-> {}]
  /\ hash \in [BloomKey \X (0 .. NUM_HASH - 1) -> HashValue]
  /\ bloom_pc = "memset" /\ again = FALSE
  /\ n = 0 /\ k = 0 /\ fp = 0
  /\ yes = {} /\ no = {}

bit(key, seed) == hash[<<key, seed>>] % FILTER_BITS

Memset ==
  /\ bloom_pc = "memset"
  /\ filter' = [b \in Bytes |-> {}]
  /\ bloom_pc' = "insert" /\ n' = 0 /\ k' = 0
  /\ yes' = {} /\ no' = {}
  /\ UNCHANGED <<hash, filling>>

SetsOnly(b) == filter' = [filter EXCEPT ![b \div 8] = {b % 8}]  \* faulty: = for |=
Sets(b) == filter' = [filter EXCEPT ![b \div 8] = @ \cup {b % 8}]

bloom_insert ==
  /\ bloom_pc = "insert" /\ n < INSERT_COUNT /\ k < NUM_HASH
  /\ Sets(bit(n, k))
  /\ k' = k + 1
  /\ UNCHANGED <<hash, bloom_pc, n, filling, yes, no>>

InsertReturns ==
  /\ bloom_pc = "insert" /\ n < INSERT_COUNT /\ k = NUM_HASH
  /\ n' = n + 1 /\ k' = 0
  /\ UNCHANGED <<filter, hash, bloom_pc, filling, yes, no>>

(* The keys looked up are INSERT_COUNT others, then the inserted ones. *)
FromKey == IF again THEN 0 ELSE INSERT_COUNT
ToKey   == FromKey + INSERT_COUNT

InsertLoopEnds ==
  /\ bloom_pc = "insert" /\ n = INSERT_COUNT
  /\ bloom_pc' = "query" /\ n' = FromKey
  /\ UNCHANGED <<filter, hash, k, filling, yes, no>>

IsSet(b) == b % 8 \in filter[b \div 8]

bloom_query ==
  /\ bloom_pc = "query" /\ n < ToKey /\ k < NUM_HASH /\ IsSet(bit(n, k))
  /\ k' = k + 1
  /\ UNCHANGED <<filter, hash, bloom_pc, n, filling, yes, no>>

QueryReturns0 ==
  /\ bloom_pc = "query" /\ n < ToKey /\ k < NUM_HASH /\ ~ IsSet(bit(n, k))
  /\ no' = no \cup {n}
  /\ n' = n + 1 /\ k' = 0
  /\ UNCHANGED <<filter, hash, bloom_pc, filling, yes>>

QueryReturns1 ==
  /\ bloom_pc = "query" /\ n < ToKey /\ k = NUM_HASH
  /\ yes' = yes \cup {n}
  /\ fp' = IF again THEN fp ELSE fp + 1
  /\ n' = n + 1 /\ k' = 0
  /\ UNCHANGED <<filter, hash, bloom_pc, again, no>>

QueryLoopEnds ==
  /\ bloom_pc = "query" /\ n = ToKey
  /\ again' = TRUE
  /\ bloom_pc' = IF again THEN "done" ELSE "memset"
  /\ UNCHANGED <<filter, hash, n, k, fp, yes, no>>

BloomNext ==
  \/ Memset \/ bloom_insert \/ InsertReturns \/ InsertLoopEnds
  \/ bloom_query \/ QueryReturns0 \/ QueryReturns1 \/ QueryLoopEnds

BloomSpec == BloomInit /\ [][BloomNext]_bloomVars

(***************************************************************************)
(* Properties.                                                             *)
(***************************************************************************)
(* The bits of a key are all bits of inserted keys. *)
Covered(key) ==
  \A s \in 0 .. NUM_HASH - 1 : \E key2 \in 0 .. INSERT_COUNT - 1, s2 \in 0 .. NUM_HASH - 1 :
    bit(key, s) = bit(key2, s2)

(* "No false negatives: if a key was inserted, it is always found" (line   *)
(* 8), and another one is found only if other keys set all its bits,       *)
(* whatever the hashes are and in both fillings (lines 75-106).            *)
NoFalseNegatives ==
  /\ \A key \in no : key >= INSERT_COUNT /\ ~ Covered(key)
  /\ \A key \in yes : Covered(key)
  /\ \A key \in BloomKey : bloom_pc = "done" => (key < INSERT_COUNT <=> key \in yes)
=============================================================================
