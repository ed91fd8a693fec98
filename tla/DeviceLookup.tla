---------------------------- MODULE DeviceLookup ----------------------------
(***************************************************************************)
(* solutions/ch01/ex1_1_hash_vs_bsearch.c: a table of device              *)
(* configurations, once as a sorted array and once as a hash table with    *)
(* chains, and one lookup in each.  One action per insertion and per turn  *)
(* of a lookup's loop; a chain is the sequence of its nodes, head first.   *)
(***************************************************************************)
EXTENDS Integers, SequencesExt

CONSTANTS
  NUM_ENTRIES, TABLE_BUCKETS,
  LookupId     \* what may be looked up: uint32_t

ASSUME DeviceAssumption ==
  /\ NUM_ENTRIES \in Nat \ {0} /\ TABLE_BUCKETS \in Nat \ {0}
  /\ LookupId \subseteq Nat

VARIABLES
  sorted_table,     \* indexed from 1
  hash_table,       \* a sequence of entries per bucket
  dev_pc,           \* where the program is
  entry,            \* the loop counter of setup
  id,               \* lookup_ids[], of which one element is modelled
  low, high,        \* the interval of bsearch_lookup, indexed from 0
  link,             \* the chain hash_lookup still has to walk
  bsearch_val, hash_val  \* what the lookups returned (history)

tables  == <<sorted_table, hash_table, entry>>
lookup  == <<id, low, high, link, bsearch_val, hash_val>>
devVars == <<tables, dev_pc, lookup>>

Absent  == -1
Open == -2
Buckets == 0 .. TABLE_BUCKETS - 1

hash_fn(d) == d % TABLE_BUCKETS

DevInit ==
  /\ sorted_table = <<>>
  /\ hash_table = [b \in Buckets |-> <<>>]
  /\ dev_pc = "fill" /\ entry = 0
  /\ id = 0
  /\ low = 0 /\ high = NUM_ENTRIES /\ link = <<>>
  /\ bsearch_val = Open /\ hash_val = Open

(***************************************************************************)
(* setup                                                                   *)
(***************************************************************************)
Fill ==
  /\ dev_pc = "fill" /\ entry < NUM_ENTRIES
  /\ sorted_table' = Append(sorted_table, [device_id |-> entry * 7 + 3, config_val |-> entry])
  /\ entry' = entry + 1
  /\ UNCHANGED <<hash_table, dev_pc, lookup>>

cmp_cfg(a, b) == a.device_id < b.device_id

(* qsort by cmp_cfg: rearranged, none of them less than one before it.     *)
qsort(s) ==
  LET p == CHOOSE p \in [DOMAIN s -> DOMAIN s] :
             /\ Range(p) = DOMAIN s
             /\ \A m, n \in DOMAIN s : m < n => ~ cmp_cfg(s[p[n]], s[p[m]])
  IN [m \in DOMAIN s |-> s[p[m]]]

Sort ==
  /\ dev_pc = "fill" /\ entry = NUM_ENTRIES
  /\ sorted_table' = qsort(sorted_table)
  /\ entry' = 0 /\ dev_pc' = "hash"
  /\ UNCHANGED <<hash_table, lookup>>

HashInsertUnlinked ==                        \* faulty: node->next = NULL
  /\ dev_pc = "hash" /\ entry < NUM_ENTRIES
  /\ LET e == sorted_table[entry + 1]
     IN hash_table' = [hash_table EXCEPT ![hash_fn(e.device_id)] = <<e>>]
  /\ entry' = entry + 1
  /\ UNCHANGED <<sorted_table, dev_pc, lookup>>

HashInsert ==
  /\ dev_pc = "hash" /\ entry < NUM_ENTRIES
  /\ LET e == sorted_table[entry + 1]
     IN hash_table' = [hash_table EXCEPT ![hash_fn(e.device_id)] = <<e>> \o @]
  /\ entry' = entry + 1
  /\ UNCHANGED <<sorted_table, dev_pc, lookup>>

(* malloc returns NULL: perror and exit(1). *)
HashInsertFails ==
  /\ dev_pc = "hash" /\ entry < NUM_ENTRIES
  /\ dev_pc' = "exited"
  /\ UNCHANGED <<tables, lookup>>

(* setup picks devices that are there; the lookups are asked about others. *)
TablesDone ==
  /\ dev_pc = "hash" /\ entry = NUM_ENTRIES
  /\ id' \in LookupId
  /\ dev_pc' = "bsearch"
  /\ UNCHANGED <<tables, low, high, link, bsearch_val, hash_val>>

(***************************************************************************)
(* bsearch_lookup and hash_lookup                                          *)
(***************************************************************************)
middle == low + (high - low) \div 2
Probe  == sorted_table[middle + 1]

BsearchHalve ==
  /\ dev_pc = "bsearch" /\ low < high /\ Probe.device_id # id
  /\ IF Probe.device_id < id THEN low' = middle + 1 /\ UNCHANGED high
                             ELSE high' = middle /\ UNCHANGED low
  /\ UNCHANGED <<tables, dev_pc, id, link, bsearch_val, hash_val>>

BsearchReturn ==
  /\ dev_pc = "bsearch"
  /\ low < high => Probe.device_id = id
  /\ bsearch_val' = IF low < high THEN Probe.config_val ELSE Absent
  /\ link' = hash_table[hash_fn(id)]
  /\ dev_pc' = "chain"
  /\ UNCHANGED <<tables, id, low, high, hash_val>>

HashWalk ==
  /\ dev_pc = "chain" /\ link # <<>> /\ Head(link).device_id # id
  /\ link' = Tail(link)
  /\ UNCHANGED <<tables, dev_pc, id, low, high, bsearch_val, hash_val>>

HashReturn ==
  /\ dev_pc = "chain"
  /\ link # <<>> => Head(link).device_id = id
  /\ hash_val' = IF link # <<>> THEN Head(link).config_val ELSE Absent
  /\ dev_pc' = "done"
  /\ UNCHANGED <<tables, id, low, high, link, bsearch_val>>

DevNext ==
  \/ Fill \/ Sort \/ HashInsert \/ HashInsertFails \/ TablesDone
  \/ BsearchHalve \/ BsearchReturn \/ HashWalk \/ HashReturn

DevSpec == DevInit /\ [][DevNext]_devVars

(***************************************************************************)
(* Properties.                                                             *)
(***************************************************************************)
(* Both lookups give the configuration of a device that is in the table,   *)
(* however its chain collided, and -1 for any other (lines 48, 69, 90).    *)
LookupsAgree ==
  LET config == {m \in 0 .. NUM_ENTRIES - 1 : m * 7 + 3 = id}
      answer == IF config = {} THEN Absent ELSE CHOOSE m \in config : TRUE
  IN {bsearch_val, hash_val} \subseteq {Open, answer}
=============================================================================
