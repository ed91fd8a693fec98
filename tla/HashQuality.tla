---------------------------- MODULE HashQuality -----------------------------
(***************************************************************************)
(* solutions/ch07/ex7_1_hash_quality.c: setup fills the keys from an       *)
(* xorshift generator, and bucket_variance counts, for one hash function   *)
(* after the other, how the keys fall into the buckets.  A uint32_t is the *)
(* set of its bits that are 1; a sum that stays below 2^31 is a number.    *)
(* The timing loops of main, which only evaluate the functions, are left   *)
(* out.                                                                    *)
(***************************************************************************)
EXTENDS Integers, SequencesExt

CONSTANTS
  TABLE_SIZE, NUM_KEYS, KEY_LEN,
  WIDTH,    \* the bits of a uint32_t
  SEED      \* what setup starts from, as a word

ASSUME HashAssumption ==
  /\ TABLE_SIZE \in Nat \ {0} /\ NUM_KEYS \in Nat \ {0} /\ KEY_LEN \in Nat \ {0}
  /\ WIDTH \in Nat \ {0}
  /\ SEED \in SUBSET (0 .. WIDTH - 1) /\ SEED # {}

VARIABLES
  state,           \* of the generator
  hash_keys,       \* keys[], without the final '\0'
  hash_pc,         \* "setup", the function being measured, or "done"
  key_i,           \* the loop counter i
  counts,          \* of bucket_variance, per bucket
  variance         \* what it returned, per function

hashVars == <<state, hash_keys, hash_pc, key_i, counts, variance>>

(***************************************************************************)
(* Arithmetic of words.                                                    *)
(***************************************************************************)
Bits == 0 .. WIDTH - 1
Word == SUBSET Bits

Xor(x, y) == (x \ y) \cup (y \ x)
Shl(x, s) == {b \in Bits : b - s \in x}
Shr(x, s) == {b \in Bits : b + s \in x}

(* The product modulo 2^WIDTH, with the carries of long multiplication. *)
Times(x, y) ==
  LET column(k) == Cardinality({b \in x : k - b \in y})
      carry[k \in Bits] == IF k = 0 THEN 0 ELSE (carry[k - 1] + column(k - 1)) \div 2
  IN {k \in Bits : (carry[k] + column(k)) % 2 = 1}

ToWord(n) == {b \in 0 .. 30 : (n \div 2^b) % 2 = 1}

Rem(x, m) ==
  LET rest[b \in 0 .. WIDTH] ==
        IF b = WIDTH THEN 0 ELSE (2 * rest[b + 1] + (IF b \in x THEN 1 ELSE 0)) % m
  IN rest[0]

(* A literal, from its eight hexadecimal digits. *)
Hex(digits) == {b \in 0 .. 31 : (digits[8 - b \div 4] \div 2^(b % 4)) % 2 = 1}

(***************************************************************************)
(* The hash functions.  A key is a sequence of bytes.                      *)
(***************************************************************************)
hash_sum(key) == ToWord(FoldLeft(+, 0, key))

FNV_OFFSET_BASIS == Hex(<<8, 1, 1, 12, 9, 13, 12, 5>>)
FNV_PRIME        == Hex(<<0, 1, 0, 0, 0, 1, 9, 3>>)

FnvStepAnd(h, c) == Times(h \cap ToWord(c), FNV_PRIME)   \* faulty: & for ^
FnvStep(h, c) == Times(Xor(h, ToWord(c)), FNV_PRIME)

hash_fnv1a(key) == FoldLeft(FnvStep, FNV_OFFSET_BASIS, key)

Premix(key) == FoldLeft(+, 0, [m \in DOMAIN key |-> key[m] * m])

MIX_1 == Hex(<<8, 5, 14, 11, 12, 10, 6, 11>>)
MIX_2 == Hex(<<12, 2, 11, 2, 10, 14, 3, 5>>)

Finalise(h) ==
  LET h1 == Times(Xor(h, Shr(h, 16)), MIX_1)
      h2 == Times(Xor(h1, Shr(h1, 13)), MIX_2)
  IN Xor(h2, Shr(h2, 16))

hash_murmur3(key) == Finalise(ToWord(Premix(key)))

HashFunctions == <<"hash_sum", "hash_fnv1a", "hash_murmur3">>

Hash(f, key) ==
  CASE f = "hash_sum"     -> hash_sum(key)
    [] f = "hash_fnv1a"   -> hash_fnv1a(key)
    [] f = "hash_murmur3" -> hash_murmur3(key)

Bucket(f, key) == Rem(Hash(f, key), TABLE_SIZE)

(***************************************************************************)
(* setup                                                                   *)
(***************************************************************************)
HashBuckets == 0 .. TABLE_SIZE - 1
Empty == [b \in HashBuckets |-> 0]
Fns == {HashFunctions[f] : f \in 1 .. 3}

HashInit ==
  /\ state = SEED
  /\ hash_keys = [m \in 0 .. NUM_KEYS - 1 |-> <<>>]
  /\ hash_pc = "setup" /\ key_i = 0
  /\ counts = Empty
  /\ variance = [f \in Fns |-> 0]

XorShiftAnd(x) ==                            \* faulty: & for ^
  LET x1 == x \cap Shl(x, 13)
      x2 == x1 \cap Shr(x1, 17)
  IN x2 \cap Shl(x2, 5)
XorShift(x) ==
  LET x1 == Xor(x, Shl(x, 13))
      x2 == Xor(x1, Shr(x1, 17))
  IN Xor(x2, Shl(x2, 5))

(* One letter, from 'a' to 'z'. *)
SetupLetter ==
  /\ hash_pc = "setup" /\ key_i < NUM_KEYS
  /\ Len(hash_keys[key_i]) < KEY_LEN - 1
  /\ state' = XorShift(state)
  /\ hash_keys' = [hash_keys EXCEPT ![key_i] = Append(@, 97 + Rem(state', 26))]
  /\ UNCHANGED <<hash_pc, key_i, counts, variance>>

SetupKeyEnds ==
  /\ hash_pc = "setup" /\ key_i < NUM_KEYS
  /\ Len(hash_keys[key_i]) = KEY_LEN - 1
  /\ key_i' = key_i + 1
  /\ UNCHANGED <<state, hash_keys, hash_pc, counts, variance>>

KeysDone ==
  /\ hash_pc = "setup" /\ key_i = NUM_KEYS
  /\ hash_pc' = "hash_sum" /\ key_i' = 0
  /\ UNCHANGED <<state, hash_keys, counts, variance>>

(***************************************************************************)
(* bucket_variance, for the functions in the order of main.                *)
(***************************************************************************)
CountKey ==
  /\ hash_pc \in Fns /\ key_i < NUM_KEYS
  /\ counts' = [counts EXCEPT ![Bucket(hash_pc, hash_keys[key_i])] = @ + 1]
  /\ key_i' = key_i + 1
  /\ UNCHANGED <<state, hash_keys, hash_pc, variance>>

(* TABLE_SIZE^3 times what the code computes, which is a fraction. *)
Variance ==
  LET diff(b) == TABLE_SIZE * counts[b] - NUM_KEYS
  IN FoldFunction(+, 0, [b \in HashBuckets |-> diff(b) * diff(b)])

NextFunction ==
  CASE hash_pc = "hash_sum" -> "hash_fnv1a" [] hash_pc = "hash_fnv1a" -> "hash_murmur3"
    [] OTHER -> "done"

VarianceKeepsCounts ==                       \* faulty: counts is not cleared again
  /\ hash_pc \in Fns /\ key_i = NUM_KEYS
  /\ variance' = [variance EXCEPT ![hash_pc] = Variance]
  /\ hash_pc' = NextFunction /\ key_i' = 0
  /\ UNCHANGED <<state, hash_keys, counts>>

(* The next call has an array of its own, initialised to zeros. *)
VarianceReturns ==
  /\ hash_pc \in Fns /\ key_i = NUM_KEYS
  /\ variance' = [variance EXCEPT ![hash_pc] = Variance]
  /\ hash_pc' = NextFunction /\ key_i' = 0
  /\ counts' = Empty
  /\ UNCHANGED <<state, hash_keys>>

HashNext == SetupLetter \/ SetupKeyEnds \/ KeysDone \/ CountKey \/ VarianceReturns

HashSpec == HashInit /\ [][HashNext]_hashVars

(***************************************************************************)
(* Properties.                                                             *)
(***************************************************************************)
(* The generator never reaches zero, which it would never leave: from then *)
(* on all letters were 'a' and all keys the same (lines 36-41).            *)
NeverStuck == state \in Word /\ state # {}

(* What undoes a step of FNV-1a, and the finaliser of Murmur3: products    *)
(* with the inverses of the odd factors modulo 2^32.                       *)
FnvUndo(c, h) == Xor(Times(h, Hex(<<3, 5, 9, 12, 4, 4, 9, 11>>)), ToWord(c))

UndoXorShr(h, s) == LET h1 == Xor(h, Shr(h, s)) IN Xor(h1, Shr(h1, 2 * s))
Unfinalise(h) ==
  LET h1 == Times(UndoXorShr(h, 16), Hex(<<7, 14, 13, 1, 11, 4, 1, 13>>))
      h2 == Times(UndoXorShr(h1, 13), Hex(<<10, 5, 12, 11, 9, 2, 4, 3>>))
  IN UndoXorShr(h2, 16)

SwapNeighbours(key, m) == [key EXCEPT ![m] = key[m + 1], ![m + 1] = key[m]]

(* No hash loses what it has read: each step of FNV-1a can be undone,      *)
(* "each byte fully participates in all subsequent multiplications" (line  *)
(* 75), Murmur3's finaliser is a permutation of the words, so that its     *)
(* collisions are those of the sum before it, and that sum tells the order *)
(* of two neighbours ("order-sensitive", line 124).                        *)
MixLosesNothing ==
  \A m \in DOMAIN hash_keys :
    LET key == hash_keys[m] IN
    hash_pc = "setup" /\ m = key_i /\ key # <<>> =>
      /\ FoldRight(FnvUndo, key, hash_fnv1a(key)) = FNV_OFFSET_BASIS
      /\ Unfinalise(hash_murmur3(key)) = ToWord(Premix(key))
      /\ \A p \in 1 .. Len(key) - 1 :
           key[p] # key[p + 1] => Premix(SwapNeighbours(key, p)) # Premix(key)

(* "Lower variance = more uniform = fewer collisions" (line 9): each       *)
(* variance printed determines the number of pairs of keys that share a    *)
(* bucket under its function, and grows with it.                           *)
Collisions(f) ==
  Cardinality({p \in (DOMAIN hash_keys) \X (DOMAIN hash_keys) :
    p[1] < p[2] /\ Bucket(f, hash_keys[p[1]]) = Bucket(f, hash_keys[p[2]])})
VarianceCountsCollisions ==
  hash_pc = "done" =>
    \A f \in Fns :
      variance[f] =
        TABLE_SIZE * (TABLE_SIZE * (NUM_KEYS + 2 * Collisions(f)) - NUM_KEYS * NUM_KEYS)
=============================================================================
