------------------------------- MODULE Arena --------------------------------
(***************************************************************************)
(* The bump allocator of solutions/ch17/ex17_1_bootloader_sim.c, under any *)
(* sequence of requests.  An address is an offset into arena[].            *)
(***************************************************************************)
EXTENDS Integers, Sequences

CONSTANTS
  ARENA_BYTES,
  SIZE,      \* what size_t wraps at: 2^64
  UINT,      \* what unsigned int wraps at: 2^32; the constant 7u is one
  Requests   \* the sizes that are asked for

ASSUME ArenaAssumption ==
  /\ ARENA_BYTES \in Nat /\ SIZE \in Nat /\ UINT \in Nat \ {0}
  /\ Requests \subseteq Nat

VARIABLES
  arena_offset,
  ptr,     \* what the last arena_alloc returned
  blocks   \* what was handed out since the last reset (history)

arenaVars == <<arena_offset, ptr, blocks>>

NULL == -1

(* (sz + 7u) & ~7u: the mask is an unsigned int, so it also clears the     *)
(* upper half of the size_t.                                               *)
AlignedDown(sz) == sz - (sz % 8)              \* faulty: no + 7u
AlignedTo16(sz) == ((sz + 15) % UINT) - ((sz + 15) % 16)   \* faulty: 15 for 7
Aligned(sz) == ((sz + 7) % UINT) - ((sz + 7) % 8)

Exceeds(sz) == (arena_offset + Aligned(sz)) % SIZE > ARENA_BYTES

ArenaInit == arena_offset = 0 /\ ptr = NULL /\ blocks = <<>>

Bump(sz) ==
  /\ ~ Exceeds(sz)
  /\ ptr' = arena_offset
  /\ arena_offset' = (arena_offset + Aligned(sz)) % SIZE
  /\ blocks' = Append(blocks, [at |-> arena_offset, size |-> sz])

Refuse(sz) ==
  /\ Exceeds(sz)
  /\ ptr' = NULL
  /\ UNCHANGED <<arena_offset, blocks>>

arena_alloc(sz) == Bump(sz) \/ Refuse(sz)

arena_resetForgotten == UNCHANGED <<arena_offset, ptr>> /\ blocks' = <<>>  \* faulty
arena_reset == arena_offset' = 0 /\ blocks' = <<>> /\ UNCHANGED ptr

AnyClient == (\E sz \in Requests : arena_alloc(sz)) \/ arena_reset

ArenaSpec == ArenaInit /\ [][AnyClient]_arenaVars

(***************************************************************************)
(* Properties.                                                             *)
(***************************************************************************)
ArenaTypeOK ==
  /\ arena_offset \in 0 .. ARENA_BYTES
  /\ ptr \in {NULL} \cup 0 .. ARENA_BYTES
  /\ blocks \in Seq([at : 0 .. ARENA_BYTES, size : Requests])

(* What is handed out is aligned to 8 bytes, inside the arena and disjoint *)
(* from everything handed out since the last reset (lines 127-157).        *)
BlocksAreSound ==
  /\ \A k \in 1 .. Len(blocks) :
       /\ blocks[k].at % 8 = 0
       /\ blocks[k].at + blocks[k].size <= arena_offset
       /\ arena_offset <= ARENA_BYTES
  /\ \A k \in 1 .. Len(blocks), l \in 1 .. Len(blocks) :
       k < l => blocks[k].at + blocks[k].size <= blocks[l].at

(* "If the request would exceed the arena, return NULL" (line 140): a      *)
(* block is handed out only when all its bytes are left.                   *)
ExcessIsRefused ==
  [][\A sz \in Requests :
       blocks' = Append(blocks, [at |-> arena_offset, size |-> sz])
         => arena_offset + sz <= ARENA_BYTES]_arenaVars
=============================================================================
