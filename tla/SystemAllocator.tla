--------------------------- MODULE SystemAllocator ---------------------------
(***************************************************************************)
(* system_allocator_t: blocks of the sizes required at construction, with  *)
(* everything that manages them, laid out in one arena, and a free list of *)
(* the blocks of each size, which is a stack behind a spin lock.           *)
(*                                                                         *)
(* An address is an offset in the arena.  A step of a thread is one access *)
(* to what the threads share.  The clients keep their side of the contract *)
(* (csp_theory.tex): they return only what they were given, and ask for no *)
(* larger and no more blocks than were required.                           *)
(***************************************************************************)
EXTENDS Naturals, Sequences, FiniteSets, FiniteSetsExt, Functions

CONSTANTS
  Thread,        \* the threads that allocate and deallocate
  Bytes,         \* how much they ask for
  Requirements,  \* the arguments of the constructor, sequences of mem_req_t
  PointerSize,   \* sizeof(void*)
  FreelistSize   \* sizeof(freelist_t)

\* The constructor sets no pointer for size zero, and the largest size must be a
\* multiple of eight, for the arrays are made for the sizes up to that size, and
\* the counts entered in them for the sizes rounded up.
ASSUME AllocatorAssumption ==
  /\ IsFiniteSet(Thread) /\ Bytes \subseteq Nat \ {0}
  /\ PointerSize \in Nat \ {0} /\ FreelistSize \in Nat
  /\ \A r \in Requirements :
       /\ r \in Seq([block_size : Nat \ {0}, n_blocks : Nat \ {0}])
       /\ \E i \in DOMAIN r : /\ r[i].block_size % 8 = 0
                              /\ \A j \in DOMAIN r : r[j].block_size <= r[i].block_size

VARIABLES
  reqs,               \* the requirements
  freelist_pointers,  \* for each size, the free list of a request for it
  memory,             \* what is in each slot of the stacks
  top, base, lock,    \* of each free list
  pc, list, bytes, block,  \* where each thread is, and its call
  held                \* the blocks the clients have

layoutVars == <<reqs, freelist_pointers, base>>
callVars == <<list, bytes, block>>
vars == <<layoutVars, memory, top, lock, pc, callVars, held>>

-----------------------------------------------------------------------------
(***************************************************************************)
(* The constructor                                                         *)
(***************************************************************************)
calblocksize(n) == IF n % 8 = 0 THEN n ELSE (n \div 8 + 1) * 8

max_block_size(r) == Max({r[i].block_size : i \in DOMAIN r})

nblocks(r, k) ==
  SumFunctionOnSet([i \in DOMAIN r |-> r[i].n_blocks],
                   {i \in DOMAIN r : calblocksize(r[i].block_size) = k})

\* The sizes that have a free list, each known by its size.
Listed(r) == {k \in 1..max_block_size(r) : nblocks(r, k) # 0}

\* (Mutant of arena_size: the objects of the free lists are forgotten.)
ArenaWithoutObjects(r) ==
  SumFunctionOnSet([k \in Listed(r) |-> nblocks(r, k) * (k + PointerSize)], Listed(r))
  + (max_block_size(r) + 1) * PointerSize

\* The sum of what the blocks, the stacks, the objects and the pointers need.
arena_size(r) ==
  SumFunctionOnSet([k \in Listed(r) |-> k * nblocks(r, k)], Listed(r))
  + SumFunctionOnSet([k \in Listed(r) |-> nblocks(r, k) * PointerSize], Listed(r))
  + Cardinality(Listed(r)) * FreelistSize
  + (max_block_size(r) + 1) * PointerSize

\* arena_pointer after the loop has come down to size k.
arena_pointer(r) ==
  LET pointer[k \in 0..max_block_size(r)] ==
        IF k = max_block_size(r) THEN (k + 1) * PointerSize
        ELSE pointer[k + 1] + (IF k + 1 \in Listed(r)
                               THEN FreelistSize + nblocks(r, k + 1) * (PointerSize + (k + 1))
                               ELSE 0)
  IN  pointer

\* Of the free list of size k: where its object, its stack and its blocks are.
ObjectAt(r, k) == arena_pointer(r)[k]
StackAt(r, k) == ObjectAt(r, k) + FreelistSize
BaseAt(r, k) == StackAt(r, k) + nblocks(r, k) * PointerSize

\* (Mutant of NextList: the sizes are filled in from the smallest.)
ListBelow(r, k) ==
  LET below == {j \in Listed(r) : j <= k} IN IF below = {} THEN Min(Listed(r)) ELSE Max(below)

\* A size without blocks of its own shares the free list last made.
NextList(r, k) == Min({j \in Listed(r) : j >= k})

\* The free lists, their blocks, and the slots of their stacks.
List == DOMAIN base
BlocksOf(k) == {base[k] + i * k : i \in 0..(nblocks(reqs, k) - 1)}
Slots(k) == {base[k] - i * PointerSize : i \in 1..nblocks(reqs, k)}

\* The constructor pushes the blocks of a free list one after the other.  A lock's
\* first value is not specified: where it is set the first push never returns,
\* and else the pushes, of which every free list has one, leave it clear.
Init ==
  /\ reqs \in Requirements
  /\ freelist_pointers = [k \in 1..max_block_size(reqs) |-> NextList(reqs, k)]
  /\ base = [k \in Listed(reqs) |-> BaseAt(reqs, k)]
  /\ top = [k \in Listed(reqs) |-> StackAt(reqs, k)]
  /\ memory = [a \in UNION {Slots(k) : k \in List} |->
                 LET k == CHOOSE j \in List : a \in Slots(j)
                 IN  base[k] + ((base[k] - a) \div PointerSize - 1) * k]
  /\ lock = [k \in List |-> FALSE]
  /\ pc = [t \in Thread |-> "idle"]
  /\ list = [t \in Thread |-> 0] /\ bytes = [t \in Thread |-> 0] /\ block = [t \in Thread |-> 0]
  /\ held = {}

-----------------------------------------------------------------------------
(***************************************************************************)
(* The clients                                                             *)
(***************************************************************************)

\* The size specified for a request, and the requests for it in progress.
SizeFor(b) == Min({k \in List : b <= k})
InUse(k) ==
  Cardinality({h \in held : SizeFor(h.bytes) = k})
  + Cardinality({t \in Thread : pc[t] # "idle" /\ SizeFor(bytes[t]) = k})

\* allocate() finds its free list, and calls pop.
Allocate(t, b) ==
  /\ pc[t] = "idle"
  /\ b <= max_block_size(reqs) /\ InUse(SizeFor(b)) < nblocks(reqs, SizeFor(b))
  /\ list' = [list EXCEPT ![t] = freelist_pointers[calblocksize(b)]]
  /\ bytes' = [bytes EXCEPT ![t] = b]
  /\ pc' = [pc EXCEPT ![t] = "pop"]
  /\ UNCHANGED <<layoutVars, memory, top, lock, block, held>>

\* deallocate(), of any thread, finds it again, and calls push.
Deallocate(t, h) ==
  /\ pc[t] = "idle"
  /\ list' = [list EXCEPT ![t] = freelist_pointers[calblocksize(h.bytes)]]
  /\ bytes' = [bytes EXCEPT ![t] = h.bytes]
  /\ block' = [block EXCEPT ![t] = h.at]
  /\ held' = held \ {h}
  /\ pc' = [pc EXCEPT ![t] = "push"]
  /\ UNCHANGED <<layoutVars, memory, top, lock>>

-----------------------------------------------------------------------------
(***************************************************************************)
(* push and pop of freelist_t                                              *)
(***************************************************************************)
Go(t, from, to) ==
  /\ pc[t] = from
  /\ pc' = [pc EXCEPT ![t] = to]

\* (Mutant of Acquire: the lock is not tested.)
AcquireUntested(t, from, to) ==
  /\ Go(t, from, to)
  /\ lock' = [lock EXCEPT ![list[t]] = TRUE]
  /\ UNCHANGED <<layoutVars, memory, top, callVars, held>>

Acquire(t, from, to) ==
  /\ Go(t, from, to)
  /\ ~lock[list[t]] /\ lock' = [lock EXCEPT ![list[t]] = TRUE]
  /\ UNCHANGED <<layoutVars, memory, top, callVars, held>>

\* Pop reads the word on top and raises the top; in the empty stack the word is
\* past its end, the first of a block.
Load(t) ==
  /\ Go(t, "load", "raise")
  /\ IF top[list[t]] \in DOMAIN memory
     THEN block' = [block EXCEPT ![t] = memory[top[list[t]]]]
     ELSE \E k \in List : \E a \in BlocksOf(k) : block' = [block EXCEPT ![t] = a]
  /\ UNCHANGED <<layoutVars, memory, top, lock, list, bytes, held>>

Raise(t) ==
  /\ Go(t, "raise", "popped")
  /\ top' = [top EXCEPT ![list[t]] = @ + PointerSize]
  /\ UNCHANGED <<layoutVars, memory, lock, callVars, held>>

\* (Mutant of Lower: the word on top is overwritten.)
LowerNothing(t) ==
  /\ Go(t, "lower", "store")
  /\ UNCHANGED <<layoutVars, memory, top, lock, callVars, held>>

\* Push lowers the top and writes there.
Lower(t) ==
  /\ Go(t, "lower", "store")
  /\ top' = [top EXCEPT ![list[t]] = @ - PointerSize]
  /\ UNCHANGED <<layoutVars, memory, lock, callVars, held>>

Store(t) ==
  /\ Go(t, "store", "pushed")
  /\ memory' = [memory EXCEPT ![top[list[t]]] = block[t]]
  /\ UNCHANGED <<layoutVars, top, lock, callVars, held>>

\* Both clear the lock and return.
Unlock(t) ==
  /\ lock' = [lock EXCEPT ![list[t]] = FALSE]
  /\ list' = [list EXCEPT ![t] = 0] /\ bytes' = [bytes EXCEPT ![t] = 0]
  /\ block' = [block EXCEPT ![t] = 0]
  /\ UNCHANGED <<layoutVars, memory, top>>

ReturnBlock(t) ==
  /\ Go(t, "popped", "idle")
  /\ held' = held \cup {[at |-> block[t], bytes |-> bytes[t]]}
  /\ Unlock(t)

ReturnNothing(t) ==
  /\ Go(t, "pushed", "idle")
  /\ UNCHANGED held
  /\ Unlock(t)

Pop(t) == Acquire(t, "pop", "load") \/ Load(t) \/ Raise(t) \/ ReturnBlock(t)
Push(t) == Acquire(t, "push", "lower") \/ Lower(t) \/ Store(t) \/ ReturnNothing(t)

Next ==
  \E t \in Thread :
     \/ \E b \in Bytes : Allocate(t, b)
     \/ \E h \in held : Deallocate(t, h)
     \/ Pop(t) \/ Push(t)

Spec == Init /\ [][Next]_vars

-----------------------------------------------------------------------------
(***************************************************************************)
(* Properties                                                              *)
(***************************************************************************)

\* The top of a stack stays within it: neither the slots below nor the blocks
\* above are taken for it.
TypeOK ==
  /\ reqs \in Requirements
  /\ freelist_pointers \in [1..max_block_size(reqs) -> List]
  /\ memory \in [UNION {Slots(k) : k \in List}
                   -> UNION {BlocksOf(k) : k \in List}]
  /\ DOMAIN top = List
  /\ \A k \in List : top[k] \in Slots(k) \cup {base[k]}
  /\ lock \in [List -> BOOLEAN]
  /\ pc \in [Thread -> {"idle", "pop", "load", "raise", "popped", "push", "lower", "store", "pushed"}]
  /\ list \in [Thread -> List \cup {0}] /\ bytes \in [Thread -> Bytes \cup {0}]
  /\ block \in [Thread -> Nat]
  /\ held \subseteq [at : Nat, bytes : Bytes]

\* The assertion that ends the constructor.
ArenaFilled == arena_pointer(reqs)[0] = arena_size(reqs)

\* No two clients have a byte in common, and none has one of the pointers, of a
\* free list's object or its stack, or one outside of the arena, which is filled.
Extent(from, n) == from..(from + n - 1)
ObjectAndStack(k) ==
  LET n == FreelistSize + nblocks(reqs, k) * PointerSize IN Extent(base[k] - n, n)
Managed ==
  Extent(0, (max_block_size(reqs) + 1) * PointerSize)
  \cup UNION {ObjectAndStack(k) :
                k \in List}

BlocksApart ==
  /\ ArenaFilled
  /\ \A h \in held :
        /\ Extent(h.at, h.bytes) \cap Managed = {}
        /\ h.at + h.bytes <= arena_size(reqs)
  /\ \A g, h \in held : g # h => Extent(g.at, g.bytes) \cap Extent(h.at, h.bytes) = {}

\* While a free list is unlocked its blocks are each in one place, once: on the
\* stack, with a client, or on the way back.
OnStack(k) == {a \in Slots(k) : a >= top[k]}
Free(k) == {memory[a] : a \in OnStack(k)}
Taken(k) ==
  {h.at : h \in held} \cup {block[t] : t \in {u \in Thread : pc[u] = "push" /\ list[u] = k}}
NothingLost ==
  \A k \in List :
    ~lock[k] => /\ Free(k) \cap Taken(k) = {}
                /\ Cardinality(Free(k)) = Cardinality(OnStack(k))
                /\ BlocksOf(k) \subseteq Free(k) \cup Taken(k)

\* The allocator keeps its promise, whatever is done at the same time.
Promise == INSTANCE BlockStore WITH blocks <- [k \in List |-> BlocksOf(k)]
ImplementsStore == Promise!Spec
=============================================================================
