------------------------------ MODULE Allocator ------------------------------
(***************************************************************************)
(* Allocator::allocate and Allocator::deallocate (allocator.hpp) for one   *)
(* size class: many threads moving objects between the per-CPU slabs, the  *)
(* transfer cache and the central free list.                               *)
(*                                                                         *)
(* A slab operation is one step on the stack of whatever CPU the thread is *)
(* on at that moment (SlabSpec), a transfer-cache operation is one         *)
(* critical section (TransferCache), and one call to the central free list *)
(* is one step that takes an object out of it or puts one back             *)
(* (CentralFreeList).  Between any two of these the other threads run, and *)
(* the thread may find itself on another CPU.                              *)
(*                                                                         *)
(* The slab operations are the Push and Pop of SlabSpec, carried out once. *)
(* Its Repeat is left out, and so are races on the fallback: an object     *)
(* that comes back to the central list twice counts twice in its span, the *)
(* span is released while other objects of it are out, and nothing could   *)
(* be said of any object.  What is shown here is that the front end adds   *)
(* no loss and no duplication of its own.                                  *)
(***************************************************************************)
EXTENDS Integers, Sequences, FiniteSetsExt, Functions, TransferCache

CONSTANTS
    Thread,
    CPU,             \* the ids of the CPUs threads may run on
    Masks,           \* what sched_getaffinity may answer: sets of CPUs
    Object, NULL,    \* the objects of the class, and nullptr
    Capacity,        \* slots of the class in a slab
    batch_size       \* SizeClasses[sc_idx].batch_size

ASSUME AllocatorAssumption ==
    /\ NULL \notin Object
    /\ CPU \subseteq Nat /\ CPU # {}
    /\ Masks \subseteq SUBSET CPU
    /\ \A mask \in Masks \ {{}} : \E c \in mask : \A d \in mask : c >= d
    /\ Capacity \in Nat \ {0}
    /\ batch_size \in Nat \ {0}

VARIABLES
    slab_count,   \* 0 before construction
    stack,     \* CPU -> the pointers in its slab
    slots,     \* the transfer cache
    central,   \* the objects free in the central free list
    users,     \* thread -> the objects it holds as a user
    pc,        \* thread -> where it is
    batch,     \* thread -> its local array batch[]
    mem,       \* thread -> result of allocate, argument of deallocate
    call       \* thread -> "allocate" or "deallocate"

vars == <<slab_count, stack, slots, central, users, pc, batch, mem, call>>

Goto(t, l) == pc' = [pc EXCEPT ![t] = l]
SetBatch(t, b) == batch' = [batch EXCEPT ![t] = b]

Top(s) == s[Len(s)]
Front(s) == SubSeq(s, 1, Len(s) - 1)

-----------------------------------------------------------------------------
(* The constructor *)

(* One slab for every id up to the highest one in the affinity mask.       *)
slabs_for(mask) == IF mask = {} THEN 1 ELSE Max(mask) + 1

(* If the mmap of the slabs fails the constructor throws, and there is no  *)
(* allocator.                                                              *)
constructor(mask) ==
    /\ slab_count = 0
    /\ slab_count' = slabs_for(mask)
    /\ UNCHANGED <<stack, slots, central, users, pc, batch, mem, call>>

Cached == {c \in CPU : c < slab_count}

-----------------------------------------------------------------------------
(* The slab of CPU c.  A CPU beyond slab_count has none: there every push  *)
(* and every pop fails.                                                    *)

slab_push(c, p) ==
    /\ c \in Cached
    /\ Len(stack[c]) < Capacity
    /\ stack' = [stack EXCEPT ![c] = Append(@, p)]

slab_push_fails(c) ==
    /\ c \in Cached => Len(stack[c]) >= Capacity
    /\ UNCHANGED stack

slab_pop(c) ==
    /\ c \in Cached
    /\ stack[c] # <<>>
    /\ stack' = [stack EXCEPT ![c] = Front(@)]

slab_pop_fails(c) ==
    /\ c \in Cached => stack[c] = <<>>
    /\ UNCHANGED stack

-----------------------------------------------------------------------------
(* allocate *)

(* The call returns p to its user.                                         *)
return_object(t, p) ==
    /\ users' = [users EXCEPT ![t] = IF p = NULL THEN @ ELSE @ \cup {p}]
    /\ mem' = [mem EXCEPT ![t] = NULL]
    /\ SetBatch(t, <<>>)
    /\ Goto(t, "idle")

call_allocate(t) ==
    /\ slab_count # 0
    /\ pc[t] = "idle"
    /\ call' = [call EXCEPT ![t] = "allocate"]
    /\ Goto(t, "fast_pop")
    /\ UNCHANGED <<stack, slots, central, users, batch, mem>>

fast_pop(t, c) ==
    /\ pc[t] = "fast_pop"
    /\ \/ slab_pop(c) /\ return_object(t, Top(stack[c]))
       \/ slab_pop_fails(c) /\ Goto(t, "refill") /\ UNCHANGED <<users, mem, batch>>
    /\ UNCHANGED <<slots, central, call>>

(* refill_batch: the transfer cache first, the central free list if that   *)
(* is empty.                                                               *)
refill_from_cache(t) ==
    LET got == removed(slots, batch_size) IN
    /\ pc[t] = "refill"
    /\ slots' = RemoveRange(slots, batch_size)
    /\ SetBatch(t, got)
    /\ Goto(t, IF got = <<>> THEN "allocate_batch" ELSE "refilled")
    /\ UNCHANGED <<stack, central, users, mem, call>>

(* One turn of allocate_batch.                                             *)
cfl_allocate(t) ==
    /\ pc[t] = "allocate_batch"
    /\ Len(batch[t]) < batch_size
    /\ \E o \in central :
          /\ central' = central \ {o}
          /\ SetBatch(t, Append(batch[t], o))
    /\ UNCHANGED <<stack, slots, users, pc, mem, call>>

(* The loop ends: the batch is full or allocate returned nullptr, which it *)
(* may do at any time because mmap may fail at any time.                   *)
cfl_allocate_done(t) ==
    /\ pc[t] = "allocate_batch"
    /\ Goto(t, "refilled")
    /\ UNCHANGED <<stack, slots, central, users, batch, mem, call>>

(* Mutant: the object returned to the user also stays in the batch.        *)
ResultStaysInBatch(t) ==
    /\ mem' = [mem EXCEPT ![t] = Top(batch[t])]
    /\ UNCHANGED batch

(* `result = batch[--got]`                                                 *)
take_result(t) ==
    /\ mem' = [mem EXCEPT ![t] = Top(batch[t])]
    /\ SetBatch(t, Front(batch[t]))

refill_result(t) ==
    /\ pc[t] = "refilled"
    /\ IF batch[t] = <<>>
       THEN return_object(t, NULL)
       ELSE take_result(t) /\ Goto(t, "publish") /\ UNCHANGED users
    /\ UNCHANGED <<stack, slots, central, call>>

publish(t, c) ==
    /\ pc[t] = "publish"
    /\ batch[t] # <<>>
    /\ \/ /\ slab_push(c, Top(batch[t]))
          /\ SetBatch(t, Front(batch[t]))
          /\ UNCHANGED pc
       \/ slab_push_fails(c) /\ Goto(t, "insert_range") /\ UNCHANGED batch
    /\ UNCHANGED <<slots, central, users, mem, call>>

publish_done(t) ==
    /\ pc[t] = "publish"
    /\ batch[t] = <<>>
    /\ return_object(t, mem[t])
    /\ UNCHANGED <<stack, slots, central, call>>

-----------------------------------------------------------------------------
(* release_batch, called from both operations *)

after_release(t) == IF call[t] = "allocate" THEN "publish" ELSE "push_again"

insert_range(t) ==
    LET rest == not_inserted(slots, batch[t]) IN
    /\ pc[t] = "insert_range"
    /\ slots' = InsertRange(slots, batch[t])
    /\ SetBatch(t, rest)
    /\ Goto(t, "deallocate_batch")
    /\ UNCHANGED <<stack, central, users, mem, call>>

(* One turn of deallocate_batch.                                           *)
cfl_deallocate(t) ==
    /\ pc[t] = "deallocate_batch"
    /\ batch[t] # <<>>
    /\ central' = central \cup {Head(batch[t])}
    /\ SetBatch(t, Tail(batch[t]))
    /\ UNCHANGED <<stack, slots, users, pc, mem, call>>

cfl_deallocate_done(t) ==
    /\ pc[t] = "deallocate_batch"
    /\ batch[t] = <<>>
    /\ Goto(t, after_release(t))
    /\ UNCHANGED <<stack, slots, central, users, batch, mem, call>>

-----------------------------------------------------------------------------
(* deallocate: the thread that frees an object need not be the one that    *)
(* allocated it; a user hands objects over through shared memory.          *)

hand_over(t, u, o) ==
    /\ t # u
    /\ o \in users[t]
    /\ pc[t] = "idle"
    /\ users' = [users EXCEPT ![t] = @ \ {o}, ![u] = @ \cup {o}]
    /\ UNCHANGED <<stack, slots, central, pc, batch, mem, call>>

return_nothing(t) ==
    /\ mem' = [mem EXCEPT ![t] = NULL]
    /\ Goto(t, "idle")

call_deallocate(t, o) ==
    /\ pc[t] = "idle"
    /\ o \in users[t]
    /\ users' = [users EXCEPT ![t] = @ \ {o}]
    /\ mem' = [mem EXCEPT ![t] = o]
    /\ call' = [call EXCEPT ![t] = "deallocate"]
    /\ Goto(t, "fast_push")
    /\ UNCHANGED <<stack, slots, central, batch>>

fast_push(t, c) ==
    /\ pc[t] = "fast_push"
    /\ \/ slab_push(c, mem[t]) /\ return_nothing(t)
       \/ slab_push_fails(c) /\ Goto(t, "drain") /\ UNCHANGED mem
    /\ UNCHANGED <<slots, central, users, batch, call>>

(* Mutant: the loop that drains the slab has no bound on what it takes.    *)
DrainsForever(t) == TRUE

drain_more(t) == Len(batch[t]) < batch_size

(* Mutant: the loop goes on when the slab has run empty.                   *)
DrainWithoutBreak(t, c) ==
    /\ pc[t] = "drain"
    /\ drain_more(t)
    /\ \/ slab_pop(c) /\ SetBatch(t, Append(batch[t], Top(stack[c])))
       \/ slab_pop_fails(c) /\ UNCHANGED batch
    /\ UNCHANGED <<slots, central, users, pc, mem, call>>

drain(t, c) ==
    /\ pc[t] = "drain"
    /\ drain_more(t)
    /\ \/ slab_pop(c) /\ SetBatch(t, Append(batch[t], Top(stack[c])))
                      /\ UNCHANGED pc
       \/ slab_pop_fails(c) /\ UNCHANGED batch
            /\ Goto(t, IF batch[t] = <<>> THEN "push_again" ELSE "insert_range")
    /\ UNCHANGED <<slots, central, users, mem, call>>

drain_done(t) ==
    /\ pc[t] = "drain"
    /\ ~drain_more(t)
    /\ Goto(t, "insert_range")
    /\ UNCHANGED <<stack, slots, central, users, batch, mem, call>>

(* Mutant: when the second push fails too, the object is dropped.          *)
DropsObject(t, c) ==
    /\ pc[t] = "push_again"
    /\ \/ slab_push(c, mem[t])
       \/ slab_push_fails(c)
    /\ return_nothing(t)
    /\ UNCHANGED <<slots, central, users, batch, call>>

push_again(t, c) ==
    /\ pc[t] = "push_again"
    /\ \/ slab_push(c, mem[t]) /\ UNCHANGED central
       \/ slab_push_fails(c) /\ central' = central \cup {mem[t]}
    /\ return_nothing(t)
    /\ UNCHANGED <<slots, users, batch, call>>

-----------------------------------------------------------------------------
Init ==
    /\ slab_count = 0
    /\ stack = [c \in CPU |-> <<>>]
    /\ slots = <<>>
    /\ central = Object
    /\ users = [t \in Thread |-> {}]
    /\ pc = [t \in Thread |-> "idle"]
    /\ batch = [t \in Thread |-> <<>>]
    /\ mem = [t \in Thread |-> NULL]
    /\ call = [t \in Thread |-> "allocate"]

(* The code of a thread inside a call.                                     *)
step(t) ==
    \/ \E c \in CPU : \/ fast_pop(t, c) \/ publish(t, c) \/ fast_push(t, c)
                      \/ drain(t, c) \/ push_again(t, c)
    \/ refill_from_cache(t) \/ cfl_allocate(t) \/ cfl_allocate_done(t)
    \/ refill_result(t) \/ publish_done(t)
    \/ insert_range(t) \/ cfl_deallocate(t) \/ cfl_deallocate_done(t)
    \/ drain_done(t)

(* The constructor is over; nothing changes the number of slabs.           *)
running(t) ==
    /\ \/ call_allocate(t)
       \/ \E o \in users[t] : call_deallocate(t, o)
       \/ \E u \in Thread, o \in users[t] : hand_over(t, u, o)
       \/ step(t)
    /\ UNCHANGED slab_count

Next ==
    \/ \E mask \in Masks : constructor(mask)
    \/ \E t \in Thread : running(t)

Spec == Init /\ [][Next]_vars

(* Every thread inside a call goes on; nobody has to make a call.          *)
FairSpec == Spec /\ \A t \in Thread : WF_vars(step(t) /\ UNCHANGED slab_count)

-----------------------------------------------------------------------------
(* Properties *)

Label == {"idle", "fast_pop", "refill", "allocate_batch", "refilled",
          "publish", "insert_range", "deallocate_batch", "fast_push", "drain",
          "push_again"}

(* The state has its types; no slab, transfer cache or local batch holds   *)
(* more than its array has room for.                                       *)
TypeOK ==
    /\ slab_count \in Nat
    /\ stack \in [CPU -> Seq(Object)]
    /\ \A c \in CPU : Len(stack[c]) <= Capacity
    /\ slots \in Seq(Object)
    /\ Len(slots) <= TRANSFER_CACHE_CAPACITY
    /\ central \in SUBSET Object
    /\ users \in [Thread -> SUBSET Object]
    /\ pc \in [Thread -> Label]
    /\ batch \in [Thread -> Seq(Object)]
    /\ \A t \in Thread : Len(batch[t]) <= batch_size
    /\ mem \in [Thread -> Object \cup {NULL}]
    /\ call \in [Thread -> {"allocate", "deallocate"}]

(* Where an object can be, and what each of these places holds.            *)
Place ==
    {<<"central", NULL>>, <<"slots", NULL>>} \cup ({"slab"} \X CPU)
    \cup ({"batch", "mem", "user"} \X Thread)

Holds(k) ==
    CASE k[1] = "central" -> central
      [] k[1] = "slots" -> Range(slots)
      [] k[1] = "slab" -> Range(stack[k[2]])
      [] k[1] = "batch" -> Range(batch[k[2]])
      [] k[1] = "mem" -> {mem[k[2]]} \ {NULL}
      [] k[1] = "user" -> users[k[2]]

Partitioned ==
    \A o \in Object : \E k \in Place : \A j \in Place : o \in Holds(j) <=> j = k

NoDuplicates ==
    /\ IsInjective(slots)
    /\ \A c \in CPU : IsInjective(stack[c])
    /\ \A t \in Thread : IsInjective(batch[t])

(* Every object is in exactly one place, and there once: free in the       *)
(* central list, in the transfer cache, in one slab, in one thread's       *)
(* batch, being allocated or freed, or with one user.  None is given out   *)
(* twice and none is lost on any of the overflow paths.                    *)
OnePlace == Partitioned /\ NoDuplicates

(* Seen from its users the allocator is AllocatorSpec: an object comes     *)
(* from allocate only when nobody holds it, and no step of another thread  *)
(* takes it away.                                                          *)
User == INSTANCE AllocatorSpec

KeepsUserPromise == User!UserSpec

(* Every allocate and every deallocate returns: the refill, publish, drain *)
(* and release loops end whatever the other threads do to the caches.      *)
CallsReturn == \A t \in Thread : []<>(pc[t] = "idle")

=============================================================================
