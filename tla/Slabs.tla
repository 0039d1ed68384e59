-------------------------------- MODULE Slabs --------------------------------
(***************************************************************************)
(* The per-CPU caches (slabs.hpp) for one size class, instruction by       *)
(* instruction: the rseq critical sections of rseq_slab_pop and            *)
(* rseq_slab_push, the plain fallback_allocate and fallback_deallocate,    *)
(* and the wrappers slab_pop and slab_push that choose between them.       *)
(*                                                                         *)
(* The kernel runs at most one thread on a CPU and may preempt or migrate  *)
(* a thread between any two instructions.  A thread preempted with its     *)
(* rseq_cs set and its instruction pointer inside the descriptor's range   *)
(* resumes at the abort handler, which jumps back to the start.  The range *)
(* ends at label 13/23, two instructions after the committing store: a     *)
(* thread preempted there repeats an operation that has taken effect.  The *)
(* history variable repeated records the pointers this has happened to.    *)
(*                                                                         *)
(* A slab is the class's count and its slice of the pointer array.         *)
(***************************************************************************)
EXTENDS Integers, Sequences

CONSTANTS
    Thread, CPU,     \* CPU is a set of CPU ids
    Ptr, NULL,       \* object pointers, and nullptr
    Capacity,        \* SIZE_CLASS_CAPACITIES of the class
    SlabCount,       \* Allocator::slab_count
    RseqAvailable    \* rseq_available()

ASSUME SlabsAssumption ==
    /\ NULL \notin Ptr \cup Thread
    /\ CPU \subseteq Nat
    /\ Capacity \in Nat \ {0}
    /\ SlabCount \in Nat \ {0}
    /\ RseqAvailable \in BOOLEAN

VARIABLES
    slab,      \* CPU -> [current, pointers]
    running,   \* CPU -> the thread it runs, or NULL
    pc,        \* thread -> the instruction it executes next
    op,        \* thread -> "push" or "pop", the call it is in
    reg,       \* thread -> its registers
    rseq_cs,   \* thread -> whether its rseq_cs points to the descriptor
    hand,      \* thread -> the pointers its caller holds; one that was
               \* given the same pointer twice gives it back once
    repeated   \* history: the pointers whose push or pop was repeated

vars == <<slab, running, pc, op, reg, rseq_cs, hand, repeated>>

(* r10: the slab's CPU, eax: the count, ptr: r9 of pop, the argument of    *)
(* push                                                                    *)
NoRegs == [cpu |-> 0, cur |-> 0, ptr |-> NULL]

InRange(c) == c < SlabCount

On(t, c) == running[c] = t

(* The instructions between labels 12 and 13 (22 and 23).                  *)
Section == {"start", "cpu_start", "load", "cpu_check", "pointer", "commit",
            "clear"}

SetPc(t, l) == pc' = [pc EXCEPT ![t] = l]
SetReg(t, f, v) == reg' = [reg EXCEPT ![t][f] = v]

-----------------------------------------------------------------------------
(* The kernel *)

schedule(t, c) ==
    /\ running[c] = NULL
    /\ \A d \in CPU : ~On(t, d)
    /\ running' = [running EXCEPT ![c] = t]
    /\ UNCHANGED <<slab, pc, op, reg, rseq_cs, hand, repeated>>

(* Mutant: a preempted critical section resumes where it stopped.          *)
ResumesInside(t) == pc[t]

(* Where a preempted thread resumes.                                       *)
resume_at(t) ==
    IF rseq_cs[t] /\ pc[t] \in Section THEN "start" ELSE pc[t]

(* From the start on all registers but the argument are loaded again.      *)
Reloaded(t) ==
    [NoRegs EXCEPT !.ptr = IF op[t] = "push" THEN reg[t].ptr ELSE NULL]

(* The abort comes after the committing store.                             *)
Repeats(t) == pc[t] = "clear" /\ resume_at(t) = "start"

preempt(t, c) ==
    /\ On(t, c)
    /\ running' = [running EXCEPT ![c] = NULL]
    /\ SetPc(t, resume_at(t))
    /\ reg' = [reg EXCEPT ![t] = IF resume_at(t) = "start" THEN Reloaded(t) ELSE @]
    /\ rseq_cs' = [rseq_cs EXCEPT ![t] = FALSE]
    /\ repeated' = IF Repeats(t) THEN repeated \cup {reg[t].ptr} ELSE repeated
    /\ UNCHANGED <<slab, op, hand>>

-----------------------------------------------------------------------------
(* Calls *)

(* slab_push(p) and slab_pop: the rseq path when it is available.          *)
first_instruction == IF RseqAvailable THEN "start" ELSE "get_cpu"

call_push(t, p) ==
    /\ pc[t] = "idle"
    /\ p \in hand[t]
    /\ op' = [op EXCEPT ![t] = "push"]
    /\ reg' = [reg EXCEPT ![t] = [NoRegs EXCEPT !.ptr = p]]
    /\ SetPc(t, first_instruction)
    /\ UNCHANGED <<slab, running, rseq_cs, hand, repeated>>

call_pop(t) ==
    /\ pc[t] = "idle"
    /\ op' = [op EXCEPT ![t] = "pop"]
    /\ reg' = [reg EXCEPT ![t] = NoRegs]
    /\ SetPc(t, first_instruction)
    /\ UNCHANGED <<slab, running, rseq_cs, hand, repeated>>

(* The call returns: a push that succeeded has given its pointer away, a   *)
(* pop that succeeded has got one.  The registers are free for other use.  *)
returns(t, ok) ==
    /\ SetPc(t, "idle")
    /\ op' = [op EXCEPT ![t] = "pop"]
    /\ reg' = [reg EXCEPT ![t] = NoRegs]
    /\ hand' = [hand EXCEPT ![t] =
                   IF ~ok THEN @
                   ELSE IF op[t] = "push" THEN @ \ {reg[t].ptr}
                   ELSE @ \cup {reg[t].ptr}]

-----------------------------------------------------------------------------
(* The critical section; each step is one access to memory                 *)

set_rseq_cs(t) ==
    /\ pc[t] = "start"
    /\ rseq_cs' = [rseq_cs EXCEPT ![t] = TRUE]
    /\ SetPc(t, "cpu_start")
    /\ UNCHANGED <<slab, running, op, reg, hand, repeated>>

(* movl cpu_id_start; a CPU beyond the slabs leaves through label 17 (27). *)
load_cpu_start(t, c) ==
    /\ pc[t] = "cpu_start"
    /\ SetReg(t, "cpu", c)
    /\ SetPc(t, IF InRange(c) THEN "load" ELSE "out_of_range")
    /\ UNCHANGED <<slab, running, op, rseq_cs, hand, repeated>>

load_current(t) ==
    /\ pc[t] = "load"
    /\ SetReg(t, "cur", slab[reg[t].cpu].current)
    /\ SetPc(t, "cpu_check")
    /\ UNCHANGED <<slab, running, op, rseq_cs, hand, repeated>>

(* Mutant: the section restarts when the CPU is still the same.            *)
ChangedCpu(t, c) == reg[t].cpu # c

same_cpu(t, c) == reg[t].cpu = c

(* Mutant: one pointer more than the capacity fits.                        *)
OneTooMany(o, cur) == IF o = "push" THEN cur <= Capacity ELSE cur > 0

(* Push needs a slot above the top, pop a pointer below it.                *)
has_room_or_object(o, cur) == IF o = "push" THEN cur < Capacity ELSE cur > 0

check_cpu(t, c) ==
    /\ pc[t] = "cpu_check"
    /\ SetPc(t, IF ~same_cpu(t, c) THEN "start"
                ELSE IF has_room_or_object(op[t], reg[t].cur) THEN "pointer"
                ELSE "refuse")
    /\ UNCHANGED <<slab, running, op, reg, rseq_cs, hand, repeated>>

(* The slot the operation works on, 0-based in the class's slice.          *)
slot(o, cur) == IF o = "push" THEN cur ELSE cur - 1

(* pop loads the pointer from the slot, push stores it there.              *)
access_pointer(t) ==
    LET r == reg[t] IN
    /\ IF op[t] = "push"
       THEN /\ slab' = [slab EXCEPT ![r.cpu].pointers[slot(op[t], r.cur)] = r.ptr]
            /\ UNCHANGED reg
       ELSE /\ SetReg(t, "ptr", slab[r.cpu].pointers[slot(op[t], r.cur)])
            /\ UNCHANGED slab

rseq_access_pointer(t) ==
    /\ pc[t] = "pointer"
    /\ access_pointer(t)
    /\ SetPc(t, "commit")
    /\ UNCHANGED <<running, op, rseq_cs, hand, repeated>>

store_current(t) ==
    LET r == reg[t]
        n == IF op[t] = "push" THEN r.cur + 1 ELSE r.cur - 1
    IN  slab' = [slab EXCEPT ![r.cpu].current = n]

(* The committing store: `movw` of the new count.                          *)
rseq_commit(t) ==
    /\ pc[t] = "commit"
    /\ store_current(t)
    /\ SetPc(t, "clear")
    /\ UNCHANGED <<running, op, reg, rseq_cs, hand, repeated>>

(* Clears rseq_cs; what follows touches registers only.                    *)
clear_rseq_cs(t) ==
    /\ pc[t] = "clear"
    /\ rseq_cs' = [rseq_cs EXCEPT ![t] = FALSE]
    /\ returns(t, TRUE)
    /\ UNCHANGED <<slab, running, repeated>>

(* Labels 15 and 25: the stack is empty or full.                           *)
rseq_refuse(t) ==
    /\ pc[t] = "refuse"
    /\ rseq_cs' = [rseq_cs EXCEPT ![t] = FALSE]
    /\ returns(t, FALSE)
    /\ UNCHANGED <<slab, running, repeated>>

(* Labels 17 and 27: used_fastpath = 0, the wrapper falls back.            *)
rseq_out_of_range(t) ==
    /\ pc[t] = "out_of_range"
    /\ rseq_cs' = [rseq_cs EXCEPT ![t] = FALSE]
    /\ SetPc(t, "get_cpu")
    /\ UNCHANGED <<slab, running, op, reg, hand, repeated>>

-----------------------------------------------------------------------------
(* The fallback: no section, the thread just goes on when it resumes       *)

(* current_cpu_id and get_slabs_checked                                    *)
fallback_get_slab(t, c) ==
    /\ pc[t] = "get_cpu"
    /\ IF InRange(c)
       THEN SetReg(t, "cpu", c) /\ SetPc(t, "fb_load") /\ UNCHANGED <<op, hand>>
       ELSE returns(t, FALSE)
    /\ UNCHANGED <<slab, running, rseq_cs, repeated>>

fallback_load(t) ==
    LET cur == slab[reg[t].cpu].current IN
    /\ pc[t] = "fb_load"
    /\ IF has_room_or_object(op[t], cur)
       THEN SetReg(t, "cur", cur) /\ SetPc(t, "fb_pointer") /\ UNCHANGED <<op, hand>>
       ELSE returns(t, FALSE)
    /\ UNCHANGED <<slab, running, rseq_cs, repeated>>

fallback_access_pointer(t) ==
    /\ pc[t] = "fb_pointer"
    /\ access_pointer(t)
    /\ SetPc(t, "fb_store")
    /\ UNCHANGED <<running, op, rseq_cs, hand, repeated>>

fallback_store(t) ==
    /\ pc[t] = "fb_store"
    /\ store_current(t)
    /\ returns(t, TRUE)
    /\ UNCHANGED <<running, rseq_cs, repeated>>

-----------------------------------------------------------------------------
(* mmap zero-fills the slabs.  Callers hold all the pointers at first.     *)
EmptySlab == [current |-> 0, pointers |-> [i \in 0 .. Capacity - 1 |-> NULL]]

Init ==
    /\ slab = [c \in CPU |-> EmptySlab]
    /\ running = [c \in CPU |-> NULL]
    /\ pc = [t \in Thread |-> "idle"]
    /\ op = [t \in Thread |-> "pop"]
    /\ reg = [t \in Thread |-> NoRegs]
    /\ rseq_cs = [t \in Thread |-> FALSE]
    /\ repeated = {}
    /\ \E owner \in [Ptr -> Thread] :
          hand = [t \in Thread |-> {p \in Ptr : owner[p] = t}]

instruction(t, c) ==
    /\ On(t, c)
    /\ \/ set_rseq_cs(t)
       \/ load_cpu_start(t, c)
       \/ load_current(t)
       \/ check_cpu(t, c)
       \/ rseq_access_pointer(t)
       \/ rseq_commit(t)
       \/ clear_rseq_cs(t)
       \/ rseq_refuse(t)
       \/ rseq_out_of_range(t)
       \/ fallback_get_slab(t, c)
       \/ fallback_load(t)
       \/ fallback_access_pointer(t)
       \/ fallback_store(t)

Next ==
    \E t \in Thread, c \in CPU :
        \/ schedule(t, c)
        \/ preempt(t, c)
        \/ instruction(t, c)
        \/ On(t, c) /\ call_pop(t)
        \/ On(t, c) /\ \E p \in hand[t] : call_push(t, p)

Spec == Init /\ [][Next]_vars

(* A thread that is not running gets a CPU, and a running one executes.    *)
(* Nothing forces a preemption, a call, or an end to preemptions.          *)
Fairness ==
    \A t \in Thread :
        /\ WF_vars(\E c \in CPU : schedule(t, c))
        /\ WF_vars(\E c \in CPU : instruction(t, c))

FairSpec == Spec /\ Fairness

-----------------------------------------------------------------------------
(* Properties *)

(* Between the committing store and the return the caller's pointer has    *)
(* already changed hands.                                                  *)
Committed(t) == pc[t] = "clear"

EffectiveHand(t) ==
    IF ~Committed(t) THEN hand[t]
    ELSE IF op[t] = "push" THEN hand[t] \ {reg[t].ptr}
    ELSE hand[t] \cup {reg[t].ptr}

StackOf(c) == [i \in 1 .. slab[c].current |-> slab[c].pointers[i - 1]]

Label == Section \cup {"idle", "refuse", "out_of_range", "get_cpu", "fb_load",
                       "fb_pointer", "fb_store"}

(* The state has its types: counts stay within the class's slice of the    *)
(* pointer array, so that no push writes into another class's slots.       *)
TypeOK ==
    /\ slab \in [CPU -> [current : 0 .. Capacity,
                        pointers : [0 .. Capacity - 1 -> Ptr \cup {NULL}]]]
    /\ running \in [CPU -> Thread \cup {NULL}]
    /\ pc \in [Thread -> Label]
    /\ op \in [Thread -> {"push", "pop"}]
    /\ rseq_cs \in [Thread -> BOOLEAN]
    /\ hand \in [Thread -> SUBSET Ptr]
    /\ repeated \in SUBSET Ptr
    /\ reg \in [Thread -> [cpu : CPU \cup {0}, cur : 0 .. Capacity,
                          ptr : Ptr \cup {NULL}]]

(* Pointer p is the i-th one on the stack of CPU c.                        *)
Cached(p, c, i) == i <= slab[c].current /\ slab[c].pointers[i - 1] = p

(* Every pointer whose pushes and pops were never repeated is in exactly   *)
(* one place: in the hands of one thread, or in one slot of one CPU's      *)
(* stack.  A pointer in two places would be allocated twice; one in no     *)
(* place is lost.  A repetition harms no pointer but its own.              *)
OnePlace ==
    \A p \in Ptr \ repeated :
        /\ \/ \E t \in Thread : p \in EffectiveHand(t)
           \/ \E c \in CPU, i \in 1 .. Capacity : Cached(p, c, i)
        /\ \A t, u \in Thread :
              p \in EffectiveHand(t) /\ p \in EffectiveHand(u) => t = u
        /\ \A c, d \in CPU, i, j \in 1 .. Capacity :
              Cached(p, c, i) /\ Cached(p, d, j) => c = d /\ i = j
        /\ \A t \in Thread, c \in CPU, i \in 1 .. Capacity :
              p \in EffectiveHand(t) => ~Cached(p, c, i)

(* What the callers can tell: no pointer is held by two of them.  A        *)
(* pointer being pushed is no longer its caller's.                         *)
CallerHolds(t) ==
    IF pc[t] # "idle" /\ op[t] = "push" THEN hand[t] \ {reg[t].ptr} ELSE hand[t]

(* concurrency_test.cpp:76 checks that the contents of an allocation are   *)
(* intact when it is freed: no other thread was given the same memory.     *)
NeverAllocatedTwice ==
    \A t, u \in Thread : t # u => CallerHolds(t) \cap CallerHolds(u) = {}

(* The slabs keep their promise (SlabSpec): a push or a pop takes effect   *)
(* at its committing store and once, whatever the kernel does in between,  *)
(* but for the repetition that an abort after that store causes.           *)
Stacks == INSTANCE SlabSpec WITH
    stack <- [c \in CPU |-> StackOf(c)],
    hand  <- [t \in Thread |-> EffectiveHand(t)]

ImplementsStacks == Stacks!StackSpec

(* A call ends unless its thread is preempted again and again: a critical  *)
(* section restarts only because of the kernel, never on its own.          *)
CallsEnd ==
    \A t \in Thread :
        \/ []<>(pc[t] = "idle")
        \/ []<><<\E c \in CPU : preempt(t, c)>>_vars

=============================================================================
