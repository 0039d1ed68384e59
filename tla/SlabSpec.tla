------------------------------ MODULE SlabSpec ------------------------------
(***************************************************************************)
(* What the per-CPU slabs promise for one size class: every CPU has a      *)
(* bounded stack of pointers, and a push or a pop is one indivisible step  *)
(* on the stack of some CPU.  What they do not promise is that a call      *)
(* takes effect once: it may be repeated, and from then on its pointer,    *)
(* but no other, may be in several hands and stacks, or in none.           *)
(***************************************************************************)
EXTENDS Integers, Sequences

CONSTANTS Thread, CPU, Ptr, Capacity

VARIABLES
    stack,     \* CPU -> the pointers cached there
    hand,      \* thread -> the pointers it holds
    repeated   \* the pointers whose push or pop was repeated

specvars == <<stack, hand, repeated>>

Push(t, c, p) ==
    /\ p \in hand[t]
    /\ Len(stack[c]) < Capacity
    /\ stack' = [stack EXCEPT ![c] = Append(@, p)]
    /\ hand' = [hand EXCEPT ![t] = @ \ {p}]
    /\ UNCHANGED repeated

Pop(t, c) ==
    /\ stack[c] # <<>>
    /\ hand' = [hand EXCEPT ![t] = @ \cup {stack[c][Len(stack[c])]}]
    /\ stack' = [stack EXCEPT ![c] = SubSeq(@, 1, Len(@) - 1)]
    /\ UNCHANGED repeated

(* t starts its call on p again although it has taken effect: p is on a    *)
(* stack and the pusher still has it, or is gone and the popper never got  *)
(* it.                                                                     *)
Repeat(t, p) ==
    /\ \/ hand' = [hand EXCEPT ![t] = @ \cup {p}]
       \/ hand' = [hand EXCEPT ![t] = @ \ {p}]
    /\ repeated' = repeated \cup {p}
    /\ UNCHANGED stack

SpecInit == stack = [c \in CPU |-> <<>>] /\ repeated = {}

SpecNext ==
    \E t \in Thread :
        \/ \E c \in CPU, p \in hand[t] : Push(t, c, p)
        \/ \E c \in CPU : Pop(t, c)
        \/ \E p \in Ptr : Repeat(t, p)

StackSpec == SpecInit /\ [][SpecNext]_specvars

=============================================================================
