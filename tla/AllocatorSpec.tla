---------------------------- MODULE AllocatorSpec ----------------------------
(***************************************************************************)
(* What Allocator promises to its users for one size class: allocate       *)
(* returns an object nobody holds, or nothing; an object stays with the    *)
(* thread that got it until some thread passes it to deallocate.           *)
(***************************************************************************)
CONSTANTS Thread, Object

VARIABLE users   \* thread -> the objects it holds

Allocate(t, o) ==
    /\ \A u \in Thread : o \notin users[u]
    /\ users' = [users EXCEPT ![t] = @ \cup {o}]

Deallocate(t, o) ==
    /\ o \in users[t]
    /\ users' = [users EXCEPT ![t] = @ \ {o}]

(* Users pass objects to each other without the allocator's knowing.       *)
HandOver(t, u, o) ==
    /\ o \in users[t]
    /\ users' = [users EXCEPT ![t] = @ \ {o}, ![u] = @ \cup {o}]

SpecInit == users = [t \in Thread |-> {}]

SpecNext ==
    \E t, u \in Thread, o \in Object :
        Allocate(t, o) \/ Deallocate(t, o) \/ HandOver(t, u, o)

UserSpec == SpecInit /\ [][SpecNext]_users

=============================================================================
