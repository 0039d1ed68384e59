--------------------------- MODULE PageAllocSpec ---------------------------
(***************************************************************************)
(* What the page heap promises to its callers, with nothing of how it      *)
(* keeps the promise: an extent of pages handed out overlaps no other      *)
(* extent that is still held, and its memory stays mapped until its holder *)
(* gives it back or unmaps it.                                             *)
(*                                                                         *)
(* An extent is a pair <<first page, number of pages>>.                    *)
(***************************************************************************)
EXTENDS Integers

CONSTANTS
    NumPages,    \* page ids are 1 .. NumPages
    MAX_PAGES    \* no extent is longer than this

VARIABLES
    held,        \* the extents callers hold
    mapped       \* the pages mapped into the process

specvars == <<held, mapped>>

ExtentPages(e) == e[1] .. e[1] + e[2] - 1

HeldPages == UNION {ExtentPages(e) : e \in held}

SpecInit == held = {} /\ mapped = {}

(* Memory the process maps on demand is memory it then holds.              *)
Acquire(e) ==
    /\ ExtentPages(e) \cap HeldPages = {}
    /\ held' = held \cup {e}
    /\ mapped' = mapped \cup ExtentPages(e)

Release(e) ==
    /\ e \in held
    /\ held' = held \ {e}
    /\ UNCHANGED mapped

(* Unmapping takes pages nobody holds, or the holder's own extent.         *)
Unmap(gone, e) ==
    /\ held' = held \ {e}
    /\ gone \cap UNION {ExtentPages(x) : x \in held'} = {}
    /\ mapped' = mapped \ gone

SpecNext ==
    \/ \E first \in 1 .. NumPages, n \in 1 .. MAX_PAGES : Acquire(<<first, n>>)
    \/ \E e \in held : Release(e)
    \/ \E gone \in SUBSET mapped, e \in held \cup {<<0, 0>>} : Unmap(gone, e)

PromiseSpec == SpecInit /\ [][SpecNext]_specvars

=============================================================================
