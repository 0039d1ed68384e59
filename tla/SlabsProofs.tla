---------------------------- MODULE SlabsProofs ----------------------------
(***************************************************************************)
(* Proofs about Slabs, for any number of threads, CPUs and pointers.       *)
(***************************************************************************)
EXTENDS Slabs, SequenceTheorems, TLAPS

-----------------------------------------------------------------------------
(* Bounds.  These hold whatever path is taken and however threads race on  *)
(* the fallback: a count that is stale when it is used was in range, and   *)
(* had its pointers stored, when it was loaded.                            *)

HasCpu == {"load", "cpu_check", "pointer", "commit",
           "fb_load", "fb_pointer", "fb_store"}
HasCount == {"cpu_check", "pointer", "commit", "fb_pointer", "fb_store"}
Checked == {"pointer", "commit", "fb_pointer", "fb_store"}
Accessed == {"commit", "fb_store"}

Registers == [cpu : CPU \cup {0}, cur : 0 .. Capacity, ptr : Ptr \cup {NULL}]

(* The first n slots of CPU c hold pointers.                               *)
Filled(c, n) == \A i \in 0 .. n - 1 : slab[c].pointers[i] \in Ptr

ThreadBounds(t) ==
    /\ pc[t] \in HasCpu => reg[t].cpu \in CPU
    /\ pc[t] \in HasCount => Filled(reg[t].cpu, reg[t].cur)
    /\ pc[t] \in Checked => has_room_or_object(op[t], reg[t].cur)
    /\ pc[t] \in Accessed /\ op[t] = "push" =>
          slab[reg[t].cpu].pointers[reg[t].cur] \in Ptr
    /\ pc[t] # "idle" /\ op[t] = "push" => reg[t].ptr \in Ptr
    /\ pc[t] \in Accessed \cup {"clear"} => reg[t].ptr \in Ptr

Bounds ==
    /\ TypeOK
    /\ \A c \in CPU : Filled(c, slab[c].current)
    /\ \A t \in Thread : ThreadBounds(t)

(* What a step of t leaves alone of the other threads.                     *)
OnlyThread(t) ==
    \A u \in Thread \ {t} : pc'[u] = pc[u] /\ op'[u] = op[u] /\ reg'[u] = reg[u]

(* Slots that hold pointers go on holding pointers.                        *)
KeepsFilled ==
    \A c \in CPU, i \in 0 .. Capacity - 1 :
        slab[c].pointers[i] \in Ptr => slab'[c].pointers[i] \in Ptr

LEMMA InitBounds == Init => Bounds
<1> SUFFICES ASSUME Init PROVE Bounds
  OBVIOUS
<1> USE SlabsAssumption
<1>1. TypeOK
  BY DEF Init, TypeOK, EmptySlab, NoRegs, Label, Section
<1>2. \A c \in CPU : slab[c].current = 0
  BY DEF Init, EmptySlab
<1>3. \A t \in Thread : pc[t] = "idle"
  BY DEF Init
<1> QED
  BY <1>1, <1>2, <1>3 DEF Bounds, Filled, ThreadBounds, HasCpu, HasCount,
     Checked, Accessed

(* A step of t that keeps filled slots filled keeps the bounds of every    *)
(* other thread.                                                           *)
LEMMA OthersBounds ==
    ASSUME Bounds, TypeOK', NEW t \in Thread, OnlyThread(t), KeepsFilled
    PROVE  \A u \in Thread \ {t} : ThreadBounds(u)'
<1> SUFFICES ASSUME NEW u \in Thread \ {t} PROVE ThreadBounds(u)'
  OBVIOUS
<1> USE SlabsAssumption
<1>1. pc'[u] = pc[u] /\ op'[u] = op[u] /\ reg'[u] = reg[u]
  BY DEF OnlyThread
<1>2. ThreadBounds(u) /\ reg[u].cur \in 0 .. Capacity
  BY DEF Bounds, TypeOK
<1>3. pc[u] \in HasCount => reg[u].cpu \in CPU
  BY <1>2 DEF ThreadBounds, HasCount, HasCpu
<1>4. pc[u] \in HasCount => Filled(reg[u].cpu, reg[u].cur)'
  <2> SUFFICES ASSUME pc[u] \in HasCount, NEW i \in 0 .. reg[u].cur - 1
               PROVE  slab'[reg[u].cpu].pointers[i] \in Ptr
    BY <1>1 DEF Filled
  <2>1. i \in 0 .. Capacity - 1
    BY <1>2
  <2>2. slab[reg[u].cpu].pointers[i] \in Ptr
    BY <1>2 DEF ThreadBounds, Filled
  <2> QED
    BY <1>3, <2>1, <2>2 DEF KeepsFilled
<1>5. pc[u] \in Accessed /\ op[u] = "push" =>
          slab'[reg[u].cpu].pointers[reg[u].cur] \in Ptr
  <2> HAVE pc[u] \in Accessed /\ op[u] = "push"
  <2>1. reg[u].cur \in 0 .. Capacity - 1 /\ reg[u].cpu \in CPU
    BY <1>2 DEF ThreadBounds, has_room_or_object, Accessed, Checked, HasCpu
  <2>2. slab[reg[u].cpu].pointers[reg[u].cur] \in Ptr
    BY <1>2 DEF ThreadBounds
  <2> QED
    BY <2>1, <2>2 DEF KeepsFilled
<1> QED
  BY <1>1, <1>2, <1>4, <1>5 DEF ThreadBounds, has_room_or_object

(* A step of t that does not touch the slabs keeps the bounds if it keeps  *)
(* those of t.                                                             *)
LEMMA QuietBounds ==
    ASSUME Bounds, TypeOK', NEW t \in Thread, OnlyThread(t), UNCHANGED slab,
           ThreadBounds(t)'
    PROVE  Bounds'
<1>1. KeepsFilled
  BY DEF KeepsFilled
<1>2. \A u \in Thread : ThreadBounds(u)'
  BY <1>1, OthersBounds
<1>3. \A c \in CPU : Filled(c, slab[c].current)'
  BY DEF Bounds, Filled
<1> QED
  BY <1>2, <1>3 DEF Bounds

(* The steps that only change registers and program counters.              *)
LEMMA LocalBounds ==
    ASSUME Bounds, NEW t \in Thread, NEW c \in CPU,
           \/ schedule(t, c) \/ preempt(t, c) \/ set_rseq_cs(t)
           \/ load_cpu_start(t, c) \/ load_current(t) \/ check_cpu(t, c)
           \/ rseq_out_of_range(t)
    PROVE  Bounds'
<1> USE SlabsAssumption
<1>1. TypeOK /\ ThreadBounds(t)
  BY DEF Bounds
<1>2. CASE schedule(t, c)
  <2>1. TypeOK'
    BY <1>1, <1>2 DEF schedule, TypeOK
  <2>2. OnlyThread(t) /\ UNCHANGED slab
    BY <1>2 DEF schedule, OnlyThread
  <2>3. ThreadBounds(t)'
    BY <1>1, <1>2 DEF schedule, ThreadBounds, Filled
  <2> QED
    BY <2>1, <2>2, <2>3, QuietBounds
<1>3. CASE preempt(t, c)
  <2>4. resume_at(t) \in Label
    BY <1>1 DEF TypeOK, resume_at, Label, Section
  <2>5. reg' \in [Thread -> Registers]
    <3>1. reg \in [Thread -> Registers]
      BY <1>1 DEF TypeOK, Registers
    <3>2. reg[t].ptr \in Ptr \cup {NULL}
      BY <3>1 DEF Registers
    <3>3. Reloaded(t) \in Registers
      BY <3>2 DEF Reloaded, NoRegs, Registers
    <3> QED
      BY <1>3, <3>1, <3>3 DEF preempt
  <2>6. repeated' \in SUBSET Ptr
    BY <1>1, <1>3 DEF preempt, Repeats, TypeOK, ThreadBounds
  <2>1. TypeOK'
    BY <1>1, <1>3, <2>4, <2>5, <2>6 DEF preempt, TypeOK, SetPc, Registers
  <2>2. OnlyThread(t) /\ UNCHANGED slab
    BY <1>1, <1>3 DEF preempt, OnlyThread, SetPc, TypeOK
  <2>3. ThreadBounds(t)'
    <3>1. op'[t] = op[t] /\ slab' = slab /\ pc'[t] = resume_at(t)
          /\ reg'[t] = IF resume_at(t) = "start" THEN Reloaded(t) ELSE reg[t]
      BY <1>1, <1>3 DEF preempt, SetPc, TypeOK
    <3>2. CASE resume_at(t) = "start"
      <4>1. op[t] = "push" => pc[t] # "idle" /\ Reloaded(t).ptr = reg[t].ptr
        BY <3>2 DEF resume_at, Section, Reloaded, NoRegs
      <4> QED
        BY <1>1, <3>1, <3>2, <4>1 DEF ThreadBounds, HasCpu, HasCount, Checked,
           Accessed
    <3>3. CASE resume_at(t) # "start"
      <4>1. pc'[t] = pc[t] /\ reg'[t] = reg[t]
        BY <3>1, <3>3 DEF resume_at
      <4> QED
        BY <1>1, <3>1, <4>1 DEF ThreadBounds, Filled
    <3> QED
      BY <3>2, <3>3
  <2> QED
    BY <2>1, <2>2, <2>3, QuietBounds
<1>4. CASE set_rseq_cs(t)
  <2>1. TypeOK'
    BY <1>1, <1>4 DEF set_rseq_cs, TypeOK, SetPc, Label, Section
  <2> QED
    BY <1>1, <1>4, <2>1, QuietBounds DEF set_rseq_cs, OnlyThread, ThreadBounds,
       SetPc, TypeOK, HasCpu, HasCount, Checked, Accessed
<1>5. CASE load_cpu_start(t, c)
  <2>1. TypeOK'
    BY <1>1, <1>5 DEF load_cpu_start, TypeOK, SetPc, SetReg, Label, Section
  <2> QED
    BY <1>1, <1>5, <2>1, QuietBounds DEF load_cpu_start, OnlyThread, TypeOK,
       ThreadBounds, SetPc, SetReg, HasCpu, HasCount, Checked, Accessed
<1>6. CASE load_current(t)
  <2>1. reg[t].cpu \in CPU
    BY <1>1, <1>6 DEF load_current, ThreadBounds, HasCpu
  <2>2. TypeOK'
    BY <1>1, <1>6, <2>1 DEF load_current, TypeOK, SetPc, SetReg, Label, Section
  <2>3. Filled(reg[t].cpu, slab[reg[t].cpu].current)
    BY <2>1 DEF Bounds
  <2>4. OnlyThread(t) /\ UNCHANGED slab
    BY <1>1, <1>6 DEF load_current, OnlyThread, TypeOK, SetPc, SetReg
  <2>5. ThreadBounds(t)'
    BY <1>1, <1>6, <2>1, <2>3 DEF load_current, TypeOK, Filled,
       ThreadBounds, SetPc, SetReg, HasCpu, HasCount, Checked, Accessed
  <2> QED
    BY <2>2, <2>4, <2>5, QuietBounds
<1>7. CASE check_cpu(t, c)
  <2>1. TypeOK'
    BY <1>1, <1>7 DEF check_cpu, TypeOK, SetPc, Label, Section
  <2>2. OnlyThread(t) /\ UNCHANGED slab
    BY <1>1, <1>7 DEF check_cpu, OnlyThread, TypeOK, SetPc
  <2>3. ThreadBounds(t)'
    BY <1>1, <1>7 DEF check_cpu, TypeOK, Filled,
       ThreadBounds, SetPc, HasCpu, HasCount, Checked, Accessed
  <2> QED
    BY <2>1, <2>2, <2>3, QuietBounds
<1>8. CASE rseq_out_of_range(t)
  <2>1. TypeOK'
    BY <1>1, <1>8 DEF rseq_out_of_range, TypeOK, SetPc, Label, Section
  <2> QED
    BY <1>1, <1>8, <2>1, QuietBounds DEF rseq_out_of_range, OnlyThread, TypeOK,
       ThreadBounds, SetPc, HasCpu, HasCount, Checked, Accessed
<1> QED
  BY <1>2, <1>3, <1>4, <1>5, <1>6, <1>7, <1>8

(* The steps that begin a call, end one, or begin the fallback.            *)
LEMMA CallBounds ==
    ASSUME Bounds, NEW t \in Thread, NEW c \in CPU,
           \/ call_pop(t) \/ (\E p \in hand[t] : call_push(t, p))
           \/ clear_rseq_cs(t) \/ rseq_refuse(t)
           \/ fallback_get_slab(t, c) \/ fallback_load(t)
    PROVE  Bounds'
<1> USE SlabsAssumption
<1>1. TypeOK /\ ThreadBounds(t)
  BY DEF Bounds
<1>2. CASE call_pop(t)
  <2>1. TypeOK'
    BY <1>1, <1>2 DEF call_pop, TypeOK, SetPc, first_instruction, NoRegs,
       Label, Section
  <2> QED
    BY <1>1, <1>2, <2>1, QuietBounds DEF call_pop, OnlyThread, TypeOK, SetPc,
       first_instruction, ThreadBounds, HasCpu, HasCount, Checked, Accessed
<1>3. ASSUME NEW p \in hand[t], call_push(t, p) PROVE Bounds'
  <2>1. p \in Ptr
    BY <1>1 DEF TypeOK
  <2>3. reg' \in [Thread -> Registers]
    <3>1. /\ reg \in [Thread -> Registers]
          /\ [NoRegs EXCEPT !.ptr = p] \in Registers
      BY <1>1, <2>1 DEF TypeOK, NoRegs, Registers
    <3> QED
      BY <1>3, <3>1 DEF call_push
  <2>2. TypeOK'
    BY <1>1, <1>3, <2>3 DEF call_push, TypeOK, SetPc, first_instruction,
       Registers, Label, Section
  <2> QED
    BY <1>1, <1>3, <2>1, <2>2, QuietBounds DEF call_push, OnlyThread, TypeOK,
       SetPc, first_instruction, NoRegs, ThreadBounds, HasCpu, HasCount,
       Checked, Accessed
<1>4. ASSUME NEW ok \in BOOLEAN, returns(t, ok),
             UNCHANGED <<slab, running, repeated>>,
             rseq_cs' \in [Thread -> BOOLEAN], ok => reg[t].ptr \in Ptr
      PROVE  Bounds'
  <2>1. hand' \in [Thread -> SUBSET Ptr]
    BY <1>1, <1>4 DEF returns, TypeOK
  <2>2. TypeOK'
    BY <1>1, <1>4, <2>1 DEF returns, TypeOK, SetPc, NoRegs, Label
  <2> QED
    BY <1>1, <1>4, <2>2, QuietBounds DEF returns, OnlyThread, TypeOK, SetPc,
       ThreadBounds, HasCpu, HasCount, Checked, Accessed
<1>5. CASE clear_rseq_cs(t)
  <2>1. reg[t].ptr \in Ptr
    BY <1>1, <1>5 DEF clear_rseq_cs, ThreadBounds
  <2>2. rseq_cs' \in [Thread -> BOOLEAN]
    BY <1>1, <1>5 DEF clear_rseq_cs, TypeOK
  <2> QED
    BY <1>4, <1>5, <2>1, <2>2 DEF clear_rseq_cs
<1>6. CASE rseq_refuse(t)
  <2>1. rseq_cs' \in [Thread -> BOOLEAN]
    BY <1>1, <1>6 DEF rseq_refuse, TypeOK
  <2> QED
    BY <1>4, <1>6, <2>1 DEF rseq_refuse
<1>7. CASE fallback_get_slab(t, c)
  <2>1. CASE InRange(c)
    <3>1. /\ reg' = [reg EXCEPT ![t]["cpu"] = c]
          /\ pc' = [pc EXCEPT ![t] = "fb_load"]
          /\ UNCHANGED <<slab, running, op, rseq_cs, hand, repeated>>
      BY <1>7, <2>1 DEF fallback_get_slab, SetReg, SetPc
    <3>2. TypeOK'
      BY <1>1, <3>1 DEF TypeOK, Label
    <3>3. OnlyThread(t)
      BY <1>1, <3>1 DEF OnlyThread, TypeOK
    <3>4. /\ reg'[t].cpu = c /\ reg'[t].ptr = reg[t].ptr
          /\ pc'[t] = "fb_load" /\ op'[t] = op[t] /\ pc[t] = "get_cpu"
      BY <1>1, <1>7, <3>1 DEF TypeOK, fallback_get_slab
    <3>5. ThreadBounds(t)'
      BY <1>1, <3>4 DEF ThreadBounds, HasCount, Checked, Accessed
    <3> QED
      BY <3>1, <3>2, <3>3, <3>5, QuietBounds
  <2>2. CASE ~InRange(c)
    <3>1. returns(t, FALSE) /\ UNCHANGED <<slab, running, rseq_cs, repeated>>
      BY <1>7, <2>2 DEF fallback_get_slab
    <3> QED
      BY <1>1, <1>4, <3>1 DEF TypeOK
  <2> QED
    BY <2>1, <2>2
<1>8. CASE fallback_load(t)
  <2> DEFINE cur == slab[reg[t].cpu].current
  <2>1. /\ pc[t] = "fb_load" /\ reg[t].cpu \in CPU
        /\ UNCHANGED <<slab, running, rseq_cs, repeated>>
    BY <1>1, <1>8 DEF fallback_load, ThreadBounds, HasCpu
  <2>2. CASE has_room_or_object(op[t], cur)
    <3>1. /\ reg' = [reg EXCEPT ![t]["cur"] = cur]
          /\ pc' = [pc EXCEPT ![t] = "fb_pointer"]
          /\ UNCHANGED <<op, hand>>
      BY <1>8, <2>2 DEF fallback_load, SetReg, SetPc
    <3>2. TypeOK'
      BY <1>1, <2>1, <3>1 DEF TypeOK, Label
    <3>3. Filled(reg[t].cpu, cur)
      BY <2>1 DEF Bounds
    <3>4. OnlyThread(t)
      BY <1>1, <3>1 DEF OnlyThread, TypeOK
    <3>5. /\ reg'[t].cpu = reg[t].cpu /\ reg'[t].cur = cur
          /\ reg'[t].ptr = reg[t].ptr
          /\ pc'[t] = "fb_pointer" /\ op'[t] = op[t]
      BY <1>1, <3>1 DEF TypeOK
    <3>6. ThreadBounds(t)'
      BY <1>1, <2>1, <2>2, <3>3, <3>5 DEF ThreadBounds, Filled, HasCpu,
         HasCount, Checked, Accessed, has_room_or_object
    <3> QED
      BY <2>1, <3>2, <3>4, <3>6, QuietBounds
  <2>3. CASE ~has_room_or_object(op[t], cur)
    <3>1. returns(t, FALSE)
      BY <1>8, <2>3 DEF fallback_load
    <3> QED
      BY <1>1, <1>4, <2>1, <3>1 DEF TypeOK
  <2> QED
    BY <2>2, <2>3
<1> QED
  BY <1>2, <1>3, <1>5, <1>6, <1>7, <1>8

(* Slot i of CPU c, and nothing else of the slabs, becomes p.              *)
PointerStored(c, i, p) ==
    /\ slab' \in [CPU -> [current : 0 .. Capacity,
                   pointers : [0 .. Capacity - 1 -> Ptr \cup {NULL}]]]
    /\ \A d \in CPU : slab'[d].current = slab[d].current
    /\ slab'[c].pointers[i] = p
    /\ \A d \in CPU, j \in 0 .. Capacity - 1 :
          d # c \/ j # i => slab'[d].pointers[j] = slab[d].pointers[j]

LEMMA StorePointer ==
    ASSUME TypeOK, NEW c \in CPU, NEW i \in 0 .. Capacity - 1, NEW p \in Ptr,
           slab' = [slab EXCEPT ![c].pointers[i] = p]
    PROVE  PointerStored(c, i, p)
BY DEF TypeOK, PointerStored

(* What storing a count does to the slabs.                                 *)
LEMMA StoreCount ==
    ASSUME TypeOK, NEW c \in CPU, NEW n \in 0 .. Capacity,
           slab' = [slab EXCEPT ![c].current = n]
    PROVE  /\ slab' \in [CPU -> [current : 0 .. Capacity,
                          pointers : [0 .. Capacity - 1 -> Ptr \cup {NULL}]]]
           /\ \A d \in CPU : slab'[d].pointers = slab[d].pointers
           /\ slab'[c].current = n
           /\ \A d \in CPU \ {c} : slab'[d].current = slab[d].current
BY DEF TypeOK

(* The access to the slot, on either path.                                 *)
LEMMA AccessBounds ==
    ASSUME Bounds, NEW t \in Thread,
           rseq_access_pointer(t) \/ fallback_access_pointer(t)
    PROVE  Bounds'
<1> DEFINE r == reg[t]
<1>1. TypeOK /\ ThreadBounds(t)
  BY DEF Bounds
<1>2. PICK l \in Accessed : /\ pc' = [pc EXCEPT ![t] = l]
                            /\ access_pointer(t)
                            /\ UNCHANGED <<running, op, rseq_cs, hand, repeated>>
                            /\ pc[t] \in Checked
  BY DEF rseq_access_pointer, fallback_access_pointer, SetPc, Accessed, Checked
<1>3. /\ r.cpu \in CPU /\ r.cur \in 0 .. Capacity
      /\ has_room_or_object(op[t], r.cur)
      /\ Filled(r.cpu, r.cur)
      /\ pc'[t] = l /\ op'[t] = op[t]
      /\ op[t] \in {"push", "pop"}
  BY <1>1, <1>2 DEF ThreadBounds, Checked, HasCpu, HasCount, TypeOK
<1>4. pc' \in [Thread -> Label]
  BY <1>1, <1>2 DEF TypeOK, Accessed, Label, Section
<1>5. CASE op[t] = "push"
  <2>1. r.ptr \in Ptr /\ r.cur \in 0 .. Capacity - 1
    BY <1>1, <1>2, <1>3, <1>5, SlabsAssumption DEF ThreadBounds,
       has_room_or_object, Checked
  <2>2. slab' = [slab EXCEPT ![r.cpu].pointers[r.cur] = r.ptr] /\ reg' = reg
    BY <1>2, <1>5 DEF access_pointer, slot
  <2>3. PointerStored(r.cpu, r.cur, r.ptr)
    BY <1>1, <1>3, <2>1, <2>2, StorePointer
  <2>4. TypeOK'
    BY <1>1, <1>2, <1>4, <2>2, <2>3 DEF TypeOK, PointerStored
  <2>5. KeepsFilled
    BY <2>1, <2>3 DEF KeepsFilled, PointerStored
  <2>6. OnlyThread(t)
    BY <1>1, <1>2, <2>2 DEF OnlyThread, TypeOK
  <2>7. \A c \in CPU : Filled(c, slab[c].current)'
    <3> SUFFICES ASSUME NEW c \in CPU, NEW i \in 0 .. slab[c].current - 1
                 PROVE  slab'[c].pointers[i] \in Ptr
      BY <2>3 DEF Filled, PointerStored
    <3>1. i \in 0 .. Capacity - 1
      BY <1>1, SlabsAssumption DEF TypeOK
    <3> QED
      BY <2>5, <3>1 DEF Bounds, Filled, KeepsFilled
  <2>8. Filled(r.cpu, r.cur)'
    <3> SUFFICES ASSUME NEW i \in 0 .. r.cur - 1
                 PROVE  slab'[r.cpu].pointers[i] \in Ptr
      BY <2>2 DEF Filled
    <3>1. i \in 0 .. Capacity - 1
      BY <1>3, SlabsAssumption
    <3> QED
      BY <1>3, <2>5, <3>1 DEF Filled, KeepsFilled
  <2>9. ThreadBounds(t)'
    BY <1>3, <2>1, <2>2, <2>3, <2>8 DEF PointerStored, ThreadBounds, has_room_or_object,
       Accessed
  <2> QED
    BY <2>4, <2>5, <2>6, <2>7, <2>9, OthersBounds DEF Bounds
<1>6. CASE op[t] = "pop"
  <2>1. r.cur - 1 \in 0 .. Capacity - 1 /\ r.cur - 1 \in 0 .. r.cur - 1
    BY <1>3, <1>6, SlabsAssumption DEF has_room_or_object
  <2>2. slab[r.cpu].pointers[r.cur - 1] \in Ptr
    BY <1>3, <2>1 DEF Filled
  <2>3. /\ reg' = [reg EXCEPT ![t]["ptr"] = slab[r.cpu].pointers[r.cur - 1]]
        /\ slab' = slab
    BY <1>2, <1>6 DEF access_pointer, slot, SetReg
  <2>4. TypeOK'
    BY <1>1, <1>2, <1>4, <2>2, <2>3 DEF TypeOK
  <2>5. OnlyThread(t)
    BY <1>1, <1>2, <2>3 DEF OnlyThread, TypeOK
  <2>6. /\ reg'[t].ptr \in Ptr /\ reg'[t].cpu = r.cpu
        /\ reg'[t].cur = r.cur
    BY <1>1, <2>2, <2>3 DEF TypeOK
  <2>7. ThreadBounds(t)'
    BY <1>3, <1>6, <2>3, <2>6 DEF ThreadBounds, Filled, has_room_or_object,
       Accessed
  <2> QED
    BY <2>3, <2>4, <2>5, <2>7, QuietBounds
<1> QED
  BY <1>3, <1>5, <1>6

(* The store of the new count, on either path.                             *)
LEMMA StoreBounds ==
    ASSUME Bounds, NEW t \in Thread, rseq_commit(t) \/ fallback_store(t)
    PROVE  Bounds'
<1> USE SlabsAssumption
<1> DEFINE r == reg[t]
           n == IF op[t] = "push" THEN r.cur + 1 ELSE r.cur - 1
<1>1. TypeOK /\ ThreadBounds(t) /\ pc[t] \in Accessed
  BY DEF Bounds, rseq_commit, fallback_store, Accessed
<1>2. /\ slab' = [slab EXCEPT ![r.cpu].current = n]
      /\ UNCHANGED <<running, rseq_cs, repeated>>
  BY DEF rseq_commit, fallback_store, store_current
<1>3. /\ r.cpu \in CPU /\ r.cur \in 0 .. Capacity
      /\ has_room_or_object(op[t], r.cur)
      /\ Filled(r.cpu, r.cur)
      /\ op[t] = "push" => slab[r.cpu].pointers[r.cur] \in Ptr
      /\ r.ptr \in Ptr
      /\ op[t] \in {"push", "pop"}
  BY <1>1 DEF ThreadBounds, Checked, HasCpu, HasCount, TypeOK, Accessed
<1>4. n \in 0 .. Capacity
  BY <1>3 DEF has_room_or_object
<1>5. /\ slab' \in [CPU -> [current : 0 .. Capacity,
                     pointers : [0 .. Capacity - 1 -> Ptr \cup {NULL}]]]
      /\ \A d \in CPU : slab'[d].pointers = slab[d].pointers
      /\ slab'[r.cpu].current = n
      /\ \A d \in CPU \ {r.cpu} : slab'[d].current = slab[d].current
  <2> HIDE DEF n
  <2> QED
    BY <1>1, <1>2, <1>3, <1>4, StoreCount
<1>6. KeepsFilled
  BY <1>5 DEF KeepsFilled
<1>7. \A c \in CPU : Filled(c, slab[c].current)'
  <2>1. Filled(r.cpu, n)
    BY <1>3 DEF Filled, has_room_or_object
  <2> HIDE DEF n
  <2> QED
    BY <1>3, <1>5, <2>1 DEF Bounds, Filled
<1>8. /\ pc' \in [Thread -> Label] /\ op' \in [Thread -> {"push", "pop"}]
      /\ reg' \in [Thread -> Registers] /\ hand' \in [Thread -> SUBSET Ptr]
      /\ OnlyThread(t)
  <2>1. CASE rseq_commit(t)
    BY <1>1, <2>1 DEF rseq_commit, SetPc, TypeOK, Registers, OnlyThread, Label,
       Section
  <2>2. CASE fallback_store(t)
    <3>1. returns(t, TRUE)
      BY <2>2 DEF fallback_store
    <3>2. NoRegs \in Registers
      BY DEF NoRegs, Registers
    <3>3. hand' \in [Thread -> SUBSET Ptr]
      BY <1>1, <1>3, <3>1 DEF returns, TypeOK
    <3> QED
      BY <1>1, <3>1, <3>2, <3>3 DEF returns, SetPc, TypeOK, Registers,
         OnlyThread, Label
  <2> QED
    BY <2>1, <2>2
<1>9. TypeOK'
  BY <1>1, <1>2, <1>5, <1>8 DEF TypeOK, Registers
<1>10. ThreadBounds(t)'
  <2>1. CASE rseq_commit(t)
    <3>1. pc'[t] = "clear" /\ reg' = reg
      BY <1>1, <2>1 DEF rseq_commit, SetPc, TypeOK
    <3> QED
      BY <1>3, <3>1 DEF ThreadBounds, HasCpu, HasCount, Checked, Accessed
  <2>2. CASE fallback_store(t)
    <3>1. pc'[t] = "idle"
      BY <1>1, <2>2 DEF fallback_store, returns, SetPc, TypeOK
    <3> QED
      BY <3>1 DEF ThreadBounds, HasCpu, HasCount, Checked, Accessed
  <2> QED
    BY <2>1, <2>2
<1> QED
  BY <1>6, <1>7, <1>8, <1>9, <1>10, OthersBounds DEF Bounds

(* Every step keeps the bounds.                                            *)
LEMMA NextBounds == Bounds /\ [Next]_vars => Bounds'
<1> SUFFICES ASSUME Bounds, [Next]_vars PROVE Bounds'
  OBVIOUS
<1>1. CASE UNCHANGED vars
  BY <1>1 DEF vars, Bounds, TypeOK, Filled, ThreadBounds
<1>2. ASSUME NEW t \in Thread, NEW c \in CPU, instruction(t, c)
      PROVE  Bounds'
  BY <1>2, LocalBounds, CallBounds, AccessBounds, StoreBounds DEF instruction
<1>3. ASSUME NEW t \in Thread, NEW c \in CPU,
             \/ schedule(t, c) \/ preempt(t, c) \/ call_pop(t)
             \/ \E p \in hand[t] : call_push(t, p)
      PROVE  Bounds'
  BY <1>3, LocalBounds, CallBounds
<1> QED
  BY <1>1, <1>2, <1>3 DEF Next

(* What a thread has loaded from a slab is a count whose slots hold        *)
(* pointers, whoever changes the slab before it is used.                   *)
THEOREM BoundsHold == Spec => []Bounds
BY InitBounds, NextBounds, PTL DEF Spec

(* Counts stay within the class's slice of the array and callers are given *)
(* nothing but pointers, also when threads race on the fallback and when   *)
(* a section is preempted after its commit.                                *)
THEOREM TypeCorrect == Spec => []TypeOK
<1>1. Bounds => TypeOK
  BY DEF Bounds
<1> QED
  BY <1>1, BoundsHold, PTL

-----------------------------------------------------------------------------
(* A function on 1 .. n is a sequence of length n.                         *)
LEMMA FunctionIsSeq ==
    ASSUME NEW S, NEW n \in Nat, NEW f \in [1 .. n -> S]
    PROVE  f \in Seq(S) /\ Len(f) = n
<1>1. f \in Seq(S)
  BY SeqDef
<1>2. Len(f) \in Nat /\ 1 .. Len(f) = 1 .. n
  BY <1>1, LenProperties
<1> QED
  BY <1>1, <1>2

(* One element more is Append.                                             *)
LEMMA OneMore ==
    ASSUME NEW S, NEW n \in Nat, NEW f \in [1 .. n -> S], NEW x \in S,
           NEW g \in [1 .. n + 1 -> S],
           \A i \in 1 .. n : g[i] = f[i], g[n + 1] = x
    PROVE  g = Append(f, x)
<1>1. f \in Seq(S) /\ Len(f) = n
  BY FunctionIsSeq
<1>2. g \in Seq(S) /\ Len(g) = n + 1
  BY FunctionIsSeq
<1>3. /\ Append(f, x) \in Seq(S) /\ Len(Append(f, x)) = n + 1
      /\ \A i \in 1 .. n : Append(f, x)[i] = f[i]
      /\ Append(f, x)[n + 1] = x
  BY <1>1, AppendProperties
<1>4. \A i \in 1 .. n + 1 : g[i] = Append(f, x)[i]
  BY <1>3
<1> QED
  BY <1>2, <1>3, <1>4, SeqEqual

(* One element less is a prefix.                                           *)
LEMMA OneLess ==
    ASSUME NEW S, NEW n \in Nat \ {0}, NEW f \in [1 .. n -> S],
           NEW g \in [1 .. n - 1 -> S], \A i \in 1 .. n - 1 : g[i] = f[i]
    PROVE  g = SubSeq(f, 1, n - 1)
<1>1. g \in Seq(S) /\ Len(g) = n - 1
  BY FunctionIsSeq
<1>2. /\ SubSeq(f, 1, n - 1) \in Seq(S)
      /\ Len(SubSeq(f, 1, n - 1)) = n - 1
      /\ \A i \in 1 .. n - 1 : SubSeq(f, 1, n - 1)[i] = f[i]
  <2>1. \A i \in 1 .. n - 1 : f[i] \in S
    OBVIOUS
  <2> QED
    BY <2>1, SubSeqProperties
<1> QED
  BY <1>1, <1>2, SeqEqual

-----------------------------------------------------------------------------
(* The critical sections.  From here on rseq is available and every CPU    *)
(* has a slab, so that no thread takes the fallback.                       *)
RseqEverywhere == RseqAvailable /\ \A c \in CPU : InRange(c)

Inside == {"load", "cpu_check", "pointer", "commit", "clear"}

(* A thread inside its section is on the CPU whose slab it works on, so    *)
(* nobody else changes that slab and what the thread has read stays true;  *)
(* a preemption throws it out of the section.                              *)
InSection(t) ==
    /\ pc[t] \in Section \cup {"idle", "refuse"}
    /\ pc[t] \in Inside \cup {"cpu_start"} => rseq_cs[t]
    /\ pc[t] \in Inside => reg[t].cpu \in CPU /\ On(t, reg[t].cpu)
    /\ pc[t] \in {"cpu_check", "pointer", "commit"} =>
          reg[t].cur = slab[reg[t].cpu].current
    /\ pc[t] = "commit" =>
          slab[reg[t].cpu].pointers[slot(op[t], reg[t].cur)] = reg[t].ptr
    /\ pc[t] # "idle" /\ op[t] = "push" => reg[t].ptr \in hand[t]

Sections ==
    /\ Bounds
    /\ \A t \in Thread, c, d \in CPU : On(t, c) /\ On(t, d) => c = d
    /\ \A t \in Thread : InSection(t)

(* A step of t: it leaves the other threads and the CPUs they run on       *)
(* alone, and changes no slab but that of its own CPU.                     *)
StepOf(t) ==
    /\ OnlyThread(t)
    /\ \A u \in Thread \ {t} : hand'[u] = hand[u] /\ rseq_cs'[u] = rseq_cs[u]
    /\ \A u \in Thread \ {t}, c \in CPU : On(u, c)' <=> On(u, c)
    /\ \A c \in CPU : ~On(t, c) => slab'[c] = slab[c]

(* The CPU a thread runs on is unique and runs no other thread.            *)
LEMMA Exclusive ==
    ASSUME Sections, NEW t \in Thread, NEW u \in Thread \ {t}, NEW c \in CPU,
           On(u, c)
    PROVE  ~On(t, c)
BY DEF On

(* A step of t does not disturb a section of another thread.               *)
LEMMA OthersInSection ==
    ASSUME Sections, NEW t \in Thread, StepOf(t)
    PROVE  \A u \in Thread \ {t} : InSection(u)'
<1> SUFFICES ASSUME NEW u \in Thread \ {t} PROVE InSection(u)'
  OBVIOUS
<1>1. /\ pc'[u] = pc[u] /\ op'[u] = op[u] /\ reg'[u] = reg[u]
      /\ hand'[u] = hand[u] /\ rseq_cs'[u] = rseq_cs[u]
  BY DEF StepOf, OnlyThread
<1>2. InSection(u)
  BY DEF Sections
<1>3. CASE pc[u] \in Inside
  <2>1. reg[u].cpu \in CPU /\ On(u, reg[u].cpu)
    BY <1>2, <1>3 DEF InSection
  <2>2. On(u, reg[u].cpu)' /\ slab'[reg[u].cpu] = slab[reg[u].cpu]
    BY <1>1, <2>1, Exclusive DEF StepOf, On
  <2> QED
    BY <1>1, <1>2, <1>3, <2>1, <2>2 DEF InSection, On, slot
<1>4. CASE pc[u] \notin Inside
  BY <1>1, <1>2, <1>4 DEF InSection, Inside, On
<1> QED
  BY <1>3, <1>4

(* What the callers see of the slabs and of the hands.                     *)
SameStacks == \A c \in CPU : StackOf(c)' = StackOf(c)
SameHands == \A t \in Thread : EffectiveHand(t)' = EffectiveHand(t)

(* Nothing to see.                                                         *)
Quiet == SameStacks /\ SameHands /\ UNCHANGED repeated

(* t starts the call on p again that has taken effect: from outside, p     *)
(* is back in its hand, or is gone from it.                                *)
RepeatsOn(t, p) ==
    /\ SameStacks
    /\ \A u \in Thread \ {t} : EffectiveHand(u)' = EffectiveHand(u)
    /\ \/ EffectiveHand(t)' = EffectiveHand(t) \cup {p}
       \/ EffectiveHand(t)' = EffectiveHand(t) \ {p}
    /\ repeated' = repeated \cup {p}

(* A thread that does not step keeps what it holds.                        *)
LEMMA OthersHands ==
    ASSUME NEW t \in Thread, StepOf(t)
    PROVE  \A u \in Thread \ {t} : EffectiveHand(u)' = EffectiveHand(u)
BY DEF StepOf, OnlyThread, EffectiveHand, Committed

(* The kernel: schedule and preempt.                                       *)
LEMMA KernelStep ==
    ASSUME RseqEverywhere, Sections, NEW t \in Thread, NEW c \in CPU,
           schedule(t, c) \/ preempt(t, c)
    PROVE  Sections' /\ (Quiet \/ \E p \in Ptr : RepeatsOn(t, p))
<1>1. TypeOK /\ InSection(t) /\ ThreadBounds(t) /\ Bounds'
  BY LocalBounds DEF Sections, Bounds
<1>2. slab' = slab /\ hand' = hand /\ op' = op
  BY DEF schedule, preempt
<1>3. SameStacks
  BY <1>2 DEF SameStacks, StackOf
<1>4. CASE schedule(t, c)
  <2>1. StepOf(t)
    BY <1>1, <1>4, SlabsAssumption DEF schedule, StepOf, OnlyThread, On, TypeOK
  <2>2. \A u \in Thread, d, e \in CPU : On(u, d)' /\ On(u, e)' => d = e
    BY <1>1, <1>4, SlabsAssumption DEF schedule, On, TypeOK, Sections
  <2>3. InSection(t)'
    <3>1. pc[t] \notin Inside
      BY <1>1, <1>4 DEF schedule, InSection
    <3> QED
      BY <1>1, <1>4, <3>1 DEF schedule, InSection, Inside
  <2>4. Quiet
    BY <1>3, <1>4 DEF schedule, Quiet, SameHands, EffectiveHand, Committed
  <2> QED
    BY <1>1, <2>1, <2>2, <2>3, <2>4, OthersInSection DEF Sections
<1>5. CASE preempt(t, c)
  <2>1. StepOf(t)
    BY <1>1, <1>5, SlabsAssumption DEF preempt, StepOf, OnlyThread, On, TypeOK,
       SetPc
  <2>2. \A u \in Thread, d, e \in CPU : On(u, d)' /\ On(u, e)' => d = e
    BY <1>1, <1>5, SlabsAssumption DEF preempt, On, TypeOK, Sections
  <2>4. /\ pc'[t] = resume_at(t)
        /\ reg'[t] = IF resume_at(t) = "start" THEN Reloaded(t) ELSE reg[t]
    BY <1>1, <1>5 DEF preempt, SetPc, TypeOK
  <2>5. resume_at(t) \in {"start", "idle", "refuse"}
    BY <1>1 DEF InSection, resume_at, Section, Inside
  <2>6. op[t] = "push" /\ pc'[t] # "idle" =>
            pc[t] # "idle" /\ reg'[t].ptr = reg[t].ptr
    BY <2>4 DEF resume_at, Section, Reloaded, NoRegs
  <2>7. InSection(t)'
    BY <1>1, <1>2, <2>4, <2>5, <2>6 DEF InSection, Section, Inside
  <2>8. Sections'
    BY <1>1, <2>1, <2>2, <2>7, OthersInSection DEF Sections
  <2>9. CASE pc[t] = "clear"
    <3>1. resume_at(t) = "start" /\ repeated' = repeated \cup {reg[t].ptr}
      BY <1>1, <1>5, <2>9 DEF preempt, Repeats, resume_at, InSection, Inside,
         Section
    <3>2. EffectiveHand(t)' = hand[t]
      BY <1>2, <2>4, <3>1 DEF EffectiveHand, Committed
    <3>3. EffectiveHand(t) = IF op[t] = "push" THEN hand[t] \ {reg[t].ptr}
                             ELSE hand[t] \cup {reg[t].ptr}
      BY <2>9 DEF EffectiveHand, Committed
    <3>4. op[t] = "push" => reg[t].ptr \in hand[t]
      BY <1>1, <2>9 DEF InSection
    <3>5. \/ EffectiveHand(t)' = EffectiveHand(t) \cup {reg[t].ptr}
          \/ EffectiveHand(t)' = EffectiveHand(t) \ {reg[t].ptr}
      BY <3>2, <3>3, <3>4
    <3>6. reg[t].ptr \in Ptr
      BY <1>1, <2>9 DEF ThreadBounds
    <3>7. RepeatsOn(t, reg[t].ptr)
      BY <1>3, <2>1, <3>1, <3>5, OthersHands DEF RepeatsOn
    <3> QED
      BY <2>8, <3>6, <3>7
  <2>10. CASE pc[t] # "clear"
    <3>1. EffectiveHand(t)' = EffectiveHand(t)
      BY <1>2, <2>4, <2>5, <2>10 DEF EffectiveHand, Committed
    <3>2. UNCHANGED repeated
      BY <1>5, <2>10 DEF preempt, Repeats
    <3> QED
      BY <1>3, <2>1, <2>8, <3>1, <3>2, OthersHands DEF Quiet, SameHands
  <2> QED
    BY <2>9, <2>10
<1> QED
  BY <1>4, <1>5

(* A step of a running thread t that leaves the slabs alone.               *)
LEMMA RegisterStep ==
    ASSUME Sections, Bounds', NEW t \in Thread, OnlyThread(t),
           UNCHANGED <<slab, running, repeated>>,
           \A u \in Thread \ {t} : hand'[u] = hand[u] /\ rseq_cs'[u] = rseq_cs[u],
           InSection(t)', EffectiveHand(t)' = EffectiveHand(t)
    PROVE  Sections' /\ Quiet
<1>1. StepOf(t)
  BY DEF StepOf, On
<1>2. \A u \in Thread, d, e \in CPU : On(u, d)' /\ On(u, e)' => d = e
  BY DEF On, Sections
<1>3. SameStacks
  BY DEF SameStacks, StackOf
<1> QED
  BY <1>1, <1>2, <1>3, OthersInSection, OthersHands
     DEF Sections, Quiet, SameHands

(* The calls.                                                              *)
LEMMA CallStep ==
    ASSUME RseqEverywhere, Sections, NEW t \in Thread, NEW c \in CPU,
           call_pop(t) \/ \E p \in hand[t] : call_push(t, p)
    PROVE  Sections' /\ Quiet
<1>1. TypeOK /\ InSection(t) /\ Bounds'
  BY CallBounds DEF Sections, Bounds
<1>2. /\ pc[t] = "idle" /\ pc'[t] = "start"
      /\ UNCHANGED <<slab, running, rseq_cs, hand, repeated>> /\ OnlyThread(t)
      /\ op'[t] = "push" => reg'[t].ptr \in hand[t]
  BY <1>1 DEF RseqEverywhere, call_pop, call_push, first_instruction, SetPc,
     TypeOK, OnlyThread, NoRegs
<1>3. InSection(t)'
  BY <1>2 DEF InSection, Section, Inside
<1>4. EffectiveHand(t)' = EffectiveHand(t)
  BY <1>2 DEF EffectiveHand, Committed
<1> QED
  BY <1>1, <1>2, <1>3, <1>4, RegisterStep

(* The instructions of the section that do not touch the slabs.            *)
LEMMA LoadStep ==
    ASSUME RseqEverywhere, Sections, NEW t \in Thread, NEW c \in CPU, On(t, c),
           \/ set_rseq_cs(t) \/ load_cpu_start(t, c) \/ load_current(t)
           \/ check_cpu(t, c)
    PROVE  Sections' /\ Quiet
<1>1. TypeOK /\ InSection(t) /\ Bounds'
  BY LocalBounds DEF Sections, Bounds
<1>2. CASE set_rseq_cs(t)
  <2>1. /\ pc[t] = "start" /\ pc'[t] = "cpu_start" /\ rseq_cs'[t] = TRUE
        /\ UNCHANGED <<slab, running, op, reg, hand, repeated>>
        /\ \A u \in Thread \ {t} : pc'[u] = pc[u] /\ rseq_cs'[u] = rseq_cs[u]
    BY <1>1, <1>2 DEF set_rseq_cs, SetPc, TypeOK
  <2>2. InSection(t)'
    BY <1>1, <2>1 DEF InSection, Section, Inside
  <2>3. EffectiveHand(t)' = EffectiveHand(t)
    BY <2>1 DEF EffectiveHand, Committed
  <2> QED
    BY <1>1, <2>1, <2>2, <2>3, RegisterStep DEF OnlyThread
<1>3. CASE load_cpu_start(t, c)
  <2>1. /\ pc[t] = "cpu_start" /\ pc'[t] = "load" /\ reg'[t].cpu = c
        /\ reg'[t].ptr = reg[t].ptr
        /\ UNCHANGED <<slab, running, op, rseq_cs, hand, repeated>>
        /\ \A u \in Thread \ {t} : pc'[u] = pc[u] /\ reg'[u] = reg[u]
    BY <1>1, <1>3 DEF RseqEverywhere, load_cpu_start, SetPc, SetReg, TypeOK
  <2>2. InSection(t)'
    BY <1>1, <2>1 DEF InSection, Section, Inside, On
  <2>3. EffectiveHand(t)' = EffectiveHand(t)
    BY <2>1 DEF EffectiveHand, Committed
  <2> QED
    BY <1>1, <2>1, <2>2, <2>3, RegisterStep DEF OnlyThread
<1>4. CASE load_current(t)
  <2>1. /\ pc[t] = "load" /\ pc'[t] = "cpu_check"
        /\ reg'[t].cpu = reg[t].cpu /\ reg'[t].ptr = reg[t].ptr
        /\ reg'[t].cur = slab[reg[t].cpu].current
        /\ UNCHANGED <<slab, running, op, rseq_cs, hand, repeated>>
        /\ \A u \in Thread \ {t} : pc'[u] = pc[u] /\ reg'[u] = reg[u]
    BY <1>1, <1>4 DEF load_current, SetPc, SetReg, TypeOK
  <2>2. InSection(t)'
    BY <1>1, <2>1 DEF InSection, Section, Inside, On
  <2>3. EffectiveHand(t)' = EffectiveHand(t)
    BY <2>1 DEF EffectiveHand, Committed
  <2> QED
    BY <1>1, <2>1, <2>2, <2>3, RegisterStep DEF OnlyThread
<1>5. CASE check_cpu(t, c)
  <2>1. /\ pc[t] = "cpu_check" /\ pc'[t] \in {"start", "pointer", "refuse"}
        /\ UNCHANGED <<slab, running, op, reg, rseq_cs, hand, repeated>>
        /\ \A u \in Thread \ {t} : pc'[u] = pc[u]
    BY <1>1, <1>5 DEF check_cpu, SetPc, TypeOK
  <2>2. InSection(t)'
    BY <1>1, <2>1 DEF InSection, Section, Inside, On
  <2>3. EffectiveHand(t)' = EffectiveHand(t)
    BY <2>1 DEF EffectiveHand, Committed
  <2> QED
    BY <1>1, <2>1, <2>2, <2>3, RegisterStep DEF OnlyThread
<1> QED
  BY <1>2, <1>3, <1>4, <1>5

(* The end of a call: after the commit, or refused.                        *)
LEMMA ReturnStep ==
    ASSUME RseqEverywhere, Sections, NEW t \in Thread, NEW c \in CPU,
           clear_rseq_cs(t) \/ rseq_refuse(t)
    PROVE  Sections' /\ Quiet
<1>1. TypeOK /\ InSection(t) /\ Bounds'
  BY CallBounds DEF Sections, Bounds
<1>2. PICK ok \in BOOLEAN : returns(t, ok) /\ ok = (pc[t] = "clear")
  BY DEF clear_rseq_cs, rseq_refuse
<1>3. /\ pc[t] \in {"clear", "refuse"} /\ pc'[t] = "idle"
      /\ UNCHANGED <<slab, running, repeated>>
      /\ OnlyThread(t)
      /\ \A u \in Thread \ {t} : rseq_cs'[u] = rseq_cs[u] /\ hand'[u] = hand[u]
  BY <1>1, <1>2 DEF clear_rseq_cs, rseq_refuse, returns, SetPc, TypeOK,
     OnlyThread
<1>4. InSection(t)'
  BY <1>3 DEF InSection, Inside
<1>5. EffectiveHand(t)' = EffectiveHand(t)
  <2>1. EffectiveHand(t)' = hand'[t]
    BY <1>3 DEF EffectiveHand, Committed
  <2>2. hand'[t] = IF ~ok THEN hand[t]
                   ELSE IF op[t] = "push" THEN hand[t] \ {reg[t].ptr}
                   ELSE hand[t] \cup {reg[t].ptr}
    BY <1>1, <1>2 DEF returns, TypeOK
  <2> QED
    BY <1>2, <2>1, <2>2 DEF EffectiveHand, Committed
<1> QED
  BY <1>1, <1>3, <1>4, <1>5, RegisterStep

(* A pointer stored above the top of a stack is not seen.                  *)
LEMMA AboveTop ==
    ASSUME TypeOK, NEW c \in CPU, NEW p, slab[c].current < Capacity,
           PointerStored(c, slab[c].current, p)
    PROVE  SameStacks
<1> SUFFICES ASSUME NEW d \in CPU PROVE StackOf(d)' = StackOf(d)
  BY DEF SameStacks
<1>1. slab'[d].current = slab[d].current /\ slab[d].current \in 0 .. Capacity
  BY DEF PointerStored, TypeOK
<1>2. \A i \in 1 .. slab[d].current :
          slab'[d].pointers[i - 1] = slab[d].pointers[i - 1]
  <2> SUFFICES ASSUME NEW i \in 1 .. slab[d].current
               PROVE  slab'[d].pointers[i - 1] = slab[d].pointers[i - 1]
    OBVIOUS
  <2>1. i - 1 \in 0 .. Capacity - 1 /\ i - 1 < slab[d].current
    BY <1>1, SlabsAssumption
  <2>2. d # c \/ i - 1 # slab[c].current
    BY <1>1, <2>1
  <2> QED
    BY <2>1, <2>2 DEF PointerStored
<1> QED
  BY <1>1, <1>2 DEF StackOf

(* A push writes above the top of the stack, a pop reads the top.          *)
LEMMA AccessStep ==
    ASSUME RseqEverywhere, Sections, NEW t \in Thread, rseq_access_pointer(t)
    PROVE  Sections' /\ Quiet
<1> DEFINE r == reg[t]
<1>1. TypeOK /\ InSection(t) /\ ThreadBounds(t) /\ Bounds'
  BY AccessBounds DEF Sections, Bounds
<1>2. /\ pc[t] = "pointer" /\ pc'[t] = "commit" /\ access_pointer(t)
      /\ UNCHANGED <<running, op, rseq_cs, hand, repeated>>
      /\ \A u \in Thread \ {t} : pc'[u] = pc[u]
  BY <1>1 DEF rseq_access_pointer, SetPc, TypeOK
<1>3. /\ r.cpu \in CPU /\ On(t, r.cpu) /\ r.cur \in 0 .. Capacity
      /\ r.cur = slab[r.cpu].current /\ rseq_cs[t]
      /\ has_room_or_object(op[t], r.cur)
      /\ op[t] \in {"push", "pop"}
      /\ op[t] = "push" => r.ptr \in hand[t] /\ r.ptr \in Ptr
  BY <1>1, <1>2 DEF InSection, ThreadBounds, TypeOK, Inside, Checked
<1>4. EffectiveHand(t)' = EffectiveHand(t)
  BY <1>2 DEF EffectiveHand, Committed
<1>5. CASE op[t] = "push"
  <2>1. r.cur \in 0 .. Capacity - 1
    BY <1>3, <1>5, SlabsAssumption DEF has_room_or_object
  <2>2. slab' = [slab EXCEPT ![r.cpu].pointers[r.cur] = r.ptr] /\ reg' = reg
    BY <1>2, <1>5 DEF access_pointer, slot
  <2>3. PointerStored(r.cpu, r.cur, r.ptr)
    BY <1>1, <1>3, <1>5, <2>1, <2>2, StorePointer
  <2>4. \A c \in CPU : ~On(t, c) => slab'[c] = slab[c]
    BY <1>1, <1>3, <2>2 DEF TypeOK, On
  <2>5. StepOf(t)
    BY <1>2, <2>2, <2>4 DEF StepOf, OnlyThread, On
  <2>6. InSection(t)'
    BY <1>2, <1>3, <1>5, <2>2, <2>3 DEF InSection, Inside, Section, On, slot,
       PointerStored
  <2>7. SameStacks
    BY <1>1, <1>3, <1>5, <2>3, AboveTop DEF has_room_or_object
  <2>8. \A u \in Thread, d, e \in CPU : On(u, d)' /\ On(u, e)' => d = e
    BY <1>2 DEF On, Sections
  <2> QED
    BY <1>1, <1>2, <1>4, <2>5, <2>6, <2>7, <2>8, OthersInSection, OthersHands
       DEF Sections, Quiet, SameHands
<1>6. CASE op[t] = "pop"
  <2>1. /\ reg' = [reg EXCEPT ![t]["ptr"] = slab[r.cpu].pointers[r.cur - 1]]
        /\ slab' = slab
    BY <1>2, <1>6 DEF access_pointer, slot, SetReg
  <2>2. /\ reg'[t].cpu = r.cpu /\ reg'[t].cur = r.cur
        /\ reg'[t].ptr = slab[r.cpu].pointers[r.cur - 1]
        /\ OnlyThread(t)
    BY <1>1, <1>2, <2>1 DEF TypeOK, OnlyThread
  <2>3. InSection(t)'
    BY <1>2, <1>3, <1>6, <2>1, <2>2 DEF InSection, Inside, Section, On, slot
  <2> QED
    BY <1>1, <1>2, <1>4, <2>1, <2>2, <2>3, RegisterStep
<1> QED
  BY <1>3, <1>5, <1>6

(* t pushes p on the stack of c, or pops it from there.                    *)
Pushes(t, c, p) ==
    /\ p \in EffectiveHand(t)
    /\ slab[c].current < Capacity
    /\ slab'[c].current = slab[c].current + 1
    /\ slab[c].pointers[slab[c].current] = p
    /\ EffectiveHand(t)' = EffectiveHand(t) \ {p}

Pops(t, c, p) ==
    /\ slab[c].current > 0
    /\ slab'[c].current = slab[c].current - 1
    /\ slab[c].pointers[slab[c].current - 1] = p
    /\ EffectiveHand(t)' = EffectiveHand(t) \cup {p}

CommitsOn(t, c, p) ==
    /\ \A d \in CPU : slab'[d].pointers = slab[d].pointers
    /\ \A d \in CPU \ {c} : slab'[d].current = slab[d].current
    /\ \A u \in Thread \ {t} : EffectiveHand(u)' = EffectiveHand(u)
    /\ Pushes(t, c, p) \/ Pops(t, c, p)
    /\ UNCHANGED repeated

(* What can be seen of a step from outside: nothing, one commit, or a      *)
(* repetition.                                                             *)
Seen ==
    \/ Quiet
    \/ \E t \in Thread, c \in CPU, p \in Ptr : CommitsOn(t, c, p)
    \/ \E t \in Thread, p \in Ptr : RepeatsOn(t, p)

LEMMA CommitStep ==
    ASSUME RseqEverywhere, Sections, NEW t \in Thread, rseq_commit(t)
    PROVE  Sections' /\ \E c \in CPU, p \in Ptr : CommitsOn(t, c, p)
<1> DEFINE r == reg[t]
           n == IF op[t] = "push" THEN r.cur + 1 ELSE r.cur - 1
<1>1. TypeOK /\ InSection(t) /\ ThreadBounds(t) /\ Bounds'
  BY StoreBounds DEF Sections, Bounds
<1>2. /\ pc[t] = "commit" /\ pc'[t] = "clear"
      /\ slab' = [slab EXCEPT ![r.cpu].current = n]
      /\ UNCHANGED <<running, op, reg, rseq_cs, hand, repeated>>
      /\ \A u \in Thread \ {t} : pc'[u] = pc[u]
  BY <1>1 DEF rseq_commit, store_current, SetPc, TypeOK
<1>3. /\ r.cpu \in CPU /\ On(t, r.cpu) /\ r.cur \in 0 .. Capacity
      /\ r.cur = slab[r.cpu].current /\ rseq_cs[t]
      /\ has_room_or_object(op[t], r.cur)
      /\ op[t] \in {"push", "pop"}
      /\ op[t] = "push" => r.ptr \in hand[t]
      /\ r.ptr \in Ptr
      /\ slab[r.cpu].pointers[slot(op[t], r.cur)] = r.ptr
  BY <1>1, <1>2 DEF InSection, ThreadBounds, TypeOK, Inside, Checked, Accessed
<1>4. /\ \A d \in CPU : slab'[d].pointers = slab[d].pointers
      /\ slab'[r.cpu].current = n
      /\ \A d \in CPU \ {r.cpu} : slab'[d] = slab[d]
  BY <1>1, <1>2, <1>3 DEF TypeOK
<1>5. StepOf(t)
  BY <1>2, <1>3, <1>4 DEF StepOf, OnlyThread, On
<1>6. InSection(t)'
  BY <1>1, <1>2, <1>3 DEF InSection, Inside, Section, On
<1>7. \A u \in Thread, d, e \in CPU : On(u, d)' /\ On(u, e)' => d = e
  BY <1>2 DEF On, Sections
<1>8. Sections'
  BY <1>1, <1>5, <1>6, <1>7, OthersInSection DEF Sections
<1>9. EffectiveHand(t) = hand[t]
  BY <1>2 DEF EffectiveHand, Committed
<1>10. Pushes(t, r.cpu, r.ptr) \/ Pops(t, r.cpu, r.ptr)
  <2>1. CASE op[t] = "push"
    <3>1. EffectiveHand(t)' = hand[t] \ {r.ptr}
      BY <1>2, <2>1 DEF EffectiveHand, Committed
    <3>2. r.cur < Capacity /\ n = r.cur + 1 /\ slot(op[t], r.cur) = r.cur
      BY <1>3, <2>1 DEF has_room_or_object, slot
    <3> HIDE DEF n, r
    <3> QED
      BY <1>3, <1>4, <1>9, <2>1, <3>1, <3>2 DEF Pushes
  <2>2. CASE op[t] = "pop"
    <3>1. EffectiveHand(t)' = hand[t] \cup {r.ptr}
      BY <1>2, <2>2 DEF EffectiveHand, Committed
    <3> QED
      BY <1>3, <1>4, <1>9, <2>2, <3>1 DEF Pops, has_room_or_object, slot
  <2> QED
    BY <1>3, <2>1, <2>2
<1>11. CommitsOn(t, r.cpu, r.ptr)
  BY <1>2, <1>4, <1>5, <1>10, OthersHands DEF CommitsOn
<1> QED
  BY <1>3, <1>8, <1>11

LEMMA InitSections == Init => Sections
<1> SUFFICES ASSUME Init PROVE Sections
  OBVIOUS
<1>1. \A t \in Thread : pc[t] = "idle"
  BY DEF Init
<1>2. \A t \in Thread, c \in CPU : ~On(t, c)
  BY SlabsAssumption DEF Init, On
<1> QED
  BY <1>1, <1>2, InitBounds DEF Sections, InSection, Section, Inside

(* Every step keeps the sections apart; only a commit and a repetition are *)
(* seen from outside.                                                      *)
LEMMA NextSections ==
    ASSUME RseqEverywhere, Sections, [Next]_vars
    PROVE  Sections' /\ Seen
<1>1. CASE UNCHANGED vars
  <2>1. Bounds'
    BY NextBounds DEF Sections
  <2>2. \A t \in Thread : InSection(t)'
    BY <1>1 DEF vars, Sections, InSection, On, slot
  <2>3. \A t \in Thread, c, d \in CPU : On(t, c)' /\ On(t, d)' => c = d
    BY <1>1 DEF vars, Sections, On
  <2>4. Quiet
    BY <1>1 DEF vars, Quiet, SameStacks, StackOf, SameHands, EffectiveHand,
       Committed
  <2> QED
    BY <2>1, <2>2, <2>3, <2>4 DEF Sections, Seen
<1>2. ASSUME NEW t \in Thread, NEW c \in CPU, instruction(t, c),
             ~rseq_commit(t)
      PROVE  Sections' /\ Quiet
  <2>1. pc[t] \in Section \cup {"idle", "refuse"}
    BY DEF Sections, InSection
  <2>2. /\ ~rseq_out_of_range(t) /\ ~fallback_get_slab(t, c)
        /\ ~fallback_load(t) /\ ~fallback_access_pointer(t)
        /\ ~fallback_store(t)
    BY <2>1 DEF Section, rseq_out_of_range, fallback_get_slab, fallback_load,
       fallback_access_pointer, fallback_store
  <2> QED
    BY <1>2, <2>2, LoadStep, AccessStep, ReturnStep DEF instruction
<1>3. ASSUME NEW t \in Thread, rseq_commit(t)
      PROVE  /\ Sections'
             /\ \E c \in CPU, p \in Ptr : CommitsOn(t, c, p)
  BY <1>3, CommitStep
<1>4. ASSUME NEW t \in Thread, NEW c \in CPU,
             \/ schedule(t, c) \/ preempt(t, c) \/ call_pop(t)
             \/ \E p \in hand[t] : call_push(t, p)
      PROVE  Sections' /\ Seen
  BY <1>4, KernelStep, CallStep DEF Seen
<1> QED
  BY <1>1, <1>2, <1>3, <1>4 DEF Next, Seen

(* The first n slots of a CPU as a sequence.                               *)
LEMMA SlotsType ==
    ASSUME TypeOK, NEW c \in CPU, NEW n \in 0 .. Capacity
    PROVE  [i \in 1 .. n |-> slab[c].pointers[i - 1]]
              \in [1 .. n -> Ptr \cup {NULL}]
<1>1. slab[c].pointers \in [0 .. Capacity - 1 -> Ptr \cup {NULL}]
  BY DEF TypeOK
<1>2. \A i \in 1 .. n : i - 1 \in 0 .. Capacity - 1
  BY SlabsAssumption
<1> QED
  BY <1>1, <1>2

(* A commit is a push or a pop of SlabSpec.                                *)
LEMMA CommitIsPush ==
    ASSUME Bounds, NEW t \in Thread, NEW c \in CPU, NEW p \in Ptr,
           CommitsOn(t, c, p), Pushes(t, c, p)
    PROVE  /\ Len(StackOf(c)) < Capacity
           /\ StackOf(c)' = Append(StackOf(c), p)
<1> DEFINE n == slab[c].current
           f == StackOf(c)
           g == StackOf(c)'
<1>1. TypeOK /\ n \in Nat
  BY SlabsAssumption DEF Bounds, TypeOK
<1>2. /\ slab'[c].pointers = slab[c].pointers /\ slab'[c].current = n + 1
      /\ slab[c].pointers[n] = p /\ n < Capacity
  BY DEF CommitsOn, Pushes
<1>3. f \in [1 .. n -> Ptr \cup {NULL}]
  BY <1>1, <1>2, SlotsType, SlabsAssumption DEF StackOf
<1>4. g = [i \in 1 .. n + 1 |-> slab[c].pointers[i - 1]]
  BY <1>2 DEF StackOf
<1>5. g \in [1 .. n + 1 -> Ptr \cup {NULL}]
  <2>1. n + 1 \in 0 .. Capacity
    BY <1>1, <1>2, SlabsAssumption
  <2> QED
    BY <1>1, <1>4, <2>1, SlotsType
<1>6. g[n + 1] = p /\ \A i \in 1 .. n : g[i] = f[i]
  BY <1>1, <1>2, <1>4 DEF StackOf
<1> HIDE DEF f, g, n
<1>7. g = Append(f, p)
  BY <1>1, <1>3, <1>5, <1>6, OneMore
<1>8. Len(f) = n
  BY <1>1, <1>3, FunctionIsSeq
<1> QED
  BY <1>2, <1>7, <1>8 DEF f, g

LEMMA CommitIsPop ==
    ASSUME Bounds, NEW t \in Thread, NEW c \in CPU, NEW p \in Ptr,
           CommitsOn(t, c, p), Pops(t, c, p)
    PROVE  /\ StackOf(c) # <<>>
           /\ StackOf(c)[Len(StackOf(c))] = p
           /\ StackOf(c)' = SubSeq(StackOf(c), 1, Len(StackOf(c)) - 1)
<1> DEFINE n == slab[c].current
           f == StackOf(c)
           g == StackOf(c)'
<1>1. TypeOK /\ n \in Nat /\ n <= Capacity
  BY SlabsAssumption DEF Bounds, TypeOK
<1>2. /\ slab'[c].pointers = slab[c].pointers /\ slab'[c].current = n - 1
      /\ slab[c].pointers[n - 1] = p /\ n > 0
  BY DEF CommitsOn, Pops
<1>3. f \in [1 .. n -> Ptr \cup {NULL}]
  BY <1>1, SlotsType, SlabsAssumption DEF StackOf
<1>4. g = [i \in 1 .. n - 1 |-> slab[c].pointers[i - 1]]
  BY <1>2 DEF StackOf
<1>5. g \in [1 .. n - 1 -> Ptr \cup {NULL}]
  <2>1. n - 1 \in 0 .. Capacity
    BY <1>1, <1>2, SlabsAssumption
  <2> QED
    BY <1>1, <1>4, <2>1, SlotsType
<1>6. f[n] = p /\ \A i \in 1 .. n - 1 : g[i] = f[i]
  BY <1>1, <1>2, <1>4 DEF StackOf
<1>7. n \in Nat \ {0}
  BY <1>1, <1>2
<1> HIDE DEF f, g, n
<1>8. g = SubSeq(f, 1, n - 1)
  BY <1>3, <1>5, <1>6, <1>7, OneLess
<1>9. Len(f) = n /\ f \in Seq(Ptr \cup {NULL})
  BY <1>3, <1>7, FunctionIsSeq
<1>10. f # <<>>
  BY <1>7, <1>9, EmptySeq
<1> QED
  BY <1>6, <1>8, <1>9, <1>10 DEF f, g

(* Such a step is a step of SlabSpec or changes nothing it talks about.    *)
LEMMA SeenImplements ==
    ASSUME Bounds, Seen
    PROVE  [Stacks!SpecNext]_(Stacks!specvars)
<1>1. CASE Quiet
  BY <1>1 DEF Quiet, SameStacks, SameHands, Stacks!specvars
<1>2. ASSUME NEW t \in Thread, NEW c \in CPU, NEW p \in Ptr, CommitsOn(t, c, p)
      PROVE  Stacks!SpecNext
  <2> DEFINE S == [d \in CPU |-> StackOf(d)]
             H == [u \in Thread |-> EffectiveHand(u)]
  <2>1. \A d \in CPU \ {c} : StackOf(d)' = StackOf(d)
    BY <1>2 DEF CommitsOn, StackOf
  <2>2. \A u \in Thread \ {t} : EffectiveHand(u)' = EffectiveHand(u)
    BY <1>2 DEF CommitsOn
  <2>5. UNCHANGED repeated
    BY <1>2 DEF CommitsOn
  <2>3. CASE Pushes(t, c, p)
    <3>1. /\ Len(StackOf(c)) < Capacity
          /\ StackOf(c)' = Append(StackOf(c), p)
      BY <1>2, <2>3, CommitIsPush
    <3>2. S' = [S EXCEPT ![c] = Append(@, p)]
      BY <2>1, <3>1
    <3>3. p \in EffectiveHand(t) /\ EffectiveHand(t)' = EffectiveHand(t) \ {p}
      BY <2>3 DEF Pushes
    <3>4. H' = [H EXCEPT ![t] = @ \ {p}]
      BY <2>2, <3>3
    <3>5. p \in H[t] /\ Len(S[c]) < Capacity
      BY <3>1, <3>3
    <3>6. Stacks!Push(t, c, p)
      BY <2>5, <3>2, <3>4, <3>5 DEF Stacks!Push
    <3> QED
      BY <3>5, <3>6 DEF Stacks!SpecNext
  <2>4. CASE Pops(t, c, p)
    <3>1. /\ StackOf(c) # <<>>
          /\ StackOf(c)[Len(StackOf(c))] = p
          /\ StackOf(c)' = SubSeq(StackOf(c), 1, Len(StackOf(c)) - 1)
      BY <1>2, <2>4, CommitIsPop
    <3>2. S' = [S EXCEPT ![c] = SubSeq(@, 1, Len(@) - 1)]
      BY <2>1, <3>1
    <3>3. EffectiveHand(t)' = EffectiveHand(t) \cup {p}
      BY <2>4 DEF Pops
    <3>4. H' = [H EXCEPT ![t] = @ \cup {S[c][Len(S[c])]}]
      BY <2>2, <3>1, <3>3
    <3>5. Stacks!Pop(t, c)
      BY <2>5, <3>1, <3>2, <3>4 DEF Stacks!Pop
    <3> QED
      BY <3>5 DEF Stacks!SpecNext
  <2> QED
    BY <1>2, <2>3, <2>4 DEF CommitsOn
<1>3. ASSUME NEW t \in Thread, NEW p \in Ptr, RepeatsOn(t, p)
      PROVE  [Stacks!SpecNext]_(Stacks!specvars)
  <2> DEFINE S == [d \in CPU |-> StackOf(d)]
             H == [u \in Thread |-> EffectiveHand(u)]
  <2>1. S' = S /\ repeated' = repeated \cup {p}
    BY <1>3 DEF RepeatsOn, SameStacks
  <2>2. \/ H' = [H EXCEPT ![t] = @ \cup {p}]
        \/ H' = [H EXCEPT ![t] = @ \ {p}]
    BY <1>3 DEF RepeatsOn
  <2>3. Stacks!Repeat(t, p)
    BY <2>1, <2>2 DEF Stacks!Repeat
  <2> QED
    BY <2>3 DEF Stacks!SpecNext
<1> QED
  BY <1>1, <1>2, <1>3 DEF Seen

LEMMA InitImplements == Init => Stacks!SpecInit
<1> SUFFICES ASSUME Init PROVE Stacks!SpecInit
  OBVIOUS
<1>1. \A c \in CPU : slab[c].current = 0
  BY DEF Init, EmptySlab
<1>2. \A c \in CPU : StackOf(c) = <<>>
  BY <1>1 DEF StackOf
<1> QED
  BY <1>2 DEF Init, Stacks!SpecInit

(* Up to the commit a section works on the slab of its own CPU and nothing *)
(* it has read goes stale, whatever the kernel preempts and migrates.      *)
THEOREM SectionsHold ==
    ASSUME RseqEverywhere
    PROVE  Spec => []Sections
<1>1. Sections /\ [Next]_vars => Sections'
  BY NextSections
<1> QED
  BY <1>1, InitSections, PTL DEF Spec

(* The rseq sections implement bounded stacks with indivisible pushes and  *)
(* pops, whatever the kernel preempts and migrates.                        *)
THEOREM SectionsImplementStacks ==
    ASSUME RseqEverywhere
    PROVE  Spec => ImplementsStacks
<1>1. Sections /\ [Next]_vars => [Stacks!SpecNext]_(Stacks!specvars)
  BY NextSections, SeenImplements DEF Sections
<1> QED
  BY <1>1, InitImplements, SectionsHold, PTL
     DEF Spec, ImplementsStacks, Stacks!StackSpec

-----------------------------------------------------------------------------
(* Every pointer is in one place.  A commit moves p between the hand of t  *)
(* and the top of the stack of c; all other pointers stay where they are.  *)

LEMMA InitOnePlace == Init => OnePlace
<1> SUFFICES ASSUME Init, NEW p \in Ptr \ repeated
             PROVE  /\ \E t \in Thread : p \in EffectiveHand(t)
                    /\ \A t, u \in Thread : p \in EffectiveHand(t)
                          /\ p \in EffectiveHand(u) => t = u
                    /\ \A c \in CPU, i \in 1 .. Capacity : ~Cached(p, c, i)
  BY DEF OnePlace
<1>1. \A c \in CPU : slab[c].current = 0
  BY DEF Init, EmptySlab
<1>2. PICK owner \in [Ptr -> Thread] :
          hand = [t \in Thread |-> {q \in Ptr : owner[q] = t}]
  BY DEF Init
<1>3. \A t \in Thread : p \in EffectiveHand(t) <=> owner[p] = t
  BY <1>2 DEF Init, EffectiveHand, Committed
<1>4. owner[p] \in Thread
  OBVIOUS
<1>5. \A c \in CPU, i \in 1 .. Capacity : ~Cached(p, c, i)
  BY <1>1 DEF Cached
<1> QED
  BY <1>3, <1>4, <1>5

(* A step that changes no stack, and in the hands nothing but repeated     *)
(* pointers.                                                               *)
LEMMA StillOnePlace ==
    ASSUME Bounds, Bounds', SameStacks, repeated \subseteq repeated', OnePlace,
           \A p \in Ptr \ repeated', t \in Thread :
              p \in EffectiveHand(t)' <=> p \in EffectiveHand(t)
    PROVE  OnePlace'
<1>1. \A c \in CPU : /\ slab[c].current \in 0 .. Capacity
                     /\ slab'[c].current \in 0 .. Capacity
  BY DEF Bounds, TypeOK
<1>2. ASSUME NEW p \in Ptr, NEW c \in CPU, NEW i \in 1 .. Capacity
      PROVE  Cached(p, c, i)' <=> Cached(p, c, i)
  <2>1. StackOf(c)' = StackOf(c)
    BY DEF SameStacks
  <2>2. /\ DOMAIN StackOf(c) = 1 .. slab[c].current
        /\ DOMAIN (StackOf(c)') = 1 .. slab'[c].current
    BY DEF StackOf
  <2>3. slab'[c].current = slab[c].current
    BY <1>1, <2>1, <2>2
  <2>4. i <= slab[c].current =>
           /\ StackOf(c)[i] = slab[c].pointers[i - 1]
           /\ (StackOf(c)')[i] = slab'[c].pointers[i - 1]
    BY <1>1, <2>3 DEF StackOf
  <2> QED
    BY <2>1, <2>3, <2>4 DEF Cached
<1> QED
  BY <1>2 DEF OnePlace

LEMMA CommitOnePlace ==
    ASSUME Bounds, OnePlace, NEW t \in Thread, NEW c \in CPU,
           NEW p \in Ptr, CommitsOn(t, c, p)
    PROVE  OnePlace'
<1> DEFINE n == slab[c].current
<1>1. n \in 0 .. Capacity
  BY DEF Bounds, TypeOK
<1>2. \A q \in Ptr, d \in CPU \ {c}, i \in 1 .. Capacity :
          Cached(q, d, i)' <=> Cached(q, d, i)
  BY DEF CommitsOn, Cached
<1>3. /\ \A u \in Thread \ {t} : EffectiveHand(u)' = EffectiveHand(u)
      /\ repeated' = repeated
  BY DEF CommitsOn
<1>4. CASE Pushes(t, c, p)
  <2>1. /\ p \in EffectiveHand(t) /\ EffectiveHand(t)' = EffectiveHand(t) \ {p}
        /\ n + 1 \in 1 .. Capacity
    BY <1>1, <1>4, SlabsAssumption DEF Pushes
  <2>2. \A q \in Ptr, i \in 1 .. Capacity :
            Cached(q, c, i)' <=> Cached(q, c, i) \/ (i = n + 1 /\ q = p)
    BY <1>1, <1>4, SlabsAssumption DEF CommitsOn, Pushes, Cached
  <2> HIDE DEF n
  <2>3. ASSUME NEW q \in Ptr, q # p
        PROVE  /\ \A u \in Thread : q \in EffectiveHand(u)' <=> q \in EffectiveHand(u)
               /\ \A d \in CPU, i \in 1 .. Capacity :
                     Cached(q, d, i)' <=> Cached(q, d, i)
    BY <1>2, <1>3, <2>1, <2>2, <2>3
  <2>4. p \notin repeated =>
           /\ \A u \in Thread : p \notin EffectiveHand(u)'
           /\ \A d \in CPU, i \in 1 .. Capacity :
                 Cached(p, d, i)' <=> d = c /\ i = n + 1
    BY <1>2, <1>3, <2>1, <2>2 DEF OnePlace
  <2> QED
    BY <1>3, <2>1, <2>3, <2>4 DEF OnePlace
<1>5. CASE Pops(t, c, p)
  <2>1. /\ EffectiveHand(t)' = EffectiveHand(t) \cup {p}
        /\ n \in 1 .. Capacity /\ Cached(p, c, n)
    BY <1>1, <1>5, SlabsAssumption DEF Pops, Cached
  <2>2. \A q \in Ptr, i \in 1 .. Capacity :
            Cached(q, c, i)' <=> Cached(q, c, i) /\ i # n
    BY <1>1, <1>5, SlabsAssumption DEF CommitsOn, Pops, Cached
  <2>3. \A q \in Ptr : Cached(q, c, n) => q = p
    BY <2>1 DEF Cached
  <2> HIDE DEF n
  <2>4. ASSUME NEW q \in Ptr, q # p
        PROVE  /\ \A u \in Thread : q \in EffectiveHand(u)' <=> q \in EffectiveHand(u)
               /\ \A d \in CPU, i \in 1 .. Capacity :
                     Cached(q, d, i)' <=> Cached(q, d, i)
    BY <1>2, <1>3, <2>1, <2>2, <2>3, <2>4
  <2>5. p \notin repeated =>
           /\ \A u \in Thread : p \in EffectiveHand(u)' <=> u = t
           /\ \A d \in CPU, i \in 1 .. Capacity : ~Cached(p, d, i)'
    BY <1>2, <1>3, <2>1, <2>2 DEF OnePlace
  <2> QED
    BY <1>3, <2>4, <2>5 DEF OnePlace
<1> QED
  BY <1>4, <1>5 DEF CommitsOn

LEMMA SeenOnePlace ==
    ASSUME Bounds, Bounds', Seen, OnePlace
    PROVE  OnePlace'
<1>1. CASE Quiet
  BY <1>1, StillOnePlace DEF Quiet, SameHands
<1>2. ASSUME NEW t \in Thread, NEW c \in CPU, NEW p \in Ptr, CommitsOn(t, c, p)
      PROVE  OnePlace'
  BY <1>2, CommitOnePlace
<1>3. ASSUME NEW t \in Thread, NEW p \in Ptr, RepeatsOn(t, p)
      PROVE  OnePlace'
  <2>1. SameStacks /\ repeated' = repeated \cup {p}
    BY <1>3 DEF RepeatsOn
  <2>2. \A q \in Ptr \ repeated', u \in Thread :
            q \in EffectiveHand(u)' <=> q \in EffectiveHand(u)
    BY <1>3, <2>1 DEF RepeatsOn
  <2> QED
    BY <2>1, <2>2, StillOnePlace
<1> QED
  BY <1>1, <1>2, <1>3 DEF Seen

(* On any interleaving of the sections a pointer is lost or cached twice   *)
(* only through a repetition of its own push or pop.                       *)
THEOREM OnePlaceHolds ==
    ASSUME RseqEverywhere
    PROVE  Spec => []OnePlace
<1>1. Sections /\ OnePlace /\ [Next]_vars => OnePlace'
  BY NextSections, SeenOnePlace DEF Sections
<1> QED
  BY <1>1, InitOnePlace, SectionsHold, PTL DEF Spec

(* Two callers hold the same pointer only if a call on it was repeated.    *)
TwiceOnlyIfRepeated ==
    \A t, u \in Thread :
        t # u => CallerHolds(t) \cap CallerHolds(u) \subseteq repeated

(* Where every thread has its section, the double allocation that the runs *)
(* find has one cause: an abort after the committing store, of a call on   *)
(* that very pointer.                                                      *)
THEOREM RepetitionIsTheOnlyCause ==
    ASSUME RseqEverywhere
    PROVE  Spec => []TwiceOnlyIfRepeated
<1>1. \A t \in Thread : CallerHolds(t) \subseteq EffectiveHand(t)
  BY DEF CallerHolds, EffectiveHand, Committed
<1>2. Sections /\ OnePlace => TwiceOnlyIfRepeated
  <2> SUFFICES ASSUME Sections, OnePlace, NEW t \in Thread, NEW u \in Thread,
                      t # u, NEW p \in CallerHolds(t) \cap CallerHolds(u),
                      p \notin repeated
               PROVE  FALSE
    BY DEF TwiceOnlyIfRepeated
  <2>1. p \in EffectiveHand(t) /\ p \in EffectiveHand(u)
    BY <1>1
  <2>2. p \in Ptr
    BY DEF CallerHolds, Sections, Bounds, TypeOK
  <2> QED
    BY <2>1, <2>2 DEF OnePlace
<1> QED
  BY <1>2, SectionsHold, OnePlaceHolds, PTL

-----------------------------------------------------------------------------
(* One thread.  It needs no sections: a CPU without a slab and a process   *)
(* without rseq send it through the fallback, which a preemption suspends  *)
(* halfway and which then goes on with the count it had read, on a slab    *)
(* that nobody else has touched.                                           *)
SingleThread == \A t, u \in Thread : t = u

InCall(t) ==
    /\ pc[t] \in HasCount => reg[t].cur = slab[reg[t].cpu].current
    /\ pc[t] \in Accessed =>
          slab[reg[t].cpu].pointers[slot(op[t], reg[t].cur)] = reg[t].ptr
    /\ pc[t] # "idle" /\ op[t] = "push" => reg[t].ptr \in hand[t]

Alone == Bounds /\ \A t \in Thread : InCall(t)

(* A step of the thread that leaves the slabs alone.                       *)
LEMMA AloneQuiet ==
    ASSUME SingleThread, Bounds', NEW t \in Thread, InCall(t)',
           UNCHANGED <<slab, repeated>>, EffectiveHand(t)' = EffectiveHand(t)
    PROVE  Alone' /\ Seen
<1>1. \A u \in Thread : u = t
  BY DEF SingleThread
<1>2. Alone'
  BY <1>1 DEF Alone
<1>3. SameHands
  BY <1>1 DEF SameHands
<1>4. SameStacks
  BY DEF SameStacks, StackOf
<1> QED
  BY <1>2, <1>3, <1>4 DEF Seen, Quiet

(* The call ends without having touched the slabs.                         *)
LEMMA AloneReturns ==
    ASSUME SingleThread, Alone, Bounds', NEW t \in Thread, NEW ok \in BOOLEAN,
           returns(t, ok), ok = (pc[t] = "clear"), UNCHANGED <<slab, repeated>>
    PROVE  Alone' /\ Seen
<1>1. TypeOK
  BY DEF Alone, Bounds
<1>2. /\ pc'[t] = "idle"
      /\ hand'[t] = IF ~ok THEN hand[t]
                    ELSE IF op[t] = "push" THEN hand[t] \ {reg[t].ptr}
                    ELSE hand[t] \cup {reg[t].ptr}
  BY <1>1 DEF returns, SetPc, TypeOK
<1>3. InCall(t)'
  BY <1>2 DEF InCall, HasCount, Accessed
<1>4. EffectiveHand(t)' = EffectiveHand(t)
  BY <1>2 DEF EffectiveHand, Committed
<1> QED
  BY <1>3, <1>4, AloneQuiet

(* The kernel, the calls, and the instructions that load registers.        *)
LEMMA AloneLocal ==
    ASSUME SingleThread, Alone, Bounds', NEW t \in Thread, NEW c \in CPU,
           \/ schedule(t, c)
           \/ call_pop(t) \/ (\E p \in hand[t] : call_push(t, p))
           \/ set_rseq_cs(t) \/ load_cpu_start(t, c) \/ load_current(t)
           \/ check_cpu(t, c) \/ rseq_out_of_range(t)
    PROVE  Alone' /\ Seen
<1>1. TypeOK /\ InCall(t)
  BY DEF Alone, Bounds
<1>2. UNCHANGED <<slab, hand, repeated>>
  BY DEF schedule, call_pop, call_push, set_rseq_cs, load_cpu_start,
     load_current, check_cpu, rseq_out_of_range
<1>3. ASSUME pc[t] # "clear", pc'[t] # "clear", InCall(t)'
      PROVE  Alone' /\ Seen
  <2>1. EffectiveHand(t)' = EffectiveHand(t)
    BY <1>2, <1>3 DEF EffectiveHand, Committed
  <2> QED
    BY <1>2, <1>3, <2>1, AloneQuiet
<1>4. CASE schedule(t, c)
  <2>1. UNCHANGED <<slab, pc, op, reg, hand, repeated>>
    BY <1>4 DEF schedule
  <2>2. InCall(t)' /\ EffectiveHand(t)' = EffectiveHand(t)
    BY <1>1, <2>1 DEF InCall, slot, EffectiveHand, Committed
  <2> QED
    BY <2>1, <2>2, AloneQuiet
<1>5. CASE call_pop(t) \/ \E p \in hand[t] : call_push(t, p)
  <2>1. /\ pc[t] = "idle" /\ pc'[t] \in {"start", "get_cpu"}
        /\ op'[t] = "push" => reg'[t].ptr \in hand[t]
    BY <1>1, <1>5 DEF call_pop, call_push, first_instruction, SetPc, TypeOK,
       NoRegs
  <2>2. InCall(t)'
    BY <1>2, <2>1 DEF InCall, HasCount, Accessed
  <2> QED
    BY <1>3, <2>1, <2>2
<1>6. CASE set_rseq_cs(t) \/ load_cpu_start(t, c) \/ rseq_out_of_range(t)
  <2>1. /\ pc[t] \in {"start", "cpu_start", "out_of_range"}
        /\ pc'[t] \in {"cpu_start", "load", "out_of_range", "get_cpu"}
        /\ op' = op /\ reg'[t].ptr = reg[t].ptr
    BY <1>1, <1>6 DEF set_rseq_cs, load_cpu_start, rseq_out_of_range, SetPc,
       SetReg, TypeOK
  <2>2. InCall(t)'
    BY <1>1, <1>2, <2>1 DEF InCall, HasCount, Accessed
  <2> QED
    BY <1>3, <2>1, <2>2
<1>7. CASE load_current(t)
  <2>1. /\ pc[t] = "load" /\ pc'[t] = "cpu_check" /\ op' = op
        /\ reg'[t].cpu = reg[t].cpu /\ reg'[t].ptr = reg[t].ptr
        /\ reg'[t].cur = slab[reg[t].cpu].current
    BY <1>1, <1>7 DEF load_current, SetPc, SetReg, TypeOK
  <2>2. InCall(t)'
    BY <1>1, <1>2, <2>1 DEF InCall, Accessed
  <2> QED
    BY <1>3, <2>1, <2>2
<1>8. CASE check_cpu(t, c)
  <2>1. /\ pc[t] = "cpu_check" /\ pc'[t] \in {"start", "pointer", "refuse"}
        /\ op' = op /\ reg' = reg
    BY <1>1, <1>8 DEF check_cpu, SetPc, TypeOK
  <2>2. InCall(t)'
    BY <1>1, <1>2, <2>1 DEF InCall, HasCount, Accessed
  <2> QED
    BY <1>3, <2>1, <2>2
<1> QED
  BY <1>4, <1>5, <1>6, <1>7, <1>8

(* The thread is preempted.                                                *)
LEMMA AlonePreempted ==
    ASSUME SingleThread, Alone, Bounds', NEW t \in Thread, NEW c \in CPU,
           preempt(t, c)
    PROVE  Alone' /\ Seen
<1>1. TypeOK /\ InCall(t) /\ ThreadBounds(t) /\ \A u \in Thread : u = t
  BY DEF Alone, Bounds, SingleThread
<1>2. /\ UNCHANGED <<slab, hand, op>> /\ pc'[t] = resume_at(t)
      /\ reg'[t] = IF resume_at(t) = "start" THEN Reloaded(t) ELSE reg[t]
      /\ repeated' = IF Repeats(t) THEN repeated \cup {reg[t].ptr} ELSE repeated
  BY <1>1 DEF preempt, SetPc, TypeOK
<1>3. SameStacks
  BY <1>2 DEF SameStacks, StackOf
<1>4. CASE resume_at(t) = "start"
  <2>1. op[t] = "push" => pc[t] # "idle" /\ reg'[t].ptr = reg[t].ptr
    BY <1>2, <1>4 DEF resume_at, Section, Reloaded, NoRegs
  <2>2. InCall(t)'
    BY <1>1, <1>2, <1>4, <2>1 DEF InCall, HasCount, Accessed
  <2>3. EffectiveHand(t)' = hand[t]
    BY <1>2, <1>4 DEF EffectiveHand, Committed
  <2>4. CASE pc[t] = "clear"
    <3>1. EffectiveHand(t) = IF op[t] = "push" THEN hand[t] \ {reg[t].ptr}
                             ELSE hand[t] \cup {reg[t].ptr}
      BY <2>4 DEF EffectiveHand, Committed
    <3>2. op[t] = "push" => reg[t].ptr \in hand[t]
      BY <1>1, <2>4 DEF InCall
    <3>3. \/ EffectiveHand(t)' = EffectiveHand(t) \cup {reg[t].ptr}
          \/ EffectiveHand(t)' = EffectiveHand(t) \ {reg[t].ptr}
      BY <2>3, <3>1, <3>2
    <3>4. reg[t].ptr \in Ptr
      BY <1>1, <2>4 DEF ThreadBounds
    <3>5. repeated' = repeated \cup {reg[t].ptr}
      BY <1>2, <1>4, <2>4 DEF Repeats
    <3>6. RepeatsOn(t, reg[t].ptr)
      BY <1>1, <1>3, <3>3, <3>5 DEF RepeatsOn
    <3> QED
      BY <1>1, <2>2, <3>4, <3>6 DEF Alone, Seen
  <2>5. CASE pc[t] # "clear"
    BY <1>2, <2>2, <2>3, <2>5, AloneQuiet DEF Repeats, EffectiveHand, Committed
  <2> QED
    BY <2>4, <2>5
<1>5. CASE resume_at(t) # "start"
  <2>1. /\ pc'[t] = pc[t] /\ reg'[t] = reg[t]
        /\ UNCHANGED repeated
    BY <1>2, <1>5 DEF resume_at, Repeats
  <2>2. InCall(t)' /\ EffectiveHand(t)' = EffectiveHand(t)
    BY <1>1, <1>2, <2>1 DEF InCall, slot, EffectiveHand, Committed
  <2> QED
    BY <1>2, <2>1, <2>2, AloneQuiet
<1> QED
  BY <1>4, <1>5

(* The returns of the section, and the first steps of the fallback.        *)
LEMMA AloneEnds ==
    ASSUME SingleThread, Alone, Bounds', NEW t \in Thread, NEW c \in CPU,
           \/ clear_rseq_cs(t) \/ rseq_refuse(t)
           \/ fallback_get_slab(t, c) \/ fallback_load(t)
    PROVE  Alone' /\ Seen
<1>1. TypeOK /\ InCall(t)
  BY DEF Alone, Bounds
<1>2. CASE clear_rseq_cs(t) \/ rseq_refuse(t)
  BY <1>2, AloneReturns DEF clear_rseq_cs, rseq_refuse
<1>3. CASE fallback_get_slab(t, c)
  <2>1. pc[t] = "get_cpu" /\ UNCHANGED <<slab, repeated>>
    BY <1>3 DEF fallback_get_slab
  <2>2. CASE InRange(c)
    <3>1. /\ reg' = [reg EXCEPT ![t]["cpu"] = c]
          /\ pc' = [pc EXCEPT ![t] = "fb_load"] /\ UNCHANGED <<op, hand>>
      BY <1>3, <2>2 DEF fallback_get_slab, SetReg, SetPc
    <3>2. pc'[t] = "fb_load" /\ reg'[t].ptr = reg[t].ptr
      BY <1>1, <3>1 DEF TypeOK
    <3>3. InCall(t)' /\ EffectiveHand(t)' = EffectiveHand(t)
      BY <1>1, <2>1, <3>1, <3>2 DEF InCall, HasCount, Accessed,
         EffectiveHand, Committed
    <3> QED
      BY <2>1, <3>3, AloneQuiet
  <2>3. CASE ~InRange(c)
    BY <1>3, <2>1, <2>3, AloneReturns DEF fallback_get_slab
  <2> QED
    BY <2>2, <2>3
<1>4. CASE fallback_load(t)
  <2> DEFINE cur == slab[reg[t].cpu].current
  <2>1. pc[t] = "fb_load" /\ UNCHANGED <<slab, repeated>>
    BY <1>4 DEF fallback_load
  <2>2. CASE has_room_or_object(op[t], cur)
    <3>1. /\ reg' = [reg EXCEPT ![t]["cur"] = cur]
          /\ pc' = [pc EXCEPT ![t] = "fb_pointer"] /\ UNCHANGED <<op, hand>>
      BY <1>4, <2>2 DEF fallback_load, SetReg, SetPc
    <3>2. /\ pc'[t] = "fb_pointer" /\ reg'[t].ptr = reg[t].ptr
          /\ reg'[t].cur = cur /\ reg'[t].cpu = reg[t].cpu
      BY <1>1, <3>1 DEF TypeOK
    <3>3. InCall(t)' /\ EffectiveHand(t)' = EffectiveHand(t)
      BY <1>1, <2>1, <3>1, <3>2 DEF InCall, Accessed, EffectiveHand, Committed
    <3> QED
      BY <2>1, <3>3, AloneQuiet
  <2>3. CASE ~has_room_or_object(op[t], cur)
    BY <1>4, <2>1, <2>3, AloneReturns DEF fallback_load
  <2> QED
    BY <2>2, <2>3
<1> QED
  BY <1>2, <1>3, <1>4

(* The access to the slot.                                                 *)
LEMMA AloneAccess ==
    ASSUME SingleThread, Alone, NEW t \in Thread,
           rseq_access_pointer(t) \/ fallback_access_pointer(t)
    PROVE  Alone' /\ Seen
<1> DEFINE r == reg[t]
<1>1. TypeOK /\ InCall(t) /\ ThreadBounds(t) /\ Bounds'
  BY AccessBounds DEF Alone, Bounds
<1>2. /\ pc[t] \in {"pointer", "fb_pointer"} /\ pc'[t] \in Accessed
      /\ access_pointer(t) /\ UNCHANGED <<op, hand, repeated>>
  BY <1>1 DEF rseq_access_pointer, fallback_access_pointer, SetPc, TypeOK,
     Accessed
<1>3. /\ r.cpu \in CPU /\ r.cur \in 0 .. Capacity
      /\ r.cur = slab[r.cpu].current
      /\ has_room_or_object(op[t], r.cur)
      /\ op[t] \in {"push", "pop"}
      /\ op[t] = "push" => r.ptr \in hand[t] /\ r.ptr \in Ptr
  BY <1>1, <1>2 DEF InCall, ThreadBounds, TypeOK, HasCpu, Checked, HasCount
<1>4. EffectiveHand(t)' = EffectiveHand(t)
  BY <1>2 DEF EffectiveHand, Committed, Accessed
<1>5. CASE op[t] = "push"
  <2>1. r.cur \in 0 .. Capacity - 1
    BY <1>3, <1>5, SlabsAssumption DEF has_room_or_object
  <2>2. slab' = [slab EXCEPT ![r.cpu].pointers[r.cur] = r.ptr] /\ reg' = reg
    BY <1>2, <1>5 DEF access_pointer, slot
  <2>3. PointerStored(r.cpu, r.cur, r.ptr)
    BY <1>1, <1>3, <1>5, <2>1, <2>2, StorePointer
  <2>4. InCall(t)'
    BY <1>2, <1>3, <1>5, <2>2, <2>3 DEF InCall, slot, PointerStored
  <2>5. SameStacks
    BY <1>1, <1>3, <1>5, <2>3, AboveTop DEF has_room_or_object
  <2>6. \A u \in Thread : u = t
    BY DEF SingleThread
  <2> QED
    BY <1>1, <1>2, <1>4, <2>4, <2>5, <2>6 DEF Alone, Seen, Quiet, SameHands
<1>6. CASE op[t] = "pop"
  <2>1. /\ reg' = [reg EXCEPT ![t]["ptr"] = slab[r.cpu].pointers[r.cur - 1]]
        /\ slab' = slab
    BY <1>2, <1>6 DEF access_pointer, slot, SetReg
  <2>2. /\ reg'[t].cpu = r.cpu /\ reg'[t].cur = r.cur
        /\ reg'[t].ptr = slab[r.cpu].pointers[r.cur - 1]
    BY <1>1, <2>1 DEF TypeOK
  <2>3. InCall(t)'
    BY <1>2, <1>3, <1>6, <2>1, <2>2 DEF InCall, slot
  <2> QED
    BY <1>1, <1>2, <1>4, <2>1, <2>3, AloneQuiet
<1> QED
  BY <1>3, <1>5, <1>6

(* The store of the count is the commit, on either path.                   *)
LEMMA AloneStore ==
    ASSUME SingleThread, Alone, NEW t \in Thread,
           rseq_commit(t) \/ fallback_store(t)
    PROVE  Alone' /\ Seen
<1> DEFINE r == reg[t]
           n == IF op[t] = "push" THEN r.cur + 1 ELSE r.cur - 1
<1>1. TypeOK /\ InCall(t) /\ ThreadBounds(t) /\ Bounds'
  BY StoreBounds DEF Alone, Bounds
<1>2. /\ pc[t] \in Accessed /\ slab' = [slab EXCEPT ![r.cpu].current = n]
      /\ UNCHANGED repeated
  BY DEF rseq_commit, fallback_store, store_current, Accessed
<1>3. /\ r.cpu \in CPU /\ r.cur \in 0 .. Capacity
      /\ r.cur = slab[r.cpu].current
      /\ has_room_or_object(op[t], r.cur)
      /\ op[t] \in {"push", "pop"}
      /\ op[t] = "push" => r.ptr \in hand[t]
      /\ r.ptr \in Ptr
      /\ slab[r.cpu].pointers[slot(op[t], r.cur)] = r.ptr
  BY <1>1, <1>2 DEF InCall, ThreadBounds, TypeOK, HasCpu, Checked, HasCount,
     Accessed
<1>4. /\ \A d \in CPU : slab'[d].pointers = slab[d].pointers
      /\ slab'[r.cpu].current = n
      /\ \A d \in CPU \ {r.cpu} : slab'[d] = slab[d]
  BY <1>1, <1>2, <1>3 DEF TypeOK
<1>5. EffectiveHand(t) = hand[t]
  BY <1>2 DEF EffectiveHand, Committed, Accessed
<1>6. InCall(t)' /\ EffectiveHand(t)' = IF op[t] = "push" THEN hand[t] \ {r.ptr}
                                        ELSE hand[t] \cup {r.ptr}
  <2>1. CASE rseq_commit(t)
    <3>1. pc'[t] = "clear" /\ UNCHANGED <<op, reg, hand>>
      BY <1>1, <2>1 DEF rseq_commit, SetPc, TypeOK
    <3> QED
      BY <1>3, <3>1 DEF InCall, HasCount, Accessed, EffectiveHand, Committed
  <2>2. CASE fallback_store(t)
    <3>1. /\ pc'[t] = "idle"
          /\ hand'[t] = IF op[t] = "push" THEN hand[t] \ {r.ptr}
                        ELSE hand[t] \cup {r.ptr}
      BY <1>1, <2>2 DEF fallback_store, returns, SetPc, TypeOK
    <3> QED
      BY <3>1 DEF InCall, HasCount, Accessed, EffectiveHand, Committed
  <2> QED
    BY <2>1, <2>2
<1>7. Pushes(t, r.cpu, r.ptr) \/ Pops(t, r.cpu, r.ptr)
  <2>1. CASE op[t] = "push"
    <3>1. r.cur < Capacity /\ n = r.cur + 1 /\ slot(op[t], r.cur) = r.cur
      BY <1>3, <2>1 DEF has_room_or_object, slot
    <3> HIDE DEF n, r
    <3> QED
      BY <1>3, <1>4, <1>5, <1>6, <2>1, <3>1 DEF Pushes
  <2>2. CASE op[t] = "pop"
    <3>1. r.cur > 0 /\ n = r.cur - 1 /\ slot(op[t], r.cur) = r.cur - 1
      BY <1>3, <2>2 DEF has_room_or_object, slot
    <3> HIDE DEF n, r
    <3> QED
      BY <1>3, <1>4, <1>5, <1>6, <2>2, <3>1 DEF Pops
  <2> QED
    BY <1>3, <2>1, <2>2
<1>8. \A u \in Thread : u = t
  BY DEF SingleThread
<1>9. CommitsOn(t, r.cpu, r.ptr)
  BY <1>2, <1>4, <1>7, <1>8 DEF CommitsOn
<1> QED
  BY <1>1, <1>3, <1>6, <1>8, <1>9 DEF Alone, Seen

LEMMA NextAlone ==
    ASSUME SingleThread, Alone, [Next]_vars
    PROVE  Alone' /\ Seen
<1>1. Bounds'
  BY NextBounds DEF Alone
<1>2. CASE UNCHANGED vars
  <2>1. \A t \in Thread : InCall(t)'
    BY <1>2 DEF vars, Alone, InCall, slot
  <2>2. Quiet
    BY <1>2 DEF vars, Quiet, SameStacks, StackOf, SameHands, EffectiveHand,
       Committed
  <2> QED
    BY <1>1, <2>1, <2>2 DEF Alone, Seen
<1>3. ASSUME NEW t \in Thread, NEW c \in CPU, instruction(t, c)
      PROVE  Alone' /\ Seen
  BY <1>1, <1>3, AloneLocal, AloneEnds, AloneAccess, AloneStore DEF instruction
<1>4. ASSUME NEW t \in Thread, NEW c \in CPU,
             \/ schedule(t, c) \/ preempt(t, c) \/ call_pop(t)
             \/ \E p \in hand[t] : call_push(t, p)
      PROVE  Alone' /\ Seen
  BY <1>1, <1>4, AloneLocal, AlonePreempted
<1> QED
  BY <1>2, <1>3, <1>4 DEF Next

(* Nothing that a single thread has read from a slab goes stale, also when *)
(* the fallback is preempted and resumes on another CPU.                   *)
THEOREM AloneHolds ==
    ASSUME SingleThread
    PROVE  Spec => []Alone
<1>1. Init => Alone
  BY InitBounds DEF Init, Alone, InCall, HasCount, Accessed
<1>2. Alone /\ [Next]_vars => Alone'
  BY NextAlone
<1> QED
  BY <1>1, <1>2, PTL DEF Spec

(* A single thread's pushes and pops are those of the stacks, also where   *)
(* rseq is unavailable or the CPU has no slab; only its sections repeat.   *)
THEOREM AloneImplementsStacks ==
    ASSUME SingleThread
    PROVE  Spec => ImplementsStacks
<1>1. Alone /\ [Next]_vars => [Stacks!SpecNext]_(Stacks!specvars)
  BY NextAlone, SeenImplements DEF Alone
<1> QED
  BY <1>1, InitImplements, AloneHolds, PTL
     DEF Spec, ImplementsStacks, Stacks!StackSpec

(* A single thread on the fallback neither loses a pointer nor gets one    *)
(* twice: the double allocation there takes two threads.                   *)
THEOREM AloneOnePlace ==
    ASSUME SingleThread
    PROVE  Spec => []OnePlace
<1>1. Alone /\ OnePlace /\ [Next]_vars => OnePlace'
  BY NextAlone, SeenOnePlace DEF Alone
<1> QED
  BY <1>1, InitOnePlace, AloneHolds, PTL DEF Spec

(* Without rseq nothing is ever repeated.                                  *)
NoSections ==
    /\ \A t \in Thread :
          pc[t] \in {"idle", "get_cpu", "fb_load", "fb_pointer", "fb_store"}
    /\ repeated = {}

LEMMA NextNoSections ==
    ASSUME ~RseqAvailable, Bounds, NoSections, [Next]_vars
    PROVE  NoSections'
<1>1. CASE UNCHANGED vars
  BY <1>1 DEF vars, NoSections
<1>2. ASSUME NEW t \in Thread, NEW c \in CPU,
             \/ schedule(t, c) \/ preempt(t, c) \/ instruction(t, c)
             \/ call_pop(t) \/ \E p \in hand[t] : call_push(t, p)
      PROVE  NoSections'
  <2> DEFINE Fallback ==
        {"idle", "get_cpu", "fb_load", "fb_pointer", "fb_store"}
  <2>1. pc \in [Thread -> Label] /\ pc[t] \in Fallback
    BY DEF Bounds, TypeOK, NoSections
  <2>2. CASE schedule(t, c)
    BY <2>2 DEF schedule, NoSections
  <2>3. CASE preempt(t, c)
    <3>1. resume_at(t) = pc[t] /\ ~Repeats(t)
      BY <2>1 DEF resume_at, Repeats, Section
    <3> QED
      BY <2>1, <2>3, <3>1 DEF preempt, SetPc, NoSections
  <2>4. CASE call_pop(t) \/ \E p \in hand[t] : call_push(t, p)
    BY <2>1, <2>4 DEF call_pop, call_push, first_instruction, SetPc, NoSections
  <2>5. CASE instruction(t, c)
    <3>1. \/ fallback_get_slab(t, c) \/ fallback_load(t)
          \/ fallback_access_pointer(t) \/ fallback_store(t)
      BY <2>1, <2>5 DEF instruction, set_rseq_cs, load_cpu_start, load_current,
         check_cpu, rseq_access_pointer, rseq_commit, clear_rseq_cs,
         rseq_refuse, rseq_out_of_range
    <3>2. (\E l \in Fallback : SetPc(t, l)) /\ UNCHANGED repeated
      BY <3>1 DEF fallback_get_slab, fallback_load, fallback_access_pointer,
         fallback_store, returns
    <3> QED
      BY <2>1, <3>2 DEF SetPc, NoSections
  <2> QED
    BY <1>2, <2>2, <2>3, <2>4, <2>5
<1> QED
  BY <1>1, <1>2 DEF Next

(* A process without rseq and with one thread has every pointer in one     *)
(* place, with no exception: nothing is ever repeated on the fallback.     *)
THEOREM FallbackAlone ==
    ASSUME SingleThread, ~RseqAvailable
    PROVE  Spec => [](OnePlace /\ repeated = {})
<1>1. Init => NoSections
  BY DEF Init, NoSections
<1>2. Bounds /\ NoSections /\ [Next]_vars => NoSections'
  BY NextNoSections
<1>3. NoSections => repeated = {}
  BY DEF NoSections
<1> QED
  BY <1>1, <1>2, <1>3, BoundsHold, AloneOnePlace, PTL DEF Spec

=============================================================================
