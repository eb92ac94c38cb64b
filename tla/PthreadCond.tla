---------------------------- MODULE PthreadCond ----------------------------
(***************************************************************************)
(* pthread_cond_t (nptl/pthread_cond.h): wait, signal, broadcast, destroy, *)
(* with the two waiter groups G1 and G2, their signal counts, group        *)
(* references and quiescing, and the repair of a stolen signal.            *)
(*                                                                         *)
(* One action is one atomic access to the condition variable or one system *)
(* call; plain accesses under the inner lock go with the atomic access     *)
(* they precede or follow. The words keep the code's encoding (units of 2, *)
(* LSB flags). The user mutex and the inner lock are AbstractLock, which   *)
(* ThreeStateLock implements; futex calls are those of module Futex. A     *)
(* weak CAS that fails although the values agree leaves its thread where   *)
(* it already was one step before, so it adds no state and is left out.    *)
(*                                                                         *)
(* The clients are threads that lock the mutex, wait any number of times   *)
(* and unlock (Waiters), and threads that signal, broadcast and destroy    *)
(* (Signalers), inside the critical section or outside: cv.md discusses    *)
(* both placements of the call.                                            *)
(***************************************************************************)
EXTENDS Integers, FiniteSets, FiniteSetsExt, Futex

CONSTANTS
  Waiters,    \* threads that call pthread_cond_wait
  Signalers,  \* threads that make the other calls
  Calls,      \* the calls they make: "signal", "broadcast", "destroy"
  InsideLock, \* TRUE: they hold the mutex while they signal or broadcast
  U32,        \* the number of values of a uint32_t (2^32 in the code)
  MaxWaits,   \* bound: how many waits are begun
  MaxBusy     \* bound: how many threads are busy when a call begins

ASSUME CondAssumption ==
  /\ Threads = Waiters \cup Signalers
  /\ Waiters \cap Signalers = {} /\ IsFiniteSet(Threads)
  /\ Calls \subseteq {"signal", "broadcast", "destroy"}
  /\ InsideLock \in BOOLEAN
  /\ U32 \in Nat \ {0} /\ U32 % 8 = 0
  /\ MaxWaits \in Nat /\ MaxBusy \in Nat
  /\ NoWord \notin Threads
  /\ Words = ({"g_signals", "g_refs"} \X {0, 1}) \cup {<<"wrefs", 0>>}

VARIABLES
  cond,      \* struct pthread_cond_t; orig_size is g1_orig_size above the lock
  inner,     \* the owner of the inner lock in g1_orig_size
  mutex,     \* the owner of the user's mutex
  dead,      \* pthread_cond_destroy: "live", "destroying", "dead"
  pc,        \* where each thread is
  loc,       \* the locals: seq, g (g1), val (the word last loaded: signals, s,
             \* r or wrefs), base (a g1_start the thread goes on to use), ctl
             \* (where dec_grefs returns to; the call of a signaler)
  credit,    \* history: waiters that calls made so far still have to let go
  repaired   \* history: a waiter has put a signal back

vars == <<cond, inner, mutex, dead, pc, loc, credit, repaired, asleep>>
history == <<credit, repaired>>

_SeqStep == 2
_SignalsStep == 2
_GRefsStep == 2
_GRefsWake == 1
_DestroyingBit == 4
_WaitersRefStep == 8
_OrigSizeStep == 4  \* the code shifts by 2

_GAnother(i) == 1 - i
_G2(w) == w % 2
_Seq(w) == w \div 2
_WaitersRef(w) == w \div 8
Destroying(w) == (w \div 4) % 2 = 1
Closed(s) == s % 2 = 1
SetLSB(w) == IF w % 2 = 1 THEN w ELSE w + 1
ClearLSB(w) == IF w % 2 = 1 THEN w - 1 ELSE w

\* The addresses given to futex_syscall.
sig(i) == <<"g_signals", i>>
ref(i) == <<"g_refs", i>>
wref == <<"wrefs", 0>>

WaitPCs == {"held", "wref", "unlock", "load", "test", "recheck",
            "recheck_start", "futex", "drop", "drop_clear", "drop_wake",
            "stolen", "undo_load", "undo_check", "undo_cas", "undo_wake",
            "done", "dtor_wake", "relock"}
SignalPCs == {"s_lock", "s_seq", "b_post", "b_wake", "q_check", "q_close",
              "q_refs", "q_flag", "q_wait", "q_advance", "q_reopen", "q_flip",
              "post", "s_unlock", "s_wake", "d_test", "d_load"}

NoLocals == [seq |-> 0, g |-> 0, val |-> 0, base |-> 0, ctl |-> ""]

TypeOK ==
  /\ cond \in [wseq : Nat, g1_start : Nat, orig_size : 0..(U32 \div 4 - 1),
               wrefs : 0..(U32 - 1), g_refs : [{0, 1} -> 0..(U32 - 1)],
               g_size : [{0, 1} -> 0..(U32 - 1)],
               g_signals : [{0, 1} -> 0..(U32 - 1)]]
  /\ inner \in Signalers \cup {NoWord}
  /\ mutex \in Threads \cup {NoWord}
  /\ dead \in {"live", "destroying", "dead"}
  /\ pc \in [Threads -> {"user"} \cup WaitPCs \cup SignalPCs]
  /\ loc \in [Threads -> [seq : Nat, g : {0, 1}, val : 0..(U32 - 1), base : Nat,
                          ctl : {"", "done"} \cup Calls]]
  /\ credit \in Nat
  /\ repaired \in BOOLEAN
  /\ FutexTypeOK

pthread_cond_init ==
  [wseq |-> 0, g1_start |-> 0, orig_size |-> 0, wrefs |-> 0,
   g_refs |-> [i \in {0, 1} |-> 0],
   g_size |-> [i \in {0, 1} |-> 0],
   g_signals |-> [i \in {0, 1} |-> 0]]

Init ==
  /\ cond = pthread_cond_init
  /\ inner = NoWord /\ mutex = NoWord /\ dead = "live"
  /\ pc = [t \in Threads |-> "user"]
  /\ loc = [t \in Threads |-> NoLocals]
  /\ credit = 0 /\ repaired = FALSE
  /\ FutexInit

-----------------------------------------------------------------------------
(* What the actions are built from *)

Goto(t, from, to) == pc[t] = from /\ pc' = [pc EXCEPT ![t] = to]

G(t) == loc[t].g
Signals(t) == cond.g_signals[G(t)]

\* A step that only the calling thread and the struct take part in.
OnlyCond == UNCHANGED <<inner, mutex, dead, loc, history, asleep>>

\* A step that only loads, into the locals or into a decision.
OnlyLocals == UNCHANGED <<cond, inner, mutex, dead, history, asleep>>

\* A system call on the futexes of the struct.
OnlyFutex == UNCHANGED <<cond, inner, mutex, dead, loc, history>>

\* The bound on threads that are in the middle of something at once: it limits
\* when a client begins a call, never a step inside one.
Busy == {t \in Threads : pc[t] # "user" /\ Awake(t)}
MayBegin(t) == Cardinality(Busy \ {t}) < MaxBusy

\* The threads blocked on the condition variable: they have released the
\* mutex, and no signal and no closed group has let them go.
BlockedPCs == {"load", "test", "recheck", "recheck_start", "futex", "drop",
               "drop_clear", "drop_wake"}
Blocked == {t \in Waiters : pc[t] \in BlockedPCs /\ loc[t].ctl # "done"}

\* A blocked waiter is let go.
Released ==
  /\ credit' = IF credit > 0 THEN credit - 1 ELSE 0
  /\ UNCHANGED repaired

-----------------------------------------------------------------------------
(* pthread_cond_wait, stages 1 to 3 *)

\* The client takes its mutex, and releases it without or after waiting.
ClientLock(t) ==
  /\ Goto(t, "user", "held")
  /\ dead = "live" /\ mutex = NoWord /\ MayBegin(t) /\ _Seq(cond.wseq) < MaxWaits
  /\ mutex' = t
  /\ UNCHANGED <<cond, inner, dead, loc, history, asleep>>

ClientUnlock(t) ==
  /\ Goto(t, "held", "user")
  /\ mutex' = NoWord
  /\ UNCHANGED <<cond, inner, dead, loc, history, asleep>>

\* Stage 1: take a position and with it a group, the current G2.
WaitSeq(t) ==
  /\ Goto(t, "held", "wref")
  /\ dead = "live" /\ MayBegin(t) /\ _Seq(cond.wseq) < MaxWaits
  /\ cond' = [cond EXCEPT !.wseq = @ + _SeqStep]
  /\ loc' = [loc EXCEPT ![t].seq = _Seq(cond.wseq), ![t].g = _G2(cond.wseq)]
  /\ UNCHANGED <<inner, mutex, dead, history, asleep>>

\* Stage 2: count the waiter, for destroy and for the fast path of signal.
WaitRef(t) ==
  /\ Goto(t, "wref", "unlock")
  /\ cond' = [cond EXCEPT !.wrefs = (@ + _WaitersRefStep) % U32]
  /\ OnlyCond

\* Stage 3
WaitUnlock(t) ==
  /\ Goto(t, "unlock", "load")
  /\ mutex' = NoWord
  /\ UNCHANGED <<cond, inner, dead, loc, history, asleep>>

-----------------------------------------------------------------------------
(* pthread_cond_wait, stage 4: consume a signal or block *)

LoadSignals(t) ==
  /\ Goto(t, "load", "test")
  /\ loc' = [loc EXCEPT ![t].val = Signals(t)]
  /\ OnlyLocals

\* In a closed group.
TestClosed(t) ==
  /\ Closed(loc[t].val)
  /\ Goto(t, "test", "done")
  /\ loc' = [loc EXCEPT ![t].val = 0]
  /\ Released
  /\ UNCHANGED <<cond, inner, mutex, dead, asleep>>

\* Mutant: the test for "no signals" is missing.
TakeSignalUnchecked(t) ==
  /\ Goto(t, "test", "stolen")
  /\ ~Closed(loc[t].val)
  /\ Signals(t) = loc[t].val
  /\ cond' = [cond EXCEPT !.g_signals[G(t)] = loc[t].val - _SignalsStep]
  /\ loc' = [loc EXCEPT ![t].val = 0]
  /\ Released
  /\ UNCHANGED <<inner, mutex, dead, asleep>>

\* A signal is available: the CAS takes it, ...
TakeSignal(t) ==
  /\ Goto(t, "test", "stolen")
  /\ ~Closed(loc[t].val) /\ loc[t].val # 0
  /\ Signals(t) = loc[t].val
  /\ cond' = [cond EXCEPT !.g_signals[G(t)] = loc[t].val - _SignalsStep]
  /\ loc' = [loc EXCEPT ![t].val = 0]
  /\ Released
  /\ UNCHANGED <<inner, mutex, dead, asleep>>

\* ... or fails and loads the current value.
TakeFails(t) ==
  /\ Goto(t, "test", "test")
  /\ ~Closed(loc[t].val) /\ loc[t].val # 0
  /\ Signals(t) # loc[t].val
  /\ loc' = [loc EXCEPT ![t].val = Signals(t)]
  /\ OnlyLocals

\* No signals: take a group reference ...
TakeGroupRef(t) ==
  /\ Goto(t, "test", "recheck")
  /\ loc[t].val = 0
  /\ cond' = [cond EXCEPT !.g_refs[G(t)] = (@ + _GRefsStep) % U32]
  /\ OnlyCond

\* ... and look again: a closed group, or one closed so long ago that its slot
\* is open again, ends the wait.
Recheck(t) ==
  /\ Goto(t, "recheck", IF Closed(Signals(t)) THEN "drop" ELSE "recheck_start")
  /\ IF Closed(Signals(t))
     THEN loc' = [loc EXCEPT ![t].ctl = "done"] /\ Released
     ELSE UNCHANGED <<loc, history>>
  /\ UNCHANGED <<cond, inner, mutex, dead, asleep>>

\* seq < (g1_start >> 1)
Outdated(t) == loc[t].seq < _Seq(cond.g1_start)

RecheckStart(t) ==
  /\ Goto(t, "recheck_start", IF Outdated(t) THEN "drop" ELSE "futex")
  /\ IF Outdated(t)
     THEN loc' = [loc EXCEPT ![t].ctl = "done"] /\ Released
     ELSE UNCHANGED <<loc, history>>
  /\ UNCHANGED <<cond, inner, mutex, dead, asleep>>

\* Mutant: FUTEX_WAIT is given a fresh load of the word instead of 0.
BlockOnFreshValue(t) ==
  /\ Goto(t, "futex", "drop")
  /\ FutexWait(t, sig(G(t)), TRUE)
  /\ OnlyFutex

\* futex_syscall(SYS_futex, &cond->g_signals[g], FUTEX_WAIT, 0u)
BlockOnGroup(t) ==
  /\ Goto(t, "futex", "drop")
  /\ FutexWait(t, sig(G(t)), Signals(t) = 0)
  /\ OnlyFutex

\* dec_grefs returns to the caller: to the end of the wait or to the reload.
AfterDrop(t) == IF loc[t].ctl = "done" THEN "done" ELSE "load"

\* Mutant: the last reference is recognised only while nobody asked for a
\* wakeup.
DropGroupRefNoFlag(t) ==
  /\ Awake(t)
  /\ Goto(t, "drop", IF cond.g_refs[G(t)] = _GRefsStep
                     THEN "drop_clear" ELSE AfterDrop(t))
  /\ cond' = [cond EXCEPT !.g_refs[G(t)] = (@ - _GRefsStep) % U32]
  /\ OnlyCond

\* dec_grefs: the last one out wakes the signaler that quiesces the group.
DropGroupRef(t) ==
  /\ Awake(t)
  /\ Goto(t, "drop", IF cond.g_refs[G(t)] = _GRefsStep + _GRefsWake
                     THEN "drop_clear" ELSE AfterDrop(t))
  /\ cond' = [cond EXCEPT !.g_refs[G(t)] = (@ - _GRefsStep) % U32]
  /\ OnlyCond

DropClearFlag(t) ==
  /\ Goto(t, "drop_clear", "drop_wake")
  /\ cond' = [cond EXCEPT !.g_refs[G(t)] = ClearLSB(@)]
  /\ OnlyCond

DropWake(t) ==
  /\ Goto(t, "drop_wake", AfterDrop(t))
  /\ FutexWakeAll(ref(G(t)))
  /\ OnlyFutex

-----------------------------------------------------------------------------
(* pthread_cond_wait, the repair of a stolen signal *)

\* Our group is closed, and the current G1 uses its slot: we may have taken a
\* signal meant for that G1.
MayHaveStolen(t) == Outdated(t) /\ _GAnother(_G2(cond.g1_start)) = G(t)

TestStolen(t) ==
  /\ Goto(t, "stolen", IF MayHaveStolen(t) THEN "undo_load" ELSE "done")
  /\ loc' = [loc EXCEPT ![t].base = IF MayHaveStolen(t) THEN cond.g1_start ELSE 0]
  /\ OnlyLocals

UndoLoad(t) ==
  /\ Goto(t, "undo_load", "undo_check")
  /\ loc' = [loc EXCEPT ![t].val = Signals(t)]
  /\ OnlyLocals

\* The loop condition, and the closed flag in the value last loaded.
UndoCheck(t) ==
  /\ Goto(t, "undo_check", IF cond.g1_start # loc[t].base THEN "done"
                           ELSE IF Closed(loc[t].val) THEN "undo_wake"
                           ELSE "undo_cas")
  /\ UNCHANGED loc
  /\ OnlyLocals

UndoAdd(t) ==
  /\ Goto(t, "undo_cas", "undo_wake")
  /\ Signals(t) = loc[t].val
  /\ cond' = [cond EXCEPT !.g_signals[G(t)] = (@ + _SignalsStep) % U32]
  /\ repaired' = TRUE
  /\ UNCHANGED <<inner, mutex, dead, loc, credit, asleep>>

UndoAddFails(t) ==
  /\ Goto(t, "undo_cas", "undo_check")
  /\ Signals(t) # loc[t].val
  /\ loc' = [loc EXCEPT ![t].val = Signals(t)]
  /\ OnlyLocals

UndoWake(t) ==
  /\ Goto(t, "undo_wake", "done")
  /\ FutexWakeOne(sig(G(t)))
  /\ OnlyFutex

-----------------------------------------------------------------------------
(* pthread_cond_wait, stage 5 and the relock *)

\* Mutant: looks at the count from before its own decrement.
WaitUnrefOld(t) ==
  LET left == (cond.wrefs - _WaitersRefStep) % U32 IN
  /\ Goto(t, "done", IF Destroying(left) /\ _WaitersRef(cond.wrefs) = 0
                     THEN "dtor_wake" ELSE "relock")
  /\ cond' = [cond EXCEPT !.wrefs = left]
  /\ loc' = [loc EXCEPT ![t] = NoLocals]
  /\ UNCHANGED <<inner, mutex, dead, history, asleep>>

\* The waiter reference that is left, and the destroy flag with it.
WaitUnref(t) ==
  LET left == (cond.wrefs - _WaitersRefStep) % U32 IN
  /\ Goto(t, "done", IF Destroying(left) /\ _WaitersRef(left) = 0
                     THEN "dtor_wake" ELSE "relock")
  /\ cond' = [cond EXCEPT !.wrefs = left]
  /\ loc' = [loc EXCEPT ![t] = NoLocals]
  /\ UNCHANGED <<inner, mutex, dead, history, asleep>>

WakeDestroyer(t) ==
  /\ Goto(t, "dtor_wake", "relock")
  /\ FutexWakeAll(wref)
  /\ OnlyFutex

Relock(t) ==
  /\ Goto(t, "relock", "held")
  /\ mutex = NoWord
  /\ mutex' = t
  /\ UNCHANGED <<cond, inner, dead, loc, history, asleep>>

-----------------------------------------------------------------------------
(* pthread_cond_signal and pthread_cond_broadcast *)

\* The client releases its mutex after the call.
Return(s) ==
  /\ mutex' = IF InsideLock THEN NoWord ELSE mutex
  /\ loc' = [loc EXCEPT ![s] = NoLocals]

\* A signal owes one of the blocked waiters its release, a broadcast all.
Owed(call) ==
  IF call = "signal" THEN Min({credit + 1, Cardinality(Blocked)})
  ELSE Cardinality(Blocked)

\* A call that gets past the fast path.
CallWake(s, call) ==
  /\ Goto(s, "user", "s_lock")
  /\ dead = "live" /\ MayBegin(s) /\ _WaitersRef(cond.wrefs) # 0
  /\ InsideLock => mutex = NoWord
  /\ mutex' = IF InsideLock THEN s ELSE mutex
  /\ loc' = [loc EXCEPT ![s].ctl = call]
  /\ credit' = Owed(call)
  /\ UNCHANGED <<cond, inner, dead, repaired, asleep>>

\* The fast path: wrefs says that nobody waits.
CallWakeNobody(s, call) ==
  /\ Goto(s, "user", "user")
  /\ dead = "live" /\ MayBegin(s) /\ _WaitersRef(cond.wrefs) = 0
  /\ InsideLock => mutex = NoWord
  /\ credit' = Owed(call)
  /\ UNCHANGED <<cond, inner, mutex, dead, loc, repaired, asleep>>

InnerLock(s) ==
  /\ Goto(s, "s_lock", "s_seq")
  /\ inner = NoWord
  /\ inner' = s
  /\ UNCHANGED <<cond, mutex, dead, loc, history, asleep>>

\* Load wseq; G1 still has waiters to be signaled, or it may be closed.
LoadSeq(s) ==
  LET g1 == _GAnother(_G2(cond.wseq)) IN
  /\ Goto(s, "s_seq", IF cond.g_size[g1] = 0 THEN "q_check"
                      ELSE IF loc[s].ctl = "signal" THEN "post"
                      ELSE "b_post")
  /\ loc' = [loc EXCEPT ![s].seq = _Seq(cond.wseq), ![s].g = g1]
  /\ OnlyLocals

\* All the signals group i has not been given yet.
GiveAll(i) ==
  [cond EXCEPT !.g_signals[i] = (@ + 2 * cond.g_size[i]) % U32, !.g_size[i] = 0]

GiveOne(i) ==
  [cond EXCEPT !.g_signals[i] = (@ + _SignalsStep) % U32,
               !.g_size[i] = (@ - 1) % U32]

\* broadcast: signal the rest of G1 and wake it before closing it.
BroadcastG1(s) ==
  /\ Goto(s, "b_post", "b_wake")
  /\ cond' = GiveAll(G(s))
  /\ OnlyCond

BroadcastWakeG1(s) ==
  /\ Goto(s, "b_wake", "q_check")
  /\ FutexWakeAll(sig(G(s)))
  /\ OnlyFutex

\* The new G1, or for a signal the old one, is given its signals.
Post(s) ==
  /\ Goto(s, "post", "s_unlock")
  /\ cond' = IF loc[s].ctl = "signal" THEN GiveOne(G(s)) ELSE GiveAll(G(s))
  /\ loc' = [loc EXCEPT ![s].val = 1, ![s].seq = 0, ![s].base = 0]
  /\ UNCHANGED <<inner, mutex, dead, history, asleep>>

\* _InnerUnlock(); val is has_waiters or wake_g2.
InnerUnlock(s) ==
  /\ Goto(s, "s_unlock", IF loc[s].val = 1 THEN "s_wake" ELSE "user")
  /\ inner' = NoWord
  /\ IF loc[s].val = 1 THEN UNCHANGED <<mutex, loc>> ELSE Return(s)
  /\ UNCHANGED <<cond, dead, history, asleep>>

\* Mutant: broadcast wakes one thread as signal does.
WakeG1One(s) ==
  /\ Goto(s, "s_wake", "user")
  /\ FutexWakeOne(sig(G(s)))
  /\ Return(s)
  /\ UNCHANGED <<cond, inner, dead, history>>

\* The wakeup after the inner lock is released.
WakeG1(s) ==
  /\ Goto(s, "s_wake", "user")
  /\ IF loc[s].ctl = "signal" THEN FutexWakeOne(sig(G(s)))
     ELSE FutexWakeAll(sig(G(s)))
  /\ Return(s)
  /\ UNCHANGED <<cond, inner, dead, history>>

-----------------------------------------------------------------------------
(* quiesce_and_switch_g1, under the inner lock *)

\* Positions of G2 seen at seq, given where G1 ends.
G2Size(s, seq) == (seq - loc[s].base) % U32

\* No switch when G2 is empty.
CheckG2(s) ==
  LET end == _Seq(cond.g1_start) + cond.orig_size
      empty == (loc[s].seq - end + cond.g_size[_GAnother(G(s))]) % U32 = 0
  IN /\ Goto(s, "q_check", IF empty THEN "s_unlock" ELSE "q_close")
     /\ loc' = [loc EXCEPT ![s].seq = 0, ![s].base = IF empty THEN 0 ELSE end]
     /\ OnlyLocals

\* Close G1: waiters about to block leave instead.
CloseG1(s) ==
  /\ Goto(s, "q_close", "q_refs")
  /\ cond' = [cond EXCEPT !.g_signals[G(s)] = SetLSB(@)]
  /\ OnlyCond

\* Mutant: G1 is not quiesced.
LoadRefsIgnored(s) ==
  /\ Goto(s, "q_refs", "q_advance")
  /\ UNCHANGED loc
  /\ OnlyLocals

\* Quiesce: load the references of the group; none left ends the loop.
LoadRefs(s) ==
  /\ Awake(s)
  /\ Goto(s, "q_refs", IF cond.g_refs[G(s)] \div 2 = 0 THEN "q_advance"
                       ELSE "q_flag")
  /\ UNCHANGED loc
  /\ OnlyLocals

\* Ask for a wakeup, and sleep if references are left.
RequestWake(s) ==
  LET r == SetLSB(cond.g_refs[G(s)]) IN
  /\ Goto(s, "q_flag", IF r \div 2 = 0 THEN "q_refs" ELSE "q_wait")
  /\ cond' = [cond EXCEPT !.g_refs[G(s)] = r]
  /\ loc' = [loc EXCEPT ![s].val = IF r \div 2 = 0 THEN 0 ELSE r]
  /\ UNCHANGED <<inner, mutex, dead, history, asleep>>

WaitRefs(s) ==
  /\ Goto(s, "q_wait", "q_refs")
  /\ FutexWait(s, ref(G(s)), cond.g_refs[G(s)] = loc[s].val)
  /\ loc' = [loc EXCEPT ![s].val = 0]
  /\ UNCHANGED <<cond, inner, mutex, dead, history>>

\* Mutant: the LSB of g1_start is not adjusted.
AdvanceG1StartEven(s) ==
  /\ Goto(s, "q_advance", "q_reopen")
  /\ cond' = [cond EXCEPT !.g1_start = @ + 2 * cond.orig_size]
  /\ OnlyCond

\* g1_start moves past the closed G1; the sum is one of uint32_t.
AdvanceG1Start(s) ==
  /\ Goto(s, "q_advance", "q_reopen")
  /\ cond' = [cond EXCEPT !.g1_start =
                @ + ((2 * cond.orig_size + (IF G(s) = 1 THEN 1 ELSE -1)) % U32)]
  /\ OnlyCond

\* The slot is a fresh G2: waiters can block on it again.
ReopenSlot(s) ==
  /\ Goto(s, "q_reopen", "q_flip")
  /\ cond' = [cond EXCEPT !.g_signals[G(s)] = 0]
  /\ OnlyCond

\* Flip the G2 index in wseq; the waiters up to now are the new G1. The sizes
\* belong to the holder of the inner lock.
SwitchGroups(s) ==
  LET g1 == _GAnother(G(s))
      orig == G2Size(s, _Seq(cond.wseq))
      size == (cond.g_size[g1] + orig) % U32
  IN /\ Goto(s, "q_flip", IF size # 0 THEN "post" ELSE "s_unlock")
     /\ cond' = [cond EXCEPT !.wseq = _Seq(@) * 2 + G(s),
                             !.g_size[g1] = size,
                             !.orig_size = ((orig * _OrigSizeStep) % U32)
                                             \div _OrigSizeStep]
     /\ loc' = [loc EXCEPT ![s].g = g1, ![s].base = 0]
     /\ UNCHANGED <<inner, mutex, dead, history, asleep>>

-----------------------------------------------------------------------------
(* pthread_cond_destroy *)

\* The contract of the call: no other call is running or follows, and every
\* waiter that is still blocked has already been signaled, as far as the calls
\* made tell the client.
MayDestroy(s) ==
  /\ dead = "live"
  /\ \A u \in Signalers \ {s} : pc[u] = "user"
  /\ \A t \in Waiters : pc[t] \notin {"wref", "unlock"}
  /\ credit >= Cardinality(Blocked)

CallDestroy(s) ==
  LET w == IF Destroying(cond.wrefs) THEN cond.wrefs
           ELSE cond.wrefs + _DestroyingBit
  IN /\ MayDestroy(s)
     /\ Goto(s, "user", "d_test")
     /\ dead' = "destroying"
     /\ cond' = [cond EXCEPT !.wrefs = w]
     /\ loc' = [loc EXCEPT ![s].val = w, ![s].ctl = "destroy"]
     /\ UNCHANGED <<inner, mutex, history, asleep>>

DestroyWait(s) ==
  /\ Goto(s, "d_test", "d_load")
  /\ _WaitersRef(loc[s].val) # 0
  /\ FutexWait(s, wref, cond.wrefs = loc[s].val)
  /\ OnlyFutex

\* Mutant: one FUTEX_WAIT instead of a loop.
DestroyOnce(s) ==
  /\ Awake(s)
  /\ Goto(s, "d_load", "user")
  /\ dead' = "dead"
  /\ loc' = [loc EXCEPT ![s] = NoLocals]
  /\ UNCHANGED <<cond, inner, mutex, history, asleep>>

\* Back to the loop condition with the current count.
DestroyReload(s) ==
  /\ Awake(s)
  /\ Goto(s, "d_load", "d_test")
  /\ loc' = [loc EXCEPT ![s].val = cond.wrefs]
  /\ OnlyLocals

\* No waiter is left: the caller may free the memory.
DestroyReturn(s) ==
  /\ Goto(s, "d_test", "user")
  /\ _WaitersRef(loc[s].val) = 0
  /\ dead' = "dead"
  /\ loc' = [loc EXCEPT ![s] = NoLocals]
  /\ UNCHANGED <<cond, inner, mutex, history, asleep>>

-----------------------------------------------------------------------------
\* The steps of a thread inside pthread_cond_wait, up to the end of the
\* critical section it returns into.
WaitStep(t) ==
  \/ WaitRef(t) \/ WaitUnlock(t) \/ LoadSignals(t) \/ TestClosed(t)
  \/ TakeSignal(t) \/ TakeFails(t) \/ TakeGroupRef(t) \/ Recheck(t)
  \/ RecheckStart(t) \/ BlockOnGroup(t) \/ DropGroupRef(t) \/ DropClearFlag(t)
  \/ DropWake(t) \/ TestStolen(t) \/ UndoLoad(t) \/ UndoCheck(t) \/ UndoAdd(t)
  \/ UndoAddFails(t) \/ UndoWake(t) \/ WaitUnref(t) \/ WakeDestroyer(t)
  \/ Relock(t) \/ ClientUnlock(t)

\* The steps of a thread inside signal or broadcast.
SignalStep(s) ==
  \/ InnerLock(s) \/ LoadSeq(s) \/ BroadcastG1(s) \/ BroadcastWakeG1(s)
  \/ CheckG2(s) \/ CloseG1(s) \/ LoadRefs(s) \/ RequestWake(s) \/ WaitRefs(s)
  \/ AdvanceG1Start(s) \/ ReopenSlot(s) \/ SwitchGroups(s) \/ Post(s)
  \/ InnerUnlock(s) \/ WakeG1(s)

DestroyStep(s) == DestroyWait(s) \/ DestroyReload(s) \/ DestroyReturn(s)

SignalerCall(s) ==
  \/ \E call \in Calls \ {"destroy"} : CallWake(s, call) \/ CallWakeNobody(s, call)
  \/ "destroy" \in Calls /\ CallDestroy(s)

Next ==
  \/ \E t \in Waiters : ClientLock(t) \/ WaitSeq(t) \/ WaitStep(t)
  \/ \E s \in Signalers : SignalerCall(s) \/ SignalStep(s) \/ DestroyStep(s)

Spec == Init /\ [][Next]_vars

(***************************************************************************)
(* Fairness: a thread inside a call keeps running, and a client that holds *)
(* the mutex releases it or waits. Nothing makes a thread wait or signal.  *)
(***************************************************************************)
FairSpec ==
  /\ Spec
  /\ \A t \in Waiters : WF_vars(WaitStep(t))
  /\ \A s \in Signalers : WF_vars(SignalStep(s)) /\ WF_vars(DestroyStep(s))

-----------------------------------------------------------------------------
\* Quiescing does its work: no thread sleeps on a slot for a group that is
\* closed and gone, where the wakeups belong to a newer group's waiters
\* (pthread_cond.h:111 and :181-188).
NoStaleSleeper ==
  \A t \in Waiters :
    asleep[t] = sig(G(t)) => loc[t].seq >= _Seq(cond.g1_start)

\* g1_start, wseq and the group size tell the same story whenever the inner
\* lock is free: G1 ends where the positions of G2 begin, both counters name
\* the same G2, and G1 can not be owed more signals than it had waiters. With
\* the wrong sum in a uint32_t g1_start would be off by 2^32.
GroupsConsistent ==
  inner = NoWord =>
    /\ _G2(cond.wseq) = _G2(cond.g1_start)
    /\ _Seq(cond.g1_start) + cond.orig_size <= _Seq(cond.wseq)
    /\ cond.g_size[_GAnother(_G2(cond.wseq))] <= cond.orig_size
    /\ cond.g_size[_G2(cond.wseq)] = 0

\* Nothing is running: no call of a signaler, and every waiter is outside or
\* asleep.
Quiescent ==
  /\ \A s \in Signalers : pc[s] = "user"
  /\ \A t \in Waiters : pc[t] \in {"user", "held"} \/ ~Awake(t)

\* A signal wakes a waiter: when everything has come to rest, as many of the
\* blocked threads have been let go as the calls made owe them.
NoLostSignal == Quiescent => credit = 0

\* The repair of a stolen signal is the only way to lose one.
OnlyRepairLoses == Quiescent /\ credit > 0 => repaired

\* After pthread_cond_destroy has returned, and the memory may be gone, no
\* waiter is on its way to an access of the condition variable.
DestroyedUntouched ==
  dead = "dead" =>
    \A t \in Waiters : pc[t] \in {"user", "held", "dtor_wake", "relock"}

\* Everybody blocked when a broadcast begins gets out.
BroadcastWakesAll ==
  \A t \in Waiters, s \in Signalers :
    (pc[s] = "s_lock" /\ loc[s].ctl = "broadcast" /\ t \in Blocked)
      ~> (t \notin Blocked)

\* A signaler never waits forever for the references of G1 to go.
QuiesceEnds ==
  \A s \in Signalers : (pc[s] = "q_refs") ~> (pc[s] = "q_advance")

\* pthread_cond_destroy returns: called as it may be, with every blocked waiter
\* signaled, it does not wait for ever unless a waiter had put a signal back
\* before and somebody is still blocked. Then a signal may have been lost
\* (NoLostSignal); the client can not know, the waiter stays counted in wrefs,
\* and destroy sleeps on that word (pthread_cond.h:63-66).
DestroyReturns ==
  (dead = "destroying" /\ (repaired => Blocked = {})) ~> (dead = "dead")

=============================================================================
