------------------------- MODULE PthreadCondProofs -------------------------
(***************************************************************************)
(* Theorems about PthreadCond, for any number of threads and any width of  *)
(* uint32_t.                                                               *)
(***************************************************************************)
EXTENDS PthreadCond, FiniteSetTheorems, TLAPS

\* A waiter that has its position and has not left the condition variable yet.
WaitingPCs == {"wref", "unlock", "load", "test", "recheck", "recheck_start",
               "futex", "drop", "drop_clear", "drop_wake", "stolen", "undo_load",
               "undo_check", "undo_cas", "undo_wake", "done"}

\* A signaler between _InnerLock and _InnerUnlock.
InnerPCs == {"s_seq", "b_post", "b_wake", "q_check", "q_close", "q_refs", "q_flag",
             "q_wait", "q_advance", "q_reopen", "q_flip", "post", "s_unlock"}

\* A waiter counted in wrefs, or in the g_refs of its slot.
Referenced == {t \in Waiters : pc[t] \in WaitingPCs \ {"wref"}}
HoldPCs == {"recheck", "recheck_start", "futex", "drop"}
Holders(i) == {t \in Waiters : G(t) = i /\ pc[t] \in HoldPCs}

G1 == _GAnother(_G2(cond.wseq))
Start == _Seq(cond.g1_start)
Position == _Seq(cond.wseq)

\* Where the positions of G2 begin. While a signaler is between the advance of
\* g1_start and the flip of wseq the two counters name different slots, and the
\* old G1 is gone already.
Flipping == _G2(cond.g1_start) # _G2(cond.wseq)
End == IF Flipping THEN Start ELSE Start + cond.orig_size

PlaceInv ==
  /\ \A t \in Waiters : pc[t] \in {"user"} \cup WaitPCs
  /\ \A s \in Signalers : pc[s] \in {"user"} \cup SignalPCs
  /\ \A s \in Signalers : pc[s] \in InnerPCs <=> inner = s

\* The groups, whenever no switch is under way.
SteadyGroups ==
  /\ Start + cond.orig_size <= Position
  /\ cond.g_size[G1] <= cond.orig_size
  /\ cond.g_size[_GAnother(G1)] = 0
  /\ cond.g1_start % 2 = 1 => cond.orig_size > 0

\* What the holder of the inner lock knows at each place.
HolderInv(s) ==
  /\ pc[s] \in {"b_post", "b_wake", "q_check", "q_close", "q_refs", "q_flag",
                "q_wait", "q_advance", "post"} => G(s) = G1
  /\ pc[s] \in {"b_wake", "q_check", "q_close", "q_refs", "q_flag", "q_wait",
                "q_advance", "q_reopen", "q_flip"} => cond.g_size[G(s)] = 0
  /\ pc[s] \in {"b_post", "b_wake", "q_check"} => loc[s].seq \in End..Position
  /\ pc[s] \in {"q_close", "q_refs", "q_flag", "q_wait", "q_advance", "q_reopen",
                "q_flip"} => loc[s].base = End /\ End < Position
  /\ pc[s] \in {"q_reopen", "q_flip"} =>
       Flipping /\ G(s) = _G2(cond.g1_start) /\ cond.g_size[_GAnother(G(s))] = 0
  /\ pc[s] = "post" => cond.g_size[G(s)] > 0

GroupInv ==
  /\ Flipping <=> \E s \in Signalers : pc[s] \in {"q_reopen", "q_flip"}
  /\ ~Flipping => SteadyGroups
  /\ \A s \in Signalers : HolderInv(s)

PositionInv ==
  \A t \in Waiters :
    pc[t] \in WaitingPCs =>
      /\ loc[t].seq < Position
      /\ loc[t].seq >= End => G(t) = _G2(cond.wseq)
      /\ loc[t].seq \in Start..(End - 1) => G(t) = G1

ClosedInv ==
  /\ \A s \in Signalers :
       pc[s] \in {"q_refs", "q_flag", "q_wait", "q_advance", "q_reopen"} =>
         Closed(Signals(s))
  /\ \A t \in Waiters : pc[t] = "undo_cas" => ~Closed(loc[t].val)

BlockInv ==
  /\ \A t \in Waiters :
       /\ ~Awake(t) => pc[t] = "drop" /\ asleep[t] = sig(G(t))
       /\ pc[t] = "futex" \/ ~Awake(t) => loc[t].seq >= Start
  /\ \A s \in Signalers, t \in Waiters :
       pc[s] = "q_advance" /\ G(t) = G(s) =>
         pc[t] \notin {"recheck_start", "futex"} /\ Awake(t)

RefsInv == \A i \in {0, 1} : cond.g_refs[i] \div 2 = Cardinality(Holders(i))

MemberPCs == {"wref", "unlock", "load", "test", "recheck", "recheck_start",
              "futex", "drop", "drop_clear", "drop_wake"}
AdderPCs == WaitingPCs \ {"undo_wake", "done"}
UndoPCs == {"undo_load", "undo_check", "undo_cas"}
OutPCs == {"user", "held", "dtor_wake", "relock"}

\* The waiters that hold a position of G2 and have taken no signal yet, and those
\* of older groups that can still put a signal they took back on their slot.
Members == {t \in Waiters : pc[t] \in MemberPCs /\ loc[t].seq >= End}
Adders == {t \in Waiters : pc[t] \in AdderPCs /\ loc[t].seq < End}

\* The signals that late waiters of older groups left on the slot of G2.
G2Signals == cond.g_signals[_G2(cond.wseq)]

\* The mark with which a closed group ends the wait does not outlive it, only a
\* waiter whose group is gone puts a signal back, and a member of G2 never finds
\* its own group closed.
MemberInv ==
  \A t \in Waiters :
    /\ pc[t] \in OutPCs => loc[t].ctl # "done"
    /\ pc[t] \in UndoPCs => loc[t].seq < Start
    /\ t \in Members => loc[t].ctl # "done" /\ (pc[t] = "test" => ~Closed(loc[t].val))

\* A position of G2 is held by a member or was given up against a signal on the
\* slot, and only waiters of older groups put signals there: so G2, and the G1
\* made from it, hold a few positions per thread, however many waits there were.
SizeInv ==
  LET n == Cardinality(Waiters) IN
  /\ ~Closed(G2Signals)
  /\ Position - End + G2Signals \div 2 + Cardinality(Adders)
       <= Cardinality(Members) + 2 * n
  /\ cond.orig_size <= 3 * n
  /\ \A s \in Signalers :
       pc[s] = "q_flip" =>
         ~Closed(Signals(s)) /\ Signals(s) \div 2 + Cardinality(Adders) <= n

CondInv ==
  /\ TypeOK /\ PlaceInv /\ GroupInv /\ PositionInv /\ ClosedInv /\ BlockInv /\ RefsInv
  /\ MemberInv /\ SizeInv

DestroyInv ==
  /\ cond.wrefs = 8 * Cardinality(Referenced) + (IF dead = "live" THEN 0 ELSE 4)
  /\ dead # "live" => \A t \in Waiters : pc[t] # "wref"
  /\ \A s \in Signalers :
       /\ pc[s] \in {"d_test", "d_load"} => dead = "destroying"
       /\ pc[s] = "d_test" => loc[s].val >= cond.wrefs
  /\ \A s, u \in Signalers :
       pc[s] \in {"d_test", "d_load"} /\ pc[u] \in {"d_test", "d_load"} => s = u
  /\ dead = "dead" => Referenced = {}

-----------------------------------------------------------------------------
(* Arithmetic of uint32_t *)

LEMMA Width ==
  /\ U32 \in Nat \ {0} /\ U32 >= 8 /\ U32 % 2 = 0 /\ U32 % 4 = 0
  /\ U32 \div 4 \in Nat /\ 4 * (U32 \div 4) = U32
  BY CondAssumption

LEMMA Mod32 ==
  /\ \A a \in Int : a % U32 \in 0..(U32 - 1)
  /\ \A a \in 0..(U32 - 1) : a % U32 = a
  BY Width

\* The flag in the lowest bit.
LEMMA Flag32 ==
  ASSUME NEW w \in 0..(U32 - 1)
  PROVE  /\ SetLSB(w) \in 0..(U32 - 1) /\ ClearLSB(w) \in 0..(U32 - 1)
         /\ SetLSB(w) \div 2 = w \div 2 /\ ClearLSB(w) \div 2 = w \div 2
         /\ Closed(SetLSB(w))
  BY Width DEF SetLSB, ClearLSB, Closed

\* Setting the destroy flag does not carry into the count.
LEMMA Destroying32 ==
  ASSUME NEW w \in 0..(U32 - 1), ~Destroying(w) PROVE w + 4 \in 0..(U32 - 1)
  BY CondAssumption DEF Destroying

\* A group size that leaves the two lock bits free survives its shift.
LEMMA Shift32 ==
  /\ \A w \in Int : ((w * 4) % U32) \div 4 \in 0..(U32 \div 4 - 1)
  /\ \A w \in 0..(U32 \div 4 - 1) : ((w * 4) % U32) \div 4 = w
<1>1. ASSUME NEW w \in Int PROVE ((w * 4) % U32) \div 4 \in 0..(U32 \div 4 - 1)
  <2>1. (w * 4) % U32 \in 0..(U32 - 1)
    BY Mod32
  <2> QED
    BY <2>1, Width
<1>2. ASSUME NEW w \in 0..(U32 \div 4 - 1) PROVE ((w * 4) % U32) \div 4 = w
  <2>1. w * 4 \in 0..(U32 - 1)
    BY Width
  <2>2. (w * 4) % U32 = w * 4
    BY <2>1, Mod32
  <2> QED
    BY <2>1, <2>2
<1> QED
  BY <1>1, <1>2

-----------------------------------------------------------------------------
(* Types *)

CondType == [wseq : Nat, g1_start : Nat, orig_size : 0..(U32 \div 4 - 1),
             wrefs : 0..(U32 - 1), g_refs : [{0, 1} -> 0..(U32 - 1)],
             g_size : [{0, 1} -> 0..(U32 - 1)],
             g_signals : [{0, 1} -> 0..(U32 - 1)]]
LocType == [seq : Nat, g : {0, 1}, val : 0..(U32 - 1), base : Nat,
            ctl : {"", "done"} \cup Calls]

LEMMA BlockedFinite == Cardinality(Blocked) \in Nat
<1>1. IsFiniteSet(Blocked)
  BY CondAssumption, FS_Subset DEF Blocked
<1> QED
  BY <1>1, FS_CardinalityType

LEMMA OwedType == ASSUME credit \in Nat, NEW call PROVE Owed(call) \in Nat
<1> DEFINE b == Cardinality(Blocked)
<1>1. b \in Nat
  BY BlockedFinite
<1>2. Owed(call) = IF call = "signal" THEN Min({credit + 1, b}) ELSE b
  BY DEF Owed
<1> HIDE DEF b
<1>3. Min({credit + 1, b}) \in {credit + 1, b}
  <2>1. \E x \in {credit + 1, b} : \A y \in {credit + 1, b} : x <= y
    BY <1>1
  <2> QED
    BY <2>1 DEF Min
<1> QED
  BY <1>1, <1>2, <1>3

Places == {"user"} \cup WaitPCs \cup SignalPCs

\* TypeOK with names for its sets, which most proofs leave unexpanded.
Types ==
  /\ cond \in CondType
  /\ inner \in Signalers \cup {NoWord}
  /\ mutex \in Threads \cup {NoWord}
  /\ dead \in {"live", "destroying", "dead"}
  /\ pc \in [Threads -> Places]
  /\ loc \in [Threads -> LocType]
  /\ credit \in Nat /\ repaired \in BOOLEAN
  /\ asleep \in [Threads -> Words \cup {NoWord}]

LEMMA TypesNamed == TypeOK <=> Types
  BY DEF Types, TypeOK, CondType, LocType, Places, FutexTypeOK

\* The value a step assigns to one field of the struct or to one local.
LEMMA CondFields ==
  ASSUME NEW c \in CondType, NEW i \in {0, 1}
  PROVE  /\ c.wseq \in Nat /\ c.g1_start \in Nat
         /\ c.orig_size \in 0..(U32 \div 4 - 1) /\ c.wrefs \in 0..(U32 - 1)
         /\ c.g_refs[i] \in 0..(U32 - 1) /\ c.g_size[i] \in 0..(U32 - 1)
         /\ c.g_signals[i] \in 0..(U32 - 1)
  BY DEF CondType

LEMMA LocFields ==
  ASSUME NEW l \in LocType
  PROVE  l.seq \in Nat /\ l.g \in {0, 1} /\ l.val \in 0..(U32 - 1) /\ l.base \in Nat
  BY DEF LocType

\* What a step leaves alone.
KeepGroups == /\ cond'.wseq = cond.wseq /\ cond'.g1_start = cond.g1_start
              /\ cond'.orig_size = cond.orig_size /\ cond'.g_size = cond.g_size
KeepRefs == cond'.g_refs = cond.g_refs
KeepSignals == cond'.g_signals = cond.g_signals
KeepWrefs == cond'.wrefs = cond.wrefs
KeepOthers(t) == \A u \in Threads : u # t => pc'[u] = pc[u] /\ loc'[u] = loc[u]

Word32 == 0..(U32 - 1)

\* The assignments to the struct.
LEMMA SetWrefs ==
  ASSUME cond \in CondType, NEW w \in Word32, cond' = [cond EXCEPT !.wrefs = w]
  PROVE  /\ cond' \in CondType /\ cond'.wrefs = w
         /\ KeepGroups /\ KeepRefs /\ KeepSignals
  BY DEF CondType, Word32, KeepGroups, KeepRefs, KeepSignals

LEMMA SetRefs ==
  ASSUME cond \in CondType, NEW i \in {0, 1}, NEW w \in Word32,
         cond' = [cond EXCEPT !.g_refs[i] = w]
  PROVE  /\ cond' \in CondType /\ cond'.g_refs[i] = w
         /\ cond'.g_refs[1 - i] = cond.g_refs[1 - i]
         /\ KeepGroups /\ KeepWrefs /\ KeepSignals
  BY DEF CondType, Word32, KeepGroups, KeepWrefs, KeepSignals

LEMMA SetSignals ==
  ASSUME cond \in CondType, NEW i \in {0, 1}, NEW w \in Word32,
         cond' = [cond EXCEPT !.g_signals[i] = w]
  PROVE  /\ cond' \in CondType /\ cond'.g_signals[i] = w
         /\ cond'.g_signals[1 - i] = cond.g_signals[1 - i]
         /\ KeepGroups /\ KeepWrefs /\ KeepRefs
  BY DEF CondType, Word32, KeepGroups, KeepWrefs, KeepRefs

LEMMA SetSeq ==
  ASSUME cond \in CondType, NEW n \in Nat, cond' = [cond EXCEPT !.wseq = n]
  PROVE  /\ cond' \in CondType /\ cond'.wseq = n
         /\ cond'.g1_start = cond.g1_start /\ cond'.orig_size = cond.orig_size
         /\ cond'.g_size = cond.g_size
         /\ KeepWrefs /\ KeepRefs /\ KeepSignals
  BY DEF CondType, KeepWrefs, KeepRefs, KeepSignals

LEMMA SetStart ==
  ASSUME cond \in CondType, NEW n \in Nat, cond' = [cond EXCEPT !.g1_start = n]
  PROVE  /\ cond' \in CondType /\ cond'.g1_start = n
         /\ cond'.wseq = cond.wseq /\ cond'.orig_size = cond.orig_size
         /\ cond'.g_size = cond.g_size
         /\ KeepWrefs /\ KeepRefs /\ KeepSignals
  BY DEF CondType, KeepWrefs, KeepRefs, KeepSignals

\* Two updates of several fields. Their definitions are expanded only where they
\* meet the action or the fields.
WithGiven(i, w, z) == [cond EXCEPT !.g_signals[i] = w, !.g_size[i] = z]
WithSwitch(i, n, z, o) == [cond EXCEPT !.wseq = n, !.g_size[i] = z, !.orig_size = o]

\* Signals given to a group, out of those it is owed.
LEMMA SetGiven ==
  ASSUME cond \in CondType, NEW i \in {0, 1}, NEW w \in Word32, NEW z \in Word32,
         cond' = WithGiven(i, w, z)
  PROVE  /\ cond' \in CondType /\ cond'.g_signals[i] = w /\ cond'.g_size[i] = z
         /\ cond'.g_signals[1 - i] = cond.g_signals[1 - i]
         /\ cond'.g_size[1 - i] = cond.g_size[1 - i]
         /\ cond'.wseq = cond.wseq /\ cond'.orig_size = cond.orig_size
         /\ cond'.g1_start = cond.g1_start /\ KeepWrefs /\ KeepRefs
<1>1. cond'.g_signals = [cond.g_signals EXCEPT ![i] = w]
  BY DEF WithGiven, CondType
<1>2. cond'.g_size = [cond.g_size EXCEPT ![i] = z]
  BY DEF WithGiven, CondType
<1>3. /\ cond'.wseq = cond.wseq /\ cond'.orig_size = cond.orig_size
      /\ cond'.g1_start = cond.g1_start /\ KeepWrefs /\ KeepRefs
  BY DEF WithGiven, CondType, KeepWrefs, KeepRefs
<1>4. cond' \in CondType
  BY DEF WithGiven, CondType, Word32
<1> QED
  BY <1>1, <1>2, <1>3, <1>4 DEF CondType

LEMMA SetSwitch ==
  ASSUME cond \in CondType, NEW i \in {0, 1}, NEW n \in Nat, NEW z \in Word32,
         NEW o \in 0..(U32 \div 4 - 1),
         cond' = WithSwitch(i, n, z, o)
  PROVE  /\ cond' \in CondType /\ cond'.wseq = n /\ cond'.orig_size = o
         /\ cond'.g_size[i] = z /\ cond'.g_size[1 - i] = cond.g_size[1 - i]
         /\ cond'.g1_start = cond.g1_start /\ KeepWrefs /\ KeepRefs /\ KeepSignals
<1>1. cond'.g_size = [cond.g_size EXCEPT ![i] = z]
  BY DEF WithSwitch, CondType
<1>2. /\ cond'.wseq = n /\ cond'.orig_size = o
      /\ cond'.g1_start = cond.g1_start /\ KeepWrefs /\ KeepRefs /\ KeepSignals
  BY DEF WithSwitch, CondType, KeepWrefs, KeepRefs, KeepSignals
<1>3. cond' \in CondType
  BY DEF WithSwitch, CondType, Word32
<1> QED
  BY <1>1, <1>2, <1>3 DEF CondType

\* The assignments to the locals.
WithLocals(t, l) == [loc EXCEPT ![t] = l]

LEMMA SetLoc ==
  ASSUME loc \in [Threads -> LocType], NEW t \in Threads, NEW l \in LocType,
         loc' = WithLocals(t, l)
  PROVE  /\ loc' \in [Threads -> LocType] /\ loc'[t] = l
         /\ \A u \in Threads : u # t => loc'[u] = loc[u]
  BY DEF WithLocals

LEMMA NoLocalsType == NoLocals \in LocType
  BY Width DEF NoLocals, LocType

-----------------------------------------------------------------------------
(* The steps of a waiter *)

\* What a waiter's step does outside its own purpose: nothing. Which steps move
\* wseq, wrefs, the references, the signals and the sleepers is said here once.
WaiterEffect(t) ==
  /\ Types'
  /\ KeepOthers(t) /\ inner' = inner /\ dead' = dead
  /\ pc'[t] \in {"user"} \cup WaitPCs
  /\ cond'.g1_start = cond.g1_start /\ cond'.orig_size = cond.orig_size
  /\ cond'.g_size = cond.g_size
  /\ WaitSeq(t) \/
       /\ cond'.wseq = cond.wseq
       /\ pc'[t] \in WaitingPCs => /\ pc[t] \in WaitingPCs
                                  /\ loc'[t].seq = loc[t].seq /\ G(t)' = G(t)
  /\ (WaitRef(t) \/ WaitUnref(t)) \/
       /\ KeepWrefs
       /\ pc'[t] \in WaitingPCs \ {"wref"} <=> pc[t] \in WaitingPCs \ {"wref"}
  /\ (TakeGroupRef(t) \/ DropGroupRef(t)) \/
       /\ \A i \in {0, 1} : cond'.g_refs[i] \div 2 = cond.g_refs[i] \div 2
       /\ pc'[t] \in HoldPCs <=> pc[t] \in HoldPCs
  /\ (TakeSignal(t) \/ UndoAdd(t)) \/ KeepSignals
  /\ BlockOnGroup(t) \/ \A u \in Threads : asleep'[u] \in {asleep[u], NoWord}

\* A local other than the position and the group is assigned.
KeepPosition(t) ==
  /\ loc' \in [Threads -> LocType]
  /\ loc'[t].seq = loc[t].seq /\ G(t)' = G(t)
  /\ \A u \in Threads : u # t => loc'[u] = loc[u]

LEMMA SetLocal ==
  ASSUME loc \in [Threads -> LocType], NEW t \in Threads, NEW w \in Word32, NEW n \in Nat,
         NEW c \in {"", "done"} \cup Calls,
         \/ loc' = loc \/ loc' = [loc EXCEPT ![t].val = w]
         \/ loc' = [loc EXCEPT ![t].ctl = c] \/ loc' = [loc EXCEPT ![t].base = n]
  PROVE  KeepPosition(t)
<1>1. CASE loc' = loc
  BY <1>1 DEF KeepPosition, G
<1> DEFINE v == [loc[t] EXCEPT !.val = w]
           d == [loc[t] EXCEPT !.ctl = c]
           b == [loc[t] EXCEPT !.base = n]
<1>2. \A l \in {v, d, b} : l \in LocType /\ l.seq = loc[t].seq /\ l.g = loc[t].g
  <2>1. loc[t] \in LocType
    OBVIOUS
  <2> QED
    BY <2>1 DEF LocType, Word32
<1>3. loc' = loc \/ loc' = WithLocals(t, v) \/ loc' = WithLocals(t, d)
        \/ loc' = WithLocals(t, b)
  BY DEF WithLocals
<1> HIDE DEF v, d, b
<1> QED
  BY <1>1, <1>2, <1>3, SetLoc DEF KeepPosition, G

\* A step of the thread between two places of the same kind.
KeepPlace(t) ==
  /\ pc' \in [Threads -> Places] /\ pc'[t] \in {"user"} \cup WaitPCs
  /\ pc'[t] \in WaitingPCs <=> pc[t] \in WaitingPCs
  /\ pc'[t] = "wref" <=> pc[t] = "wref"
  /\ pc'[t] \in HoldPCs <=> pc[t] \in HoldPCs
  /\ \A u \in Threads : u # t => pc'[u] = pc[u]

\* The steps that leave the struct and everybody's sleep alone.
LEMMA WaiterLoads ==
  ASSUME Types, NEW t \in Waiters,
         \/ ClientLock(t) \/ WaitUnlock(t) \/ ClientUnlock(t) \/ LoadSignals(t)
         \/ TestClosed(t) \/ TakeFails(t) \/ Recheck(t) \/ RecheckStart(t)
         \/ TestStolen(t) \/ UndoLoad(t) \/ UndoCheck(t) \/ UndoAddFails(t) \/ Relock(t)
  PROVE  WaiterEffect(t)
<1>0. /\ t \in Threads /\ pc \in [Threads -> Places] /\ loc \in [Threads -> LocType]
      /\ Signals(t) \in Word32 /\ 0 \in Word32 /\ cond.g1_start \in Nat
  BY CondAssumption, Width, LocFields, CondFields DEF Types, G, Signals, Word32
<1>1. KeepPosition(t)
  <2>1. CASE ClientLock(t) \/ ClientUnlock(t) \/ WaitUnlock(t) \/ Relock(t) \/ UndoCheck(t)
    BY <1>0, <2>1, SetLocal DEF ClientLock, ClientUnlock, WaitUnlock, Relock, UndoCheck
  <2>2. CASE LoadSignals(t) \/ TestClosed(t) \/ TakeFails(t) \/ UndoLoad(t) \/ UndoAddFails(t)
    BY <1>0, <2>2, SetLocal DEF LoadSignals, TestClosed, TakeFails, UndoLoad, UndoAddFails
  <2>3. CASE Recheck(t) \/ RecheckStart(t)
    BY <1>0, <2>3, SetLocal DEF Recheck, RecheckStart
  <2>4. CASE TestStolen(t)
    BY <1>0, <2>4, SetLocal DEF TestStolen
  <2> QED
    BY <2>1, <2>2, <2>3, <2>4
<1>2. KeepPlace(t)
  <2> USE DEF Goto, KeepPlace, Places, WaitPCs, WaitingPCs, HoldPCs
  <2>1. CASE ClientLock(t) \/ ClientUnlock(t) \/ WaitUnlock(t) \/ Relock(t) \/ UndoCheck(t)
    BY <1>0, <2>1 DEF ClientLock, ClientUnlock, WaitUnlock, Relock, UndoCheck
  <2>2. CASE LoadSignals(t) \/ TestClosed(t) \/ TakeFails(t) \/ UndoLoad(t) \/ UndoAddFails(t)
    BY <1>0, <2>2 DEF LoadSignals, TestClosed, TakeFails, UndoLoad, UndoAddFails
  <2>3. CASE Recheck(t) \/ RecheckStart(t)
    BY <1>0, <2>3 DEF Recheck, RecheckStart
  <2>4. CASE TestStolen(t)
    BY <1>0, <2>4 DEF TestStolen
  <2> QED
    BY <2>1, <2>2, <2>3, <2>4
<1>3. /\ UNCHANGED <<cond, inner, dead, asleep>> /\ mutex' \in Threads \cup {NoWord}
      /\ credit' \in Nat /\ repaired' \in BOOLEAN
  BY <1>0 DEF Types, ClientLock, ClientUnlock, WaitUnlock, Relock, UndoCheck, LoadSignals,
    TestClosed, TakeFails, UndoLoad, UndoAddFails, Recheck, RecheckStart, TestStolen,
    OnlyLocals, history, Released
<1> QED
  BY <1>1, <1>2, <1>3 DEF Types, WaiterEffect, KeepPosition, KeepPlace, KeepOthers,
     KeepWrefs, KeepSignals

\* The steps that wake somebody or fall asleep.
LEMMA WaiterSleeps ==
  ASSUME Types, NEW t \in Waiters,
         BlockOnGroup(t) \/ DropWake(t) \/ UndoWake(t) \/ WakeDestroyer(t)
  PROVE  WaiterEffect(t)
<1>0. /\ t \in Threads /\ pc \in [Threads -> Places] /\ loc \in [Threads -> LocType]
      /\ G(t) \in {0, 1} /\ asleep \in [Threads -> Words \cup {NoWord}] /\ 0 \in Word32
  BY CondAssumption, Width, LocFields DEF Types, G, Word32
<1>1. KeepPosition(t)
  BY <1>0, SetLocal DEF BlockOnGroup, DropWake, UndoWake, WakeDestroyer, OnlyFutex
<1>2. KeepPlace(t)
  BY <1>0 DEF BlockOnGroup, DropWake, UndoWake, WakeDestroyer, AfterDrop, Goto, KeepPlace,
     Places, WaitPCs, WaitingPCs, HoldPCs
<1>3. UNCHANGED <<cond, inner, mutex, dead, credit, repaired>>
  BY DEF BlockOnGroup, DropWake, UndoWake, WakeDestroyer, OnlyFutex, history
<1>4. /\ asleep' \in [Threads -> Words \cup {NoWord}]
      /\ BlockOnGroup(t) \/ \A u \in Threads : asleep'[u] \in {asleep[u], NoWord}
  <2>1. CASE BlockOnGroup(t)
    <3>1. sig(G(t)) \in Words
      BY <1>0, CondAssumption DEF sig
    <3> QED
      BY <1>0, <2>1, <3>1 DEF BlockOnGroup, FutexWait
  <2>2. CASE DropWake(t) \/ WakeDestroyer(t)
    BY <1>0, <2>2 DEF DropWake, WakeDestroyer, FutexWakeAll
  <2>3. CASE UndoWake(t)
    BY <1>0, <2>3 DEF UndoWake, FutexWakeOne, Sleepers
  <2> QED
    BY <2>1, <2>2, <2>3
<1> QED
  BY <1>1, <1>2, <1>3, <1>4 DEF Types, WaiterEffect, KeepPosition, KeepPlace, KeepOthers,
     KeepWrefs, KeepSignals

\* The steps that write to the struct.
LEMMA WaiterWrites ==
  ASSUME Types, NEW t \in Waiters,
         \/ WaitSeq(t) \/ WaitRef(t) \/ TakeSignal(t) \/ TakeGroupRef(t)
         \/ DropGroupRef(t) \/ DropClearFlag(t) \/ UndoAdd(t) \/ WaitUnref(t)
  PROVE  WaiterEffect(t)
<1>0. /\ t \in Threads /\ pc \in [Threads -> Places] /\ loc \in [Threads -> LocType]
      /\ G(t) \in {0, 1} /\ loc[t] \in LocType /\ 0 \in Word32
      /\ cond \in CondType /\ cond.wrefs \in Word32 /\ cond.g_refs[G(t)] \in Word32
      /\ Signals(t) \in Word32
  BY CondAssumption, Width, LocFields, CondFields DEF Types, G, Word32, Signals
<1>1. CASE WaitSeq(t)
  <2>1. cond.wseq \in Nat /\ _Seq(cond.wseq) \in Nat /\ _G2(cond.wseq) \in {0, 1}
    BY <1>0, CondFields DEF _Seq, _G2
  <2>2. /\ cond' \in CondType
        /\ cond'.g1_start = cond.g1_start /\ cond'.orig_size = cond.orig_size
        /\ cond'.g_size = cond.g_size /\ KeepWrefs /\ KeepRefs /\ KeepSignals
    <3>1. cond.wseq + 2 \in Nat /\ cond' = [cond EXCEPT !.wseq = cond.wseq + 2]
      BY <1>1, <2>1 DEF WaitSeq, _SeqStep
    <3> QED
      BY <1>0, <3>1, SetSeq
  <2>3. /\ loc' \in [Threads -> LocType] /\ \A u \in Threads : u # t => loc'[u] = loc[u]
    <3> DEFINE l == [loc[t] EXCEPT !.seq = _Seq(cond.wseq), !.g = _G2(cond.wseq)]
    <3>1. l \in LocType
      <4>1. loc[t] \in LocType
        BY <1>0
      <4> QED
        BY <2>1, <4>1 DEF LocType, Word32
    <3>2. loc' = WithLocals(t, l)
      BY <1>1 DEF WaitSeq, WithLocals
    <3>3. t \in Threads /\ loc \in [Threads -> LocType]
      BY <1>0
    <3> HIDE DEF l
    <3> QED
      BY <3>1, <3>2, <3>3, SetLoc
  <2> QED
    BY <1>0, <1>1, <2>2, <2>3 DEF WaitSeq, Goto, history, Types, Places, WaitPCs, WaitingPCs,
       HoldPCs, WaiterEffect, KeepOthers, KeepRefs
<1>2. ASSUME WaitRef(t) \/ WaitUnref(t) PROVE WaiterEffect(t)
  <2>1. PICK w \in Word32 : cond' = [cond EXCEPT !.wrefs = w]
    <3>1. (cond.wrefs + 8) % U32 \in Word32 /\ (cond.wrefs - 8) % U32 \in Word32
      BY <1>0, Mod32, Width DEF Word32
    <3> QED
      BY <1>2, <3>1 DEF WaitRef, WaitUnref, _WaitersRefStep
  <2>2. cond' \in CondType /\ KeepGroups /\ KeepRefs /\ KeepSignals
    BY <1>0, <2>1, SetWrefs
  <2>3. /\ loc' \in [Threads -> LocType] /\ \A u \in Threads : u # t => loc'[u] = loc[u]
        /\ WaitRef(t) => loc' = loc
    BY <1>0, <1>2, NoLocalsType, SetLoc DEF WaitRef, WaitUnref, OnlyCond, WithLocals
  <2> QED
    BY <1>0, <1>2, <2>2, <2>3 DEF WaitRef, WaitUnref, Goto, OnlyCond, history, Types, Places,
       WaitPCs, WaitingPCs, HoldPCs, WaiterEffect, KeepOthers, KeepGroups, KeepRefs, G
<1>3. ASSUME TakeSignal(t) \/ UndoAdd(t) PROVE WaiterEffect(t)
  <2>1. PICK w \in Word32 : cond' = [cond EXCEPT !.g_signals[G(t)] = w]
    <3>1. CASE TakeSignal(t)
      <4>1. loc[t].val \in Word32 /\ loc[t].val # 0 /\ ~Closed(loc[t].val)
        BY <1>0, <3>1, LocFields DEF TakeSignal, Word32
      <4>2. loc[t].val - 2 \in Word32
        BY <4>1, Width DEF Closed, Word32
      <4> QED
        BY <3>1, <4>2 DEF TakeSignal, _SignalsStep
    <3>2. CASE UndoAdd(t)
      <4>1. (cond.g_signals[G(t)] + 2) % U32 \in Word32
        BY <1>0, Mod32, Width DEF Word32, Signals
      <4> QED
        BY <3>2, <4>1 DEF UndoAdd, _SignalsStep
    <3> QED
      BY <1>3, <3>1, <3>2
  <2>2. cond' \in CondType /\ KeepGroups /\ KeepRefs /\ KeepWrefs
    BY <1>0, <2>1, SetSignals
  <2>3. KeepPosition(t)
    BY <1>0, <1>3, SetLocal DEF TakeSignal, UndoAdd
  <2>4. KeepPlace(t)
    BY <1>0, <1>3 DEF TakeSignal, UndoAdd, Goto, KeepPlace, Places, WaitPCs, WaitingPCs, HoldPCs
  <2>5. UNCHANGED <<inner, mutex, dead, asleep>> /\ credit' \in Nat
    BY <1>3 DEF TakeSignal, UndoAdd, Released, Types
  <2>6. repaired' = repaired \/ repaired' = TRUE
    BY <1>3 DEF TakeSignal, UndoAdd, Released
  <2>7. repaired' \in BOOLEAN
    BY <2>6 DEF Types
  <2> QED
    BY <1>3, <2>2, <2>3, <2>4, <2>5, <2>7 DEF Types, WaiterEffect, KeepOthers, KeepPlace,
       KeepGroups, KeepRefs, KeepPosition
<1>4. ASSUME TakeGroupRef(t) \/ DropGroupRef(t) \/ DropClearFlag(t) PROVE WaiterEffect(t)
  <2>1. PICK w \in Word32 : /\ cond' = [cond EXCEPT !.g_refs[G(t)] = w]
                            /\ DropClearFlag(t) => w \div 2 = cond.g_refs[G(t)] \div 2
    <3>1. \A r \in Word32 : /\ (r + 2) % U32 \in Word32 /\ (r - 2) % U32 \in Word32
                            /\ ClearLSB(r) \in Word32 /\ ClearLSB(r) \div 2 = r \div 2
      <4> TAKE r \in Word32
      <4>1. r \in 0..(U32 - 1) /\ r + 2 \in Int /\ r - 2 \in Int
        BY Width DEF Word32
      <4> QED
        BY <4>1, Mod32, Flag32 DEF Word32
    <3>2. CASE TakeGroupRef(t)
      <4>1. cond' = [cond EXCEPT !.g_refs[G(t)] = (cond.g_refs[G(t)] + 2) % U32]
        BY <3>2 DEF TakeGroupRef, _GRefsStep
      <4>2. ~DropClearFlag(t)
        BY <3>2 DEF TakeGroupRef, DropClearFlag, Goto
      <4> QED
        BY <1>0, <3>1, <4>1, <4>2
    <3>3. CASE DropGroupRef(t)
      <4>1. cond' = [cond EXCEPT !.g_refs[G(t)] = (cond.g_refs[G(t)] - 2) % U32]
        BY <3>3 DEF DropGroupRef, _GRefsStep
      <4>2. ~DropClearFlag(t)
        BY <3>3 DEF DropGroupRef, DropClearFlag, Goto
      <4> QED
        BY <1>0, <3>1, <4>1, <4>2
    <3>4. CASE DropClearFlag(t)
      BY <1>0, <3>1, <3>4 DEF DropClearFlag
    <3> QED
      BY <1>4, <3>2, <3>3, <3>4
  <2>2. /\ cond' \in CondType /\ KeepGroups /\ KeepSignals /\ KeepWrefs
        /\ cond'.g_refs[G(t)] = w /\ cond'.g_refs[1 - G(t)] = cond.g_refs[1 - G(t)]
    BY <1>0, <2>1, SetRefs
  <2>3. loc' = loc /\ KeepPosition(t)
    BY <1>0, <1>4, SetLocal DEF TakeGroupRef, DropGroupRef, DropClearFlag, OnlyCond
  <2>4. DropClearFlag(t) => \A i \in {0, 1} : cond'.g_refs[i] \div 2 = cond.g_refs[i] \div 2
    BY <1>0, <2>1, <2>2
  <2> QED
    BY <1>0, <1>4, <2>2, <2>3, <2>4 DEF TakeGroupRef, DropGroupRef, DropClearFlag, AfterDrop,
       OnlyCond, Goto, history, Types, Places, WaitPCs, WaitingPCs, HoldPCs, WaiterEffect,
       KeepOthers, KeepGroups, KeepPosition
<1> QED
  BY <1>1, <1>2, <1>3, <1>4

LEMMA WaiterSteps ==
  ASSUME Types, NEW t \in Waiters, ClientLock(t) \/ WaitSeq(t) \/ WaitStep(t)
  PROVE  WaiterEffect(t)
  BY WaiterLoads, WaiterSleeps, WaiterWrites DEF WaitStep

-----------------------------------------------------------------------------
(* The steps of a signaler *)

SignalerEffect(s) ==
  /\ Types'
  /\ KeepOthers(s) /\ pc'[s] \in {"user"} \cup SignalPCs
  /\ (InnerLock(s) \/ InnerUnlock(s)) \/
       (inner' = inner /\ (pc'[s] \in InnerPCs <=> pc[s] \in InnerPCs))
  /\ (BroadcastG1(s) \/ Post(s) \/ AdvanceG1Start(s) \/ SwitchGroups(s)) \/ KeepGroups
  /\ (CallDestroy(s) \/ DestroyReturn(s)) \/ (KeepWrefs /\ dead' = dead)
  /\ \A i \in {0, 1} : cond'.g_refs[i] \div 2 = cond.g_refs[i] \div 2
  /\ (BroadcastG1(s) \/ Post(s) \/ CloseG1(s) \/ ReopenSlot(s)) \/ KeepSignals
  /\ \A u \in Threads : u # s => asleep'[u] \in {asleep[u], NoWord}

\* The places of a signaler's step.
SignalerMoves(s) ==
  /\ pc' \in [Threads -> Places] /\ pc'[s] \in {"user"} \cup SignalPCs
  /\ \A u \in Threads : u # s => pc'[u] = pc[u]
  /\ (InnerLock(s) \/ InnerUnlock(s)) \/ (pc'[s] \in InnerPCs <=> pc[s] \in InnerPCs)

LEMMA SignalerPlaces ==
  ASSUME Types, NEW s \in Signalers, SignalerCall(s) \/ SignalStep(s) \/ DestroyStep(s)
  PROVE  SignalerMoves(s)
<1>0. s \in Threads /\ pc \in [Threads -> Places]
  BY CondAssumption DEF Types
<1> USE DEF Goto, SignalerMoves, Places, SignalPCs, InnerPCs
<1>1. CASE SignalerCall(s)
  BY <1>0, <1>1 DEF SignalerCall, CallWake, CallWakeNobody, CallDestroy
<1>2. CASE DestroyStep(s)
  BY <1>0, <1>2 DEF DestroyStep, DestroyWait, DestroyReload, DestroyReturn
<1>3. CASE InnerLock(s) \/ InnerUnlock(s)
  BY <1>0, <1>3 DEF InnerLock, InnerUnlock
<1>4. CASE LoadSeq(s) \/ CheckG2(s) \/ LoadRefs(s)
  BY <1>0, <1>4 DEF LoadSeq, CheckG2, LoadRefs
<1>5. CASE BroadcastG1(s) \/ BroadcastWakeG1(s) \/ CloseG1(s) \/ RequestWake(s) \/ WaitRefs(s)
  BY <1>0, <1>5 DEF BroadcastG1, BroadcastWakeG1, CloseG1, RequestWake, WaitRefs
<1>6. CASE AdvanceG1Start(s) \/ ReopenSlot(s) \/ SwitchGroups(s) \/ Post(s) \/ WakeG1(s)
  BY <1>0, <1>6 DEF AdvanceG1Start, ReopenSlot, SwitchGroups, Post, WakeG1
<1> QED
  BY <1>1, <1>2, <1>3, <1>4, <1>5, <1>6 DEF SignalStep

\* The locals keep their types, and the other threads theirs.
SignalerLocals(s) ==
  loc' \in [Threads -> LocType] /\ \A u \in Threads : u # s => loc'[u] = loc[u]

\* The ways a signaler assigns to its locals.
LocalsSet(s, w, n, m, i, c) ==
  \/ loc' = [loc EXCEPT ![s].val = w]
  \/ loc' = [loc EXCEPT ![s].ctl = c]
  \/ loc' = [loc EXCEPT ![s].val = w, ![s].ctl = c]
  \/ loc' = [loc EXCEPT ![s].seq = n, ![s].g = i]
  \/ loc' = [loc EXCEPT ![s].seq = n, ![s].base = m]
  \/ loc' = [loc EXCEPT ![s].g = i, ![s].base = n]
  \/ loc' = [loc EXCEPT ![s].val = w, ![s].seq = n, ![s].base = m]

LEMMA SetLocals ==
  ASSUME loc \in [Threads -> LocType], NEW s \in Threads, NEW w \in Word32, NEW n \in Nat,
         NEW m \in Nat, NEW i \in {0, 1}, NEW c \in {"", "done"} \cup Calls,
         LocalsSet(s, w, n, m, i, c)
  PROVE  SignalerLocals(s)
<1>0. loc[s] \in LocType
  OBVIOUS
<1>1. ASSUME NEW l \in LocType, loc' = WithLocals(s, l) PROVE SignalerLocals(s)
  BY <1>1, SetLoc DEF SignalerLocals
<1>2. CASE loc' = [loc EXCEPT ![s].val = w]
  <2> DEFINE l == [loc[s] EXCEPT !.val = w]
  <2>1. l \in LocType
    BY <1>0 DEF LocType, Word32
  <2>2. loc' = WithLocals(s, l)
    BY <1>2 DEF WithLocals
  <2> HIDE DEF l
  <2> QED
    BY <1>1, <2>1, <2>2
<1>3. CASE loc' = [loc EXCEPT ![s].ctl = c]
  <2> DEFINE l == [loc[s] EXCEPT !.ctl = c]
  <2>1. l \in LocType
    BY <1>0 DEF LocType, Word32
  <2>2. loc' = WithLocals(s, l)
    BY <1>3 DEF WithLocals
  <2> HIDE DEF l
  <2> QED
    BY <1>1, <2>1, <2>2
<1>4. CASE loc' = [loc EXCEPT ![s].val = w, ![s].ctl = c]
  <2> DEFINE l == [loc[s] EXCEPT !.val = w, !.ctl = c]
  <2>1. l \in LocType
    BY <1>0 DEF LocType, Word32
  <2>2. loc' = WithLocals(s, l)
    BY <1>4 DEF WithLocals
  <2> HIDE DEF l
  <2> QED
    BY <1>1, <2>1, <2>2
<1>5. CASE loc' = [loc EXCEPT ![s].seq = n, ![s].g = i]
  <2> DEFINE l == [loc[s] EXCEPT !.seq = n, !.g = i]
  <2>1. l \in LocType
    BY <1>0 DEF LocType, Word32
  <2>2. loc' = WithLocals(s, l)
    BY <1>5 DEF WithLocals
  <2> HIDE DEF l
  <2> QED
    BY <1>1, <2>1, <2>2
<1>6. CASE loc' = [loc EXCEPT ![s].seq = n, ![s].base = m]
  <2> DEFINE l == [loc[s] EXCEPT !.seq = n, !.base = m]
  <2>1. l \in LocType
    BY <1>0 DEF LocType, Word32
  <2>2. loc' = WithLocals(s, l)
    BY <1>6 DEF WithLocals
  <2> HIDE DEF l
  <2> QED
    BY <1>1, <2>1, <2>2
<1>7. CASE loc' = [loc EXCEPT ![s].g = i, ![s].base = n]
  <2> DEFINE l == [loc[s] EXCEPT !.g = i, !.base = n]
  <2>1. l \in LocType
    BY <1>0 DEF LocType, Word32
  <2>2. loc' = WithLocals(s, l)
    BY <1>7 DEF WithLocals
  <2> HIDE DEF l
  <2> QED
    BY <1>1, <2>1, <2>2
<1>8. CASE loc' = [loc EXCEPT ![s].val = w, ![s].seq = n, ![s].base = m]
  <2> DEFINE l == [loc[s] EXCEPT !.val = w, !.seq = n, !.base = m]
  <2>1. l \in LocType
    BY <1>0 DEF LocType, Word32
  <2>2. loc' = WithLocals(s, l)
    BY <1>8 DEF WithLocals
  <2> HIDE DEF l
  <2> QED
    BY <1>1, <2>1, <2>2
<1> QED
  BY <1>2, <1>3, <1>4, <1>5, <1>6, <1>7, <1>8 DEF LocalsSet

\* The values that go into the locals have their types.
LEMMA SignalerValues ==
  ASSUME Types, NEW s \in Signalers
  PROVE  /\ s \in Threads /\ loc \in [Threads -> LocType] /\ loc[s] \in LocType
         /\ G(s) \in {0, 1} /\ 0 \in Word32 /\ 1 \in Word32 /\ cond \in CondType
         /\ _Seq(cond.wseq) \in Nat /\ _GAnother(_G2(cond.wseq)) \in {0, 1}
         /\ _GAnother(G(s)) \in {0, 1}
         /\ _Seq(cond.g1_start) + cond.orig_size \in Nat
         /\ cond.wrefs \in Word32 /\ SetLSB(cond.g_refs[G(s)]) \in Word32
         /\ SetLSB(cond.g_refs[G(s)]) \div 2 = cond.g_refs[G(s)] \div 2
<1>1. /\ s \in Threads /\ loc \in [Threads -> LocType] /\ loc[s] \in LocType
      /\ G(s) \in {0, 1} /\ 0 \in Word32 /\ 1 \in Word32 /\ cond \in CondType
      /\ cond.wseq \in Nat /\ cond.g1_start \in Nat /\ cond.orig_size \in Nat
      /\ cond.wrefs \in Word32
  BY CondAssumption, Width, LocFields, CondFields DEF Types, Word32, G
<1>2. PICK r \in Word32 : r = cond.g_refs[G(s)]
  BY <1>1, CondFields DEF Word32
<1>3. SetLSB(r) \in Word32 /\ SetLSB(r) \div 2 = r \div 2
  BY Flag32 DEF Word32
<1> QED
  BY <1>1, <1>2, <1>3 DEF _Seq, _G2, _GAnother

\* Asking for the wake-up, and waiting for it, write only the word read.
LEMMA WakeLocals ==
  ASSUME Types, NEW s \in Signalers, RequestWake(s) \/ WaitRefs(s)
  PROVE  /\ loc'[s].seq = loc[s].seq /\ loc'[s].base = loc[s].base
         /\ loc'[s].g = loc[s].g /\ G(s)' = G(s)
<1>0. s \in Threads /\ loc \in [Threads -> LocType] /\ loc[s] \in LocType
  BY SignalerValues
<1>1. ASSUME NEW w, loc' = [loc EXCEPT ![s].val = w]
      PROVE  /\ loc'[s].seq = loc[s].seq /\ loc'[s].base = loc[s].base
             /\ loc'[s].g = loc[s].g
  <2>1. loc'[s] = [loc[s] EXCEPT !.val = w]
    BY <1>0, <1>1
  <2> QED
    BY <1>0, <2>1 DEF LocType
<1>2. \E w : loc' = [loc EXCEPT ![s].val = w]
  BY DEF RequestWake, WaitRefs
<1> QED
  BY <1>1, <1>2 DEF G

LEMMA SignalerLocalsKept ==
  ASSUME Types, NEW s \in Signalers, SignalerCall(s) \/ SignalStep(s) \/ DestroyStep(s)
  PROVE  SignalerLocals(s)
<1>0. /\ s \in Threads /\ loc \in [Threads -> LocType] /\ 0 \in Word32 /\ 1 \in Word32
      /\ 0 \in Nat
  BY SignalerValues
<1>1. ASSUME loc' = loc PROVE SignalerLocals(s)
  BY <1>0, <1>1 DEF SignalerLocals
<1>2. ASSUME loc' = [loc EXCEPT ![s] = NoLocals] PROVE SignalerLocals(s)
  BY <1>0, <1>2, SetLoc, NoLocalsType DEF SignalerLocals, WithLocals
<1>3. ASSUME NEW w \in Word32, loc' = [loc EXCEPT ![s].val = w] PROVE SignalerLocals(s)
  BY <1>0, <1>3, SetLocal DEF SignalerLocals, KeepPosition
<1>4. CASE SignalerCall(s)
  <2>1. CASE CallDestroy(s)
    <3> DEFINE w == IF Destroying(cond.wrefs) THEN cond.wrefs ELSE cond.wrefs + 4
    <3>1. w \in Word32
      <4>1. PICK x \in Word32 : x = cond.wrefs
        BY SignalerValues
      <4>2. ~Destroying(x) => x + 4 \in Word32
        BY Destroying32 DEF Word32
      <4> QED
        BY <4>1, <4>2
    <3>2. "destroy" \in Calls /\ loc' = [loc EXCEPT ![s].val = w, ![s].ctl = "destroy"]
      BY <2>1, <1>4 DEF SignalerCall, CallDestroy, CallWake, CallWakeNobody, Goto,
         _DestroyingBit
    <3> HIDE DEF w
    <3> QED
      BY <1>0, <3>1, <3>2, SetLocals DEF LocalsSet
  <2>2. ASSUME NEW call \in Calls \ {"destroy"}, CallWake(s, call) PROVE SignalerLocals(s)
    BY <1>0, <2>2, SetLocal DEF CallWake, KeepPosition, SignalerLocals
  <2>3. ASSUME NEW call \in Calls \ {"destroy"}, CallWakeNobody(s, call) PROVE SignalerLocals(s)
    BY <1>1, <2>3 DEF CallWakeNobody
  <2> QED
    BY <1>4, <2>1, <2>2, <2>3 DEF SignalerCall
<1>5. CASE DestroyStep(s)
  <2>1. CASE DestroyReload(s)
    BY <1>3, <2>1, SignalerValues DEF DestroyReload
  <2> QED
    BY <1>1, <1>2, <1>5, <2>1 DEF DestroyStep, DestroyWait, DestroyReturn, OnlyFutex
<1>6. CASE SignalStep(s)
  <2>1. CASE LoadSeq(s)
    BY <1>0, <2>1, SetLocals, SignalerValues DEF LoadSeq, LocalsSet
  <2>2. CASE CheckG2(s)
    <3> DEFINE end == _Seq(cond.g1_start) + cond.orig_size
               empty == (loc[s].seq - end + cond.g_size[_GAnother(G(s))]) % U32 = 0
               b == IF empty THEN 0 ELSE end
    <3>1. b \in Nat
      BY SignalerValues
    <3>2. loc' = [loc EXCEPT ![s].seq = 0, ![s].base = b]
      BY <2>2 DEF CheckG2
    <3> HIDE DEF b
    <3> QED
      BY <1>0, <3>1, <3>2, SetLocals DEF LocalsSet
  <2>3. CASE RequestWake(s)
    <3> DEFINE r == SetLSB(cond.g_refs[G(s)])
               w == IF r \div 2 = 0 THEN 0 ELSE r
    <3>1. w \in Word32
      BY SignalerValues
    <3>2. loc' = [loc EXCEPT ![s].val = w]
      BY <2>3 DEF RequestWake
    <3> HIDE DEF w
    <3> QED
      BY <1>3, <3>1, <3>2
  <2>4. CASE WaitRefs(s)
    BY <1>0, <1>3, <2>4 DEF WaitRefs
  <2>5. CASE SwitchGroups(s)
    BY <1>0, <2>5, SetLocals, SignalerValues DEF SwitchGroups, LocalsSet
  <2>6. CASE Post(s)
    BY <1>0, <2>6, SetLocals DEF Post, LocalsSet
  <2>7. CASE InnerUnlock(s) \/ WakeG1(s)
    BY <1>1, <1>2, <2>7 DEF InnerUnlock, WakeG1, Return
  <2> QED
    BY <1>1, <1>6, <2>1, <2>2, <2>3, <2>4, <2>5, <2>6, <2>7 DEF SignalStep, InnerLock,
       BroadcastG1, BroadcastWakeG1, CloseG1, LoadRefs, AdvanceG1Start, ReopenSlot,
       OnlyCond, OnlyLocals, OnlyFutex
<1> QED
  BY <1>4, <1>5, <1>6

\* What a signaler's step does to the struct.
SignalerWrites(s) ==
  /\ cond' \in CondType
  /\ (BroadcastG1(s) \/ Post(s) \/ AdvanceG1Start(s) \/ SwitchGroups(s)) \/ KeepGroups
  /\ CallDestroy(s) \/ KeepWrefs
  /\ \A i \in {0, 1} : cond'.g_refs[i] \div 2 = cond.g_refs[i] \div 2
  /\ (BroadcastG1(s) \/ Post(s) \/ CloseG1(s) \/ ReopenSlot(s)) \/ KeepSignals

\* Two steps that give signals: their arithmetic stays in a uint32_t.
LEMMA GiveValues ==
  ASSUME cond \in CondType, NEW i \in {0, 1}
  PROVE  /\ (cond.g_signals[i] + 2 * cond.g_size[i]) % U32 \in Word32
         /\ (cond.g_signals[i] + 2) % U32 \in Word32
         /\ (cond.g_size[i] - 1) % U32 \in Word32
<1>1. PICK a \in Word32, z \in Word32 : a = cond.g_signals[i] /\ z = cond.g_size[i]
  BY CondFields DEF Word32
<1>2. a + 2 * z \in Int /\ a + 2 \in Int /\ z - 1 \in Int
  BY Width DEF Word32
<1> QED
  BY <1>1, <1>2, Mod32 DEF Word32

LEMMA SwitchValues ==
  ASSUME Types, NEW s \in Signalers, NEW g1 \in {0, 1}
  PROVE  LET orig == G2Size(s, _Seq(cond.wseq))
         IN  /\ orig \in Word32 /\ (cond.g_size[g1] + orig) % U32 \in Word32
             /\ ((orig * 4) % U32) \div 4 \in 0..(U32 \div 4 - 1)
             /\ _Seq(cond.wseq) * 2 + G(s) \in Nat
<1> DEFINE orig == G2Size(s, _Seq(cond.wseq))
<1>1. _Seq(cond.wseq) \in Nat /\ loc[s].base \in Nat /\ G(s) \in {0, 1}
  BY SignalerValues, LocFields
<1>2. orig \in Word32
  <2>1. _Seq(cond.wseq) - loc[s].base \in Int
    BY <1>1
  <2> QED
    BY <2>1, Mod32 DEF G2Size, Word32
<1>3. orig \in Int
  BY <1>2, Width DEF Word32
<1> HIDE DEF orig
<1>4. PICK z \in Word32 : z = cond.g_size[g1]
  BY SignalerValues, CondFields DEF Word32
<1>5. z + orig \in Int
  BY <1>3, Width DEF Word32
<1>6. (z + orig) % U32 \in Word32
  BY <1>5, Mod32 DEF Word32
<1>7. ((orig * 4) % U32) \div 4 \in 0..(U32 \div 4 - 1)
  BY <1>3, Shift32
<1>8. _Seq(cond.wseq) * 2 + G(s) \in Nat
  BY <1>1
<1> QED
  BY <1>2, <1>4, <1>6, <1>7, <1>8 DEF orig

LEMMA SignalerWritesKept ==
  ASSUME Types, NEW s \in Signalers, SignalerCall(s) \/ SignalStep(s) \/ DestroyStep(s)
  PROVE  SignalerWrites(s)
<1>0. cond \in CondType /\ G(s) \in {0, 1} /\ _GAnother(G(s)) \in {0, 1}
  BY SignalerValues
<1>1. ASSUME cond' = cond PROVE SignalerWrites(s)
  BY <1>0, <1>1 DEF SignalerWrites, KeepGroups, KeepWrefs, KeepSignals
<1>2. CASE CallDestroy(s)
  <2> DEFINE w == IF Destroying(cond.wrefs) THEN cond.wrefs ELSE cond.wrefs + 4
  <2>1. w \in Word32
    <3>1. PICK x \in Word32 : x = cond.wrefs
      BY SignalerValues
    <3>2. ~Destroying(x) => x + 4 \in Word32
      BY Destroying32 DEF Word32
    <3> QED
      BY <3>1, <3>2
  <2>2. cond' = [cond EXCEPT !.wrefs = w]
    BY <1>2 DEF CallDestroy, _DestroyingBit
  <2> HIDE DEF w
  <2> QED
    BY <1>0, <1>2, <2>1, <2>2, SetWrefs DEF SignalerWrites, KeepRefs
<1>3. CASE BroadcastG1(s) \/ Post(s)
  <2>1. PICK w \in Word32, z \in Word32 :
          cond' = WithGiven(G(s), w, z)
    <3>1. 0 \in Word32
      BY Width DEF Word32
    <3>2. CASE cond' = GiveAll(G(s))
      <4> DEFINE w == (cond.g_signals[G(s)] + 2 * cond.g_size[G(s)]) % U32
      <4>1. w \in Word32
        BY <1>0, GiveValues
      <4>2. cond' = WithGiven(G(s), w, 0)
        BY <3>2 DEF GiveAll, WithGiven
      <4> HIDE DEF w
      <4> QED
        BY <3>1, <4>1, <4>2
    <3>3. CASE cond' = GiveOne(G(s))
      <4> DEFINE w == (cond.g_signals[G(s)] + 2) % U32
                 z == (cond.g_size[G(s)] - 1) % U32
      <4>1. w \in Word32 /\ z \in Word32
        BY <1>0, GiveValues
      <4>2. cond' = WithGiven(G(s), w, z)
        BY <3>3 DEF GiveOne, _SignalsStep, WithGiven
      <4> HIDE DEF w, z
      <4> QED
        BY <4>1, <4>2
    <3> QED
      BY <1>3, <3>2, <3>3 DEF BroadcastG1, Post
  <2> QED
    BY <1>0, <1>3, <2>1, SetGiven DEF SignalerWrites, KeepRefs
<1>4. CASE CloseG1(s) \/ ReopenSlot(s)
  <2>1. PICK w \in Word32 : cond' = [cond EXCEPT !.g_signals[G(s)] = w]
    <3>1. PICK x \in Word32 : x = cond.g_signals[G(s)]
      BY <1>0, CondFields DEF Word32
    <3>2. SetLSB(x) \in Word32 /\ 0 \in Word32
      BY Flag32, Width DEF Word32
    <3> QED
      BY <1>4, <3>1, <3>2 DEF CloseG1, ReopenSlot
  <2> QED
    BY <1>0, <1>4, <2>1, SetSignals DEF SignalerWrites, KeepRefs
<1>5. CASE RequestWake(s)
  <2> DEFINE r == SetLSB(cond.g_refs[G(s)])
  <2>1. r \in Word32 /\ r \div 2 = cond.g_refs[G(s)] \div 2
    BY SignalerValues
  <2>2. cond' = [cond EXCEPT !.g_refs[G(s)] = r]
    BY <1>5 DEF RequestWake
  <2> HIDE DEF r
  <2>3. /\ cond' \in CondType /\ cond'.g_refs[G(s)] = r
        /\ cond'.g_refs[1 - G(s)] = cond.g_refs[1 - G(s)]
        /\ KeepGroups /\ KeepWrefs /\ KeepSignals
    BY <1>0, <2>1, <2>2, SetRefs
  <2>4. \A i \in {0, 1} : cond'.g_refs[i] \div 2 = cond.g_refs[i] \div 2
    BY <1>0, <2>1, <2>3
  <2> QED
    BY <2>3, <2>4 DEF SignalerWrites
<1>6. CASE AdvanceG1Start(s)
  <2> DEFINE d == 2 * cond.orig_size + (IF G(s) = 1 THEN 1 ELSE -1)
             n == cond.g1_start + (d % U32)
  <2>1. n \in Nat
    <3>1. PICK x \in Nat, y \in Nat : x = cond.g1_start /\ y = cond.orig_size
      BY <1>0, Width, CondFields
    <3>2. d \in Int
      BY <3>1
    <3> HIDE DEF d
    <3>3. d % U32 \in Nat
      BY <3>2, Mod32, Width
    <3> QED
      BY <3>1, <3>3
  <2>2. cond' = [cond EXCEPT !.g1_start = n]
    BY <1>6 DEF AdvanceG1Start
  <2> HIDE DEF n
  <2> QED
    BY <1>0, <1>6, <2>1, <2>2, SetStart DEF SignalerWrites, KeepRefs
<1>7. CASE SwitchGroups(s)
  <2> DEFINE g1 == _GAnother(G(s))
             orig == G2Size(s, _Seq(cond.wseq))
             z == (cond.g_size[g1] + orig) % U32
             o == ((orig * 4) % U32) \div 4
             n == _Seq(cond.wseq) * 2 + G(s)
  <2>1. z \in Word32 /\ o \in 0..(U32 \div 4 - 1) /\ n \in Nat
    BY <1>0, SwitchValues
  <2>2. cond' = WithSwitch(g1, n, z, o)
    BY <1>7 DEF SwitchGroups, _OrigSizeStep, WithSwitch
  <2>3. g1 \in {0, 1}
    BY <1>0
  <2> HIDE DEF z, o, n, g1
  <2> QED
    BY <1>0, <1>7, <2>1, <2>2, <2>3, SetSwitch DEF SignalerWrites, KeepRefs
<1> QED
  BY <1>1, <1>2, <1>3, <1>4, <1>5, <1>6, <1>7 DEF SignalerCall, SignalStep, DestroyStep,
     CallWake, CallWakeNobody, DestroyWait, DestroyReload, DestroyReturn, InnerLock, LoadSeq,
     BroadcastWakeG1, CheckG2, LoadRefs, WaitRefs, InnerUnlock, WakeG1, OnlyLocals, OnlyFutex

LEMMA SignalerSleeps ==
  ASSUME Types, NEW s \in Signalers, SignalerCall(s) \/ SignalStep(s) \/ DestroyStep(s)
  PROVE  /\ asleep' \in [Threads -> Words \cup {NoWord}]
         /\ \A u \in Threads : u # s => asleep'[u] \in {asleep[u], NoWord}
<1>0. /\ s \in Threads /\ asleep \in [Threads -> Words \cup {NoWord}]
      /\ ref(G(s)) \in Words /\ wref \in Words
  BY SignalerValues, CondAssumption DEF Types, ref, wref
<1>1. CASE DestroyWait(s) \/ WaitRefs(s)
  BY <1>0, <1>1 DEF DestroyWait, WaitRefs, FutexWait
<1>2. ASSUME NEW w, FutexWakeAll(w) \/ FutexWakeOne(w)
      PROVE  /\ asleep' \in [Threads -> Words \cup {NoWord}]
             /\ \A u \in Threads : u # s => asleep'[u] \in {asleep[u], NoWord}
  BY <1>0, <1>2 DEF FutexWakeAll, FutexWakeOne, Sleepers
<1>3. CASE BroadcastWakeG1(s) \/ WakeG1(s)
  BY <1>2, <1>3 DEF BroadcastWakeG1, WakeG1
<1>4. ASSUME asleep' = asleep
      PROVE  /\ asleep' \in [Threads -> Words \cup {NoWord}]
             /\ \A u \in Threads : u # s => asleep'[u] \in {asleep[u], NoWord}
  BY <1>0, <1>4
<1> QED
  BY <1>1, <1>3, <1>4 DEF SignalerCall, SignalStep, DestroyStep, CallWake, CallWakeNobody,
     CallDestroy, DestroyReload, DestroyReturn, InnerLock, LoadSeq, BroadcastG1, CheckG2,
     CloseG1, LoadRefs, RequestWake, AdvanceG1Start, ReopenSlot, SwitchGroups, Post,
     InnerUnlock, OnlyCond, OnlyLocals

\* The locks, the state of the struct's life and the history.
LEMMA SignalerOwners ==
  ASSUME Types, NEW s \in Signalers, SignalerCall(s) \/ SignalStep(s) \/ DestroyStep(s)
  PROVE  /\ inner' \in Signalers \cup {NoWord} /\ mutex' \in Threads \cup {NoWord}
         /\ dead' \in {"live", "destroying", "dead"}
         /\ credit' \in Nat /\ repaired' = repaired
         /\ (InnerLock(s) \/ InnerUnlock(s)) \/ inner' = inner
         /\ (CallDestroy(s) \/ DestroyReturn(s)) \/ dead' = dead
<1>0. s \in Threads /\ credit \in Nat
  BY CondAssumption DEF Types
<1> USE DEF Types
<1>1. CASE SignalerCall(s)
  <2>1. CASE CallDestroy(s)
    BY <2>1 DEF CallDestroy, history
  <2>2. ASSUME NEW call \in Calls \ {"destroy"}, CallWake(s, call) \/ CallWakeNobody(s, call)
        PROVE  /\ inner' = inner /\ mutex' \in Threads \cup {NoWord} /\ dead' = dead
               /\ credit' \in Nat /\ repaired' = repaired
    BY <1>0, <2>2, OwedType DEF CallWake, CallWakeNobody
  <2> QED
    BY <1>1, <2>1, <2>2 DEF SignalerCall
<1>2. CASE DestroyStep(s)
  BY <1>2 DEF DestroyStep, DestroyWait, DestroyReload, DestroyReturn, OnlyFutex, OnlyLocals,
     history
<1>3. CASE InnerLock(s) \/ InnerUnlock(s) \/ WakeG1(s)
  BY <1>0, <1>3 DEF InnerLock, InnerUnlock, WakeG1, Return, history
<1>4. CASE LoadSeq(s) \/ BroadcastG1(s) \/ BroadcastWakeG1(s) \/ CheckG2(s) \/ CloseG1(s)
           \/ LoadRefs(s) \/ RequestWake(s) \/ WaitRefs(s)
  BY <1>4 DEF LoadSeq, BroadcastG1, BroadcastWakeG1, CheckG2, CloseG1, LoadRefs,
     RequestWake, WaitRefs, OnlyCond, OnlyLocals, OnlyFutex, history
<1>5. CASE AdvanceG1Start(s) \/ ReopenSlot(s) \/ SwitchGroups(s) \/ Post(s)
  BY <1>5 DEF AdvanceG1Start, ReopenSlot, SwitchGroups, Post, OnlyCond, history
<1> QED
  BY <1>1, <1>2, <1>3, <1>4, <1>5 DEF SignalStep

LEMMA SignalerSteps ==
  ASSUME Types, NEW s \in Signalers, SignalerCall(s) \/ SignalStep(s) \/ DestroyStep(s)
  PROVE  SignalerEffect(s)
<1>1. SignalerMoves(s) /\ SignalerLocals(s) /\ SignalerWrites(s)
  BY SignalerPlaces, SignalerLocalsKept, SignalerWritesKept
<1>2. repaired' \in BOOLEAN
  BY SignalerOwners DEF Types
<1>3. /\ inner' \in Signalers \cup {NoWord} /\ mutex' \in Threads \cup {NoWord}
      /\ dead' \in {"live", "destroying", "dead"} /\ credit' \in Nat
  BY SignalerOwners
<1>4. /\ (InnerLock(s) \/ InnerUnlock(s)) \/ inner' = inner
      /\ (CallDestroy(s) \/ DestroyReturn(s)) \/ dead' = dead
  BY SignalerOwners
<1>5. /\ asleep' \in [Threads -> Words \cup {NoWord}]
      /\ \A u \in Threads : u # s => asleep'[u] \in {asleep[u], NoWord}
  BY SignalerSleeps
<1>6. Types'
  BY <1>1, <1>2, <1>3, <1>5 DEF SignalerMoves, SignalerLocals, SignalerWrites, Types
<1>7. KeepOthers(s) /\ pc'[s] \in {"user"} \cup SignalPCs
  BY <1>1 DEF SignalerMoves, SignalerLocals, KeepOthers
<1>8. (InnerLock(s) \/ InnerUnlock(s)) \/
        (inner' = inner /\ (pc'[s] \in InnerPCs <=> pc[s] \in InnerPCs))
  BY <1>1, <1>4 DEF SignalerMoves
<1>9. (CallDestroy(s) \/ DestroyReturn(s)) \/ (KeepWrefs /\ dead' = dead)
  BY <1>1, <1>4 DEF SignalerWrites
<1>10. /\ (BroadcastG1(s) \/ Post(s) \/ AdvanceG1Start(s) \/ SwitchGroups(s)) \/ KeepGroups
       /\ (BroadcastG1(s) \/ Post(s) \/ CloseG1(s) \/ ReopenSlot(s)) \/ KeepSignals
       /\ \A i \in {0, 1} : cond'.g_refs[i] \div 2 = cond.g_refs[i] \div 2
  BY <1>1 DEF SignalerWrites
<1> QED
  BY <1>5, <1>6, <1>7, <1>8, <1>9, <1>10 DEF SignalerEffect

-----------------------------------------------------------------------------
LEMMA TypesInit == Init => Types
<1> SUFFICES ASSUME Init PROVE Types
  OBVIOUS
<1>1. pthread_cond_init \in CondType
  BY Width DEF pthread_cond_init, CondType
<1>2. NoLocals \in LocType
  BY NoLocalsType
<1> QED
  BY <1>1, <1>2 DEF Init, Types, Places, FutexInit

LEMMA TypesStep == Types /\ [Next]_vars => Types'
<1> SUFFICES ASSUME Types, [Next]_vars PROVE Types'
  OBVIOUS
<1>1. CASE UNCHANGED vars
  BY <1>1 DEF vars, Types
<1>2. CASE Next
  BY <1>2, WaiterSteps, SignalerSteps DEF Next, WaiterEffect, SignalerEffect
<1> QED
  BY <1>1, <1>2

\* The types of the struct and of the locals, for any number of threads. A sum
\* taken in a uint32_t is in range as such; what is shown is that a signal is
\* consumed only where there is one and that the destroy flag does not carry
\* (pthread_cond.h:58-60, 105-123). CountsNeverWrap says that no sum wraps.
LEMMA CondTypeCorrect == Spec => []TypeOK
<1>1. Types => TypeOK
  BY TypesNamed
<1> QED
  BY <1>1, TypesInit, TypesStep, PTL DEF Spec

-----------------------------------------------------------------------------
(* Where the threads are *)

LEMMA PlaceInit == Init => PlaceInv
  BY CondAssumption DEF Init, PlaceInv, InnerPCs

LEMMA PlaceStep == Types /\ PlaceInv /\ [Next]_vars => PlaceInv'
<1> SUFFICES ASSUME Types, PlaceInv, [Next]_vars PROVE PlaceInv'
  OBVIOUS
<1>0. Threads = Waiters \cup Signalers /\ Waiters \cap Signalers = {} /\ NoWord \notin Signalers
  BY CondAssumption
<1>1. CASE UNCHANGED vars
  BY <1>1 DEF vars, PlaceInv
<1>2. ASSUME NEW t \in Waiters, ClientLock(t) \/ WaitSeq(t) \/ WaitStep(t) PROVE PlaceInv'
  <2>1. WaiterEffect(t)
    BY <1>2, WaiterSteps
  <2> QED
    BY <1>0, <2>1 DEF WaiterEffect, KeepOthers, PlaceInv
<1>3. ASSUME NEW s \in Signalers, SignalerCall(s) \/ SignalStep(s) \/ DestroyStep(s)
      PROVE PlaceInv'
  <2>1. SignalerEffect(s)
    BY <1>3, SignalerSteps
  <2>2. \A u \in Threads : u # s => pc'[u] = pc[u]
    BY <2>1 DEF SignalerEffect, KeepOthers
  <2>3. (\A t \in Waiters : pc'[t] \in {"user"} \cup WaitPCs)
        /\ (\A u \in Signalers : pc'[u] \in {"user"} \cup SignalPCs)
    BY <1>0, <2>1, <2>2 DEF SignalerEffect, PlaceInv
  <2>4. \A u \in Signalers : pc'[u] \in InnerPCs <=> inner' = u
    <3>1. CASE InnerLock(s)
      <4>1. pc'[s] = "s_seq" /\ inner = NoWord /\ inner' = s
        BY <1>0, <3>1 DEF InnerLock, Goto, Types
      <4> QED
        BY <1>0, <2>2, <4>1 DEF PlaceInv, InnerPCs
    <3>2. CASE InnerUnlock(s)
      <4>1. pc[s] = "s_unlock" /\ pc'[s] \in {"s_wake", "user"} /\ inner' = NoWord
        BY <1>0, <3>2 DEF InnerUnlock, Goto, Types
      <4>2. inner = s
        BY <4>1 DEF PlaceInv, InnerPCs
      <4> QED
        BY <1>0, <2>2, <4>1, <4>2 DEF PlaceInv, InnerPCs
    <3>3. CASE inner' = inner /\ (pc'[s] \in InnerPCs <=> pc[s] \in InnerPCs)
      BY <1>0, <2>2, <3>3 DEF PlaceInv
    <3> QED
      BY <2>1, <3>1, <3>2, <3>3 DEF SignalerEffect
  <2> QED
    BY <2>3, <2>4 DEF PlaceInv
<1> QED
  BY <1>1, <1>2, <1>3 DEF Next

-----------------------------------------------------------------------------
(* pthread_cond_destroy *)

\* The three upper fields of wrefs hold every waiter: 2^29 - 1 in the code.
FewWaiters == 8 * Cardinality(Waiters) < U32

DestroyPCs == {"d_test", "d_load"}

LEMMA ReferencedFinite ==
  /\ IsFiniteSet(Referenced) /\ Cardinality(Referenced) \in Nat
  /\ Cardinality(Waiters) \in Nat /\ Cardinality(Referenced) <= Cardinality(Waiters)
<1>1. IsFiniteSet(Waiters)
  BY CondAssumption, FS_Subset
<1>2. Referenced \subseteq Waiters
  BY DEF Referenced
<1> QED
  BY <1>1, <1>2, FS_Subset, FS_CardinalityType

\* Which steps of a signaler lead into pthread_cond_destroy.
LEMMA DestroyPlaces ==
  ASSUME Types, NEW s \in Signalers, SignalerCall(s) \/ SignalStep(s) \/ DestroyStep(s)
  PROVE  \/ CallDestroy(s)
         \/ /\ pc'[s] \in DestroyPCs => pc[s] \in DestroyPCs
            /\ pc'[s] = "d_test" => loc'[s].val = cond.wrefs /\ KeepWrefs
<1>0. s \in Threads /\ pc \in [Threads -> Places] /\ loc \in [Threads -> LocType]
  BY SignalerValues DEF Types
<1> USE DEF Goto, DestroyPCs
<1>1. CASE SignalerCall(s)
  BY <1>0, <1>1 DEF SignalerCall, CallWake, CallWakeNobody
<1>2. CASE DestroyReload(s)
  BY <1>0, <1>2 DEF DestroyReload, OnlyLocals, KeepWrefs, LocType
<1>3. CASE DestroyWait(s) \/ DestroyReturn(s)
  BY <1>0, <1>3 DEF DestroyWait, DestroyReturn
<1>4. CASE InnerLock(s) \/ InnerUnlock(s) \/ LoadSeq(s) \/ CheckG2(s) \/ LoadRefs(s)
  BY <1>0, <1>4 DEF LoadSeq, CheckG2, LoadRefs, InnerLock, InnerUnlock
<1>5. CASE BroadcastG1(s) \/ BroadcastWakeG1(s) \/ CloseG1(s) \/ RequestWake(s) \/ WaitRefs(s)
  BY <1>0, <1>5 DEF BroadcastG1, BroadcastWakeG1, CloseG1, RequestWake, WaitRefs
<1>6. CASE AdvanceG1Start(s) \/ ReopenSlot(s) \/ SwitchGroups(s) \/ Post(s) \/ WakeG1(s)
  BY <1>0, <1>6 DEF AdvanceG1Start, ReopenSlot, SwitchGroups, Post, WakeG1
<1> QED
  BY <1>1, <1>2, <1>3, <1>4, <1>5, <1>6 DEF SignalStep, DestroyStep

\* wrefs counts exactly: no step of a waiter carries or borrows.
LEMMA WaiterDestroys ==
  ASSUME FewWaiters, Types, PlaceInv, DestroyInv,
         NEW t \in Waiters, ClientLock(t) \/ WaitSeq(t) \/ WaitStep(t)
  PROVE  DestroyInv'
<1> DEFINE flag == IF dead = "live" THEN 0 ELSE 4
           n == Cardinality(Referenced)
<1>0. /\ t \in Threads /\ pc \in [Threads -> Places] /\ Signalers \subseteq Threads
      /\ Waiters \subseteq Threads /\ t \notin Signalers
  BY CondAssumption DEF Types
<1>1. WaiterEffect(t)
  BY WaiterSteps
<1>2. /\ KeepOthers(t) /\ dead' = dead
  BY <1>1 DEF WaiterEffect
<1>3. dead # "live" => \A u \in Waiters : pc'[u] # "wref"
  <2>1. WaitSeq(t) => dead = "live"
    BY DEF WaitSeq
  <2>2. WaitRef(t) \/ WaitUnref(t) => pc'[t] # "wref"
    BY <1>0 DEF WaitRef, WaitUnref, Goto
  <2>3. pc[t] # "wref" /\ dead # "live" => pc'[t] # "wref"
    BY <1>1, <2>1, <2>2 DEF WaiterEffect, WaitingPCs
  <2> QED
    BY <1>0, <1>2, <2>3 DEF DestroyInv, KeepOthers
<1>4. /\ cond'.wrefs = 8 * Cardinality(Referenced') + flag
      /\ dead # "live" => cond'.wrefs <= cond.wrefs /\ Referenced' \subseteq Referenced
  <2>0. /\ n \in Nat /\ IsFiniteSet(Referenced) /\ cond.wrefs = 8 * n + flag
        /\ cond \in CondType /\ Cardinality(Waiters) \in Nat /\ n <= Cardinality(Waiters)
    BY ReferencedFinite DEF DestroyInv, Types
  <2>1. CASE WaitRef(t)
    <3>1. /\ pc[t] = "wref" /\ dead = "live" /\ cond' = [cond EXCEPT !.wrefs = (@ + 8) % U32]
      BY <2>1 DEF WaitRef, Goto, DestroyInv, _WaitersRefStep
    <3>2. t \notin Referenced /\ Referenced' = Referenced \cup {t}
      BY <1>0, <1>2, <2>1 DEF WaitRef, Goto, Referenced, WaitingPCs, KeepOthers
    <3>3. Cardinality(Referenced') = n + 1
      BY <2>0, <3>2, FS_AddElement
    <3>4. n + 1 <= Cardinality(Waiters)
      <4>1. Referenced' \subseteq Waiters /\ IsFiniteSet(Waiters)
        BY <3>2, CondAssumption, FS_Subset DEF Referenced
      <4> QED
        BY <3>3, <4>1, FS_Subset
    <3>5. cond'.wrefs = (8 * n + 8) % U32
      BY <2>0, <3>1 DEF CondType
    <3> HIDE DEF n
    <3>6. 8 * n + 8 \in 0..(U32 - 1)
      BY <2>0, <3>4, Width DEF FewWaiters
    <3> QED
      BY <2>0, <3>1, <3>3, <3>5, <3>6, Mod32
  <2>2. CASE WaitUnref(t)
    <3>1. /\ pc[t] = "done" /\ cond' = [cond EXCEPT !.wrefs = (@ - 8) % U32]
      BY <2>2 DEF WaitUnref, Goto, _WaitersRefStep
    <3>2. t \in Referenced /\ Referenced' = Referenced \ {t}
      BY <1>0, <1>2, <2>2 DEF WaitUnref, Goto, Referenced, WaitingPCs, KeepOthers
    <3>3. Cardinality(Referenced') = n - 1 /\ n > 0
      BY <2>0, <3>2, FS_RemoveElement, FS_EmptySet
    <3>4. cond'.wrefs = (8 * n + flag - 8) % U32
      BY <2>0, <3>1 DEF CondType
    <3>5. cond.wrefs \in 0..(U32 - 1)
      BY <2>0, CondFields
    <3> HIDE DEF n, flag
    <3>6. flag \in {0, 4}
      BY DEF flag
    <3>7. 8 * n + flag - 8 \in 0..(U32 - 1)
      BY <2>0, <3>3, <3>5, <3>6, Width
    <3>8. cond'.wrefs = 8 * n + flag - 8
      BY <3>4, <3>7, Mod32
    <3> QED
      BY <2>0, <3>2, <3>3, <3>6, <3>8
  <2>3. CASE KeepWrefs /\ (pc'[t] \in WaitingPCs \ {"wref"} <=> pc[t] \in WaitingPCs \ {"wref"})
    <3>1. Referenced' = Referenced
      BY <1>0, <1>2, <2>3 DEF Referenced, KeepOthers
    <3> QED
      BY <2>0, <2>3, <3>1 DEF KeepWrefs
  <2> QED
    BY <1>1, <2>1, <2>2, <2>3 DEF WaiterEffect
<1>5. \A s \in Signalers : pc'[s] = pc[s] /\ loc'[s] = loc[s]
  BY <1>0, <1>2 DEF KeepOthers
<1>6. \A s \in Signalers : pc'[s] = "d_test" => loc'[s].val >= cond'.wrefs
  <2> SUFFICES ASSUME NEW s \in Signalers, pc[s] = "d_test"
               PROVE loc[s].val >= cond'.wrefs
    BY <1>5
  <2>1. loc[s].val >= cond.wrefs /\ cond'.wrefs <= cond.wrefs
    BY <1>4 DEF DestroyInv
  <2>2. loc[s].val \in Int /\ cond.wrefs \in Int /\ cond'.wrefs \in Int
    BY <1>1, LocFields, CondFields, Width, SignalerValues DEF WaiterEffect, Types
  <2> QED
    BY <2>1, <2>2
<1> QED
  BY <1>2, <1>3, <1>4, <1>5, <1>6 DEF DestroyInv

\* The destroy flag and the count the destroyer waits for.
LEMMA SignalerDestroys ==
  ASSUME FewWaiters, Types, PlaceInv, DestroyInv, NEW s \in Signalers,
         SignalerCall(s) \/ SignalStep(s) \/ DestroyStep(s)
  PROVE  DestroyInv'
<1>0. /\ s \in Threads /\ pc \in [Threads -> Places] /\ Signalers \subseteq Threads
      /\ Waiters \subseteq Threads /\ s \notin Waiters /\ cond.wrefs \in Nat
  BY CondAssumption, CondFields, Width DEF Types
<1>1. SignalerEffect(s)
  BY SignalerSteps
<1>2. \A u \in Threads : u # s => pc'[u] = pc[u] /\ loc'[u] = loc[u]
  BY <1>1 DEF SignalerEffect, KeepOthers
<1>3. Referenced' = Referenced /\ \A t \in Waiters : pc'[t] = pc[t]
  BY <1>0, <1>2 DEF Referenced
<1>4. CASE CallDestroy(s)
  <2>1. /\ dead = "live" /\ dead' = "destroying" /\ pc'[s] = "d_test"
        /\ \A u \in Signalers : u # s => pc[u] = "user"
        /\ \A t \in Waiters : pc[t] # "wref"
    BY <1>0, <1>4 DEF CallDestroy, MayDestroy, Goto
  <2>2. cond.wrefs = 8 * Cardinality(Referenced)
    BY <2>1, ReferencedFinite DEF DestroyInv
  <2>3. ~Destroying(cond.wrefs)
    BY <2>2, ReferencedFinite DEF Destroying
  <2>4. cond'.wrefs = cond.wrefs + 4 /\ loc'[s].val = cond.wrefs + 4
    <3> DEFINE w == cond.wrefs + 4
    <3>1. cond \in CondType /\ loc \in [Threads -> LocType] /\ loc[s] \in LocType
      BY SignalerValues
    <3>2. /\ cond' = [cond EXCEPT !.wrefs = w]
          /\ loc' = [loc EXCEPT ![s].val = w, ![s].ctl = "destroy"]
      BY <1>4, <2>3 DEF CallDestroy, _DestroyingBit
    <3> HIDE DEF w
    <3>3. loc'[s] = [loc[s] EXCEPT !.val = w, !.ctl = "destroy"]
      BY <1>0, <3>1, <3>2
    <3>4. cond'.wrefs = w /\ loc'[s].val = w
      BY <3>1, <3>2, <3>3 DEF CondType, LocType
    <3> QED
      BY <3>4 DEF w
  <2> QED
    BY <1>0, <1>2, <1>3, <2>1, <2>2, <2>4 DEF DestroyInv
<1>5. CASE DestroyReturn(s)
  <2>1. /\ pc[s] = "d_test" /\ pc'[s] = "user" /\ _WaitersRef(loc[s].val) = 0
        /\ dead' = "dead" /\ cond' = cond
    BY <1>0, <1>5 DEF DestroyReturn, Goto
  <2>2. /\ dead = "destroying" /\ loc[s].val >= cond.wrefs
        /\ cond.wrefs = 8 * Cardinality(Referenced) + 4
        /\ \A u \in Signalers : u # s => pc[u] \notin {"d_test", "d_load"}
    BY <2>1 DEF DestroyInv
  <2>3. Cardinality(Referenced) = 0
    <3>1. loc[s].val \in Nat /\ Cardinality(Referenced) \in Nat
      BY ReferencedFinite, SignalerValues, LocFields, Width
    <3> QED
      BY <2>1, <2>2, <3>1 DEF _WaitersRef
  <2>4. Referenced = {}
    BY <2>3, ReferencedFinite, FS_EmptySet
  <2> QED
    BY <1>0, <1>2, <1>3, <2>1, <2>2, <2>4 DEF DestroyInv
<1>6. CASE ~CallDestroy(s) /\ ~DestroyReturn(s)
  <2>1. cond'.wrefs = cond.wrefs /\ dead' = dead
    BY <1>1, <1>6 DEF SignalerEffect, KeepWrefs
  <2>2. /\ pc'[s] \in DestroyPCs => pc[s] \in DestroyPCs
        /\ pc'[s] = "d_test" => loc'[s].val = cond.wrefs
    BY <1>6, DestroyPlaces
  <2> QED
    BY <1>0, <1>2, <1>3, <2>1, <2>2 DEF DestroyInv, DestroyPCs
<1> QED
  BY <1>4, <1>5, <1>6

LEMMA DestroyInit == Init => DestroyInv
<1> SUFFICES ASSUME Init PROVE DestroyInv
  OBVIOUS
<1>1. Referenced = {}
  BY CondAssumption DEF Init, Referenced, WaitingPCs
<1>2. Cardinality(Referenced) = 0
  BY <1>1, FS_EmptySet
<1> QED
  BY <1>1, <1>2, CondAssumption DEF Init, DestroyInv, pthread_cond_init

LEMMA DestroyUnchanged == ASSUME DestroyInv, UNCHANGED vars PROVE DestroyInv'
<1>1. Referenced' = Referenced
  BY DEF vars, Referenced
<1> QED
  BY <1>1 DEF vars, DestroyInv

\* When pthread_cond_destroy has returned, every waiter has done its last access:
\* destroy returns only on a count of zero, no waiter that has a position is
\* missing from the count by then, and none can come after (pthread_cond.h:57-69
\* and :147-155), whatever the number of waiters and of destroying wakeups.
THEOREM DestroyedIsUntouched ==
  ASSUME FewWaiters PROVE Spec => []DestroyedUntouched
<1> DEFINE Inv == Types /\ PlaceInv /\ DestroyInv
<1>1. Init => Inv
  BY TypesInit, PlaceInit, DestroyInit
<1>2. Inv /\ [Next]_vars => Inv'
  <2> SUFFICES ASSUME Inv, [Next]_vars PROVE Inv'
    OBVIOUS
  <2>1. Types' /\ PlaceInv'
    BY TypesStep, PlaceStep
  <2>2. DestroyInv'
    BY WaiterDestroys, SignalerDestroys, DestroyUnchanged DEF Next
  <2> QED
    BY <2>1, <2>2
<1>3. Inv => DestroyedUntouched
  <2> SUFFICES ASSUME PlaceInv, DestroyInv, dead = "dead", NEW t \in Waiters
               PROVE pc[t] \in {"user", "held", "dtor_wake", "relock"}
    BY DEF DestroyedUntouched
  <2>1. pc[t] # "wref" /\ t \notin Referenced
    BY DEF DestroyInv
  <2> QED
    BY <2>1 DEF PlaceInv, Referenced, WaitingPCs, WaitPCs
<1> QED
  BY <1>1, <1>2, <1>3, PTL DEF Spec

-----------------------------------------------------------------------------
(* The two groups *)

\* The groups hold fewer positions than fit beside the two bits of the inner
\* lock: 2^30 in the code.
SmallGroups == Position - Start < U32 \div 4

\* Two indices, each the other's other.
LEMMA Slots ==
  /\ \A i \in {0, 1} : _GAnother(i) \in {0, 1} /\ _GAnother(_GAnother(i)) = i
                       /\ _GAnother(i) # i
  /\ \A i, j \in {0, 1} : i # j => j = _GAnother(i)
  BY DEF _GAnother

LEMMA GroupTypes ==
  ASSUME Types
  PROVE  /\ cond \in CondType /\ cond.wseq \in Nat /\ cond.g1_start \in Nat
         /\ cond.orig_size \in 0..(U32 \div 4 - 1) /\ cond.orig_size \in Nat
         /\ Position \in Nat /\ Start \in Nat /\ End \in Nat
         /\ _G2(cond.wseq) \in {0, 1} /\ _G2(cond.g1_start) \in {0, 1} /\ G1 \in {0, 1}
         /\ \A i \in {0, 1} : cond.g_size[i] \in Word32
<1>1. /\ cond \in CondType /\ cond.wseq \in Nat /\ cond.g1_start \in Nat
      /\ cond.orig_size \in 0..(U32 \div 4 - 1) /\ cond.orig_size \in Nat
      /\ \A i \in {0, 1} : cond.g_size[i] \in Word32
  BY Width, CondFields DEF Types, Word32
<1>2. Position \in Nat /\ Start \in Nat
  BY <1>1 DEF Position, Start, _Seq
<1>3. _G2(cond.wseq) \in {0, 1} /\ _G2(cond.g1_start) \in {0, 1}
  BY <1>1 DEF _G2
<1> QED
  BY <1>1, <1>2, <1>3 DEF End, G1, _GAnother

\* A step that leaves the groups alone leaves what is said about them alone.
LEMMA GroupsKept ==
  ASSUME KeepGroups
  PROVE  /\ Position' = Position /\ Start' = Start /\ End' = End /\ G1' = G1
         /\ Flipping' = Flipping /\ SteadyGroups' = SteadyGroups
         /\ _G2(cond.wseq)' = _G2(cond.wseq) /\ _G2(cond.g1_start)' = _G2(cond.g1_start)
<1> USE DEF KeepGroups, Position, Start, G1, Flipping
<1>1. Position' = Position /\ Start' = Start /\ G1' = G1 /\ Flipping' = Flipping
  OBVIOUS
<1>2. End' = End
  BY <1>1 DEF End
<1>3. SteadyGroups' = SteadyGroups
  BY <1>1 DEF SteadyGroups
<1> QED
  BY <1>1, <1>2, <1>3

LEMMA HolderKept ==
  ASSUME KeepGroups, NEW s, pc'[s] = pc[s], loc'[s] = loc[s], HolderInv(s)
  PROVE  HolderInv(s)'
  BY GroupsKept DEF HolderInv, G, KeepGroups

\* The holder of the inner lock finds the groups in order until it advances
\* g1_start.
LEMMA HolderFinds ==
  ASSUME PlaceInv, GroupInv, NEW s \in Signalers, pc[s] \in InnerPCs,
         pc[s] \notin {"q_reopen", "q_flip"}
  PROVE  ~Flipping /\ SteadyGroups /\ HolderInv(s)
<1>1. inner = s
  BY DEF PlaceInv
<1>2. \A u \in Signalers : pc[u] \notin {"q_reopen", "q_flip"}
  BY <1>1 DEF PlaceInv, InnerPCs
<1> QED
  BY <1>2 DEF GroupInv

LEMMA EndBound == ASSUME Types, GroupInv PROVE End <= Position /\ Start <= End
<1>1. CASE Flipping
  <2>1. PICK s \in Signalers : pc[s] \in {"q_reopen", "q_flip"}
    BY <1>1 DEF GroupInv
  <2>2. End < Position
    BY <2>1 DEF GroupInv, HolderInv
  <2> QED
    BY <1>1, <2>2, GroupTypes DEF End
<1>2. CASE ~Flipping
  BY <1>2, GroupTypes DEF GroupInv, SteadyGroups, End
<1> QED
  BY <1>1, <1>2

\* While one thread holds the inner lock, the others say nothing about the groups.
LEMMA GroupAssembly ==
  ASSUME Types, PlaceInv, GroupInv, NEW s \in Signalers, pc[s] \in InnerPCs,
         \A u \in Threads : u # s => pc'[u] = pc[u],
         Flipping' <=> pc'[s] \in {"q_reopen", "q_flip"},
         ~Flipping' => SteadyGroups', HolderInv(s)'
  PROVE  GroupInv'
<1>1. \A u \in Signalers : u # s => pc'[u] \notin InnerPCs
  BY CondAssumption DEF PlaceInv
<1>2. \A u \in Signalers : u # s => HolderInv(u)'
  BY <1>1 DEF HolderInv, InnerPCs
<1>3. \A u \in Signalers : u # s => pc'[u] \notin {"q_reopen", "q_flip"}
  BY <1>1 DEF InnerPCs
<1> QED
  BY <1>2, <1>3 DEF GroupInv

LEMMA GroupWaiter ==
  ASSUME Types, PlaceInv, GroupInv,
         NEW t \in Waiters, ClientLock(t) \/ WaitSeq(t) \/ WaitStep(t)
  PROVE  GroupInv'
<1>0. WaiterEffect(t) /\ Signalers \subseteq Threads /\ t \notin Signalers /\ t \in Threads
  BY WaiterSteps, CondAssumption
<1>1. \A s \in Signalers : pc'[s] = pc[s] /\ loc'[s] = loc[s]
  BY <1>0 DEF WaiterEffect, KeepOthers
<1>2. CASE cond'.wseq = cond.wseq
  <2>1. KeepGroups
    BY <1>0, <1>2 DEF WaiterEffect, KeepGroups
  <2>2. \A s \in Signalers : HolderInv(s) => HolderInv(s)'
    BY <1>1, <2>1, HolderKept
  <2> QED
    BY <1>1, <2>1, <2>2, GroupsKept DEF GroupInv
<1>3. CASE WaitSeq(t)
  <2>1. cond'.wseq = cond.wseq + 2
    BY <1>3, GroupTypes DEF WaitSeq, _SeqStep, CondType
  <2>2. /\ cond'.g1_start = cond.g1_start /\ cond'.orig_size = cond.orig_size
        /\ cond'.g_size = cond.g_size
    BY <1>0 DEF WaiterEffect
  <2>3. Position' = Position + 1 /\ _G2(cond'.wseq) = _G2(cond.wseq)
    BY <2>1, GroupTypes DEF Position, _Seq, _G2
  <2>4. /\ G1' = G1 /\ Start' = Start /\ Flipping' = Flipping
        /\ _G2(cond.g1_start)' = _G2(cond.g1_start)
    BY <2>2, <2>3 DEF G1, Start, Flipping
  <2>5. End' = End
    BY <2>2, <2>4 DEF End
  <2>6. SteadyGroups => SteadyGroups'
    BY <2>2, <2>3, <2>4, GroupTypes DEF SteadyGroups
  <2>7. ASSUME NEW s \in Signalers, HolderInv(s) PROVE HolderInv(s)'
    BY <1>1, <2>2, <2>3, <2>4, <2>5, <2>7, GroupTypes DEF HolderInv, G
  <2> QED
    BY <1>1, <2>4, <2>6, <2>7 DEF GroupInv
<1> QED
  BY <1>0, <1>2, <1>3 DEF WaiterEffect

\* What the holder's step that keeps the groups has to establish.
LEMMA GroupHolder ==
  ASSUME Types, PlaceInv, GroupInv, NEW s \in Signalers, pc[s] \in InnerPCs,
         \A u \in Threads : u # s => pc'[u] = pc[u], KeepGroups,
         pc[s] \in {"q_reopen", "q_flip"} <=> pc'[s] \in {"q_reopen", "q_flip"},
         HolderInv(s)'
  PROVE  GroupInv'
<1>1. Flipping <=> pc[s] \in {"q_reopen", "q_flip"}
  <2>1. inner = s
    BY DEF PlaceInv
  <2> QED
    BY <2>1 DEF GroupInv, PlaceInv, InnerPCs
<1>2. (Flipping' <=> pc'[s] \in {"q_reopen", "q_flip"}) /\ (~Flipping' => SteadyGroups')
  BY <1>1, GroupsKept DEF GroupInv
<1> QED
  BY <1>2, GroupAssembly

\* The steps of the quiescing, which leave the sizes alone.
LEMMA GroupQuiesce ==
  ASSUME Types, PlaceInv, GroupInv, SmallGroups, NEW s \in Signalers,
         \/ BroadcastWakeG1(s) \/ CloseG1(s) \/ LoadRefs(s) \/ RequestWake(s)
         \/ WaitRefs(s) \/ ReopenSlot(s) \/ InnerUnlock(s)
  PROVE  GroupInv'
<1>0. /\ s \in Threads /\ pc \in [Threads -> Places] /\ loc \in [Threads -> LocType]
      /\ loc[s] \in LocType
  BY SignalerValues DEF Types
<1>1. SignalerEffect(s)
  BY SignalerSteps DEF SignalStep
<1>2. KeepGroups
  BY <1>1 DEF SignalerEffect, BroadcastWakeG1, CloseG1, LoadRefs, RequestWake, WaitRefs,
     ReopenSlot, InnerUnlock, BroadcastG1, Post, AdvanceG1Start, SwitchGroups, Goto
<1>3. pc[s] \in InnerPCs
  BY DEF BroadcastWakeG1, CloseG1, LoadRefs, RequestWake, WaitRefs, ReopenSlot, InnerUnlock,
     Goto, InnerPCs
<1>4. /\ pc[s] \in {"q_reopen", "q_flip"} <=> pc'[s] \in {"q_reopen", "q_flip"}
      /\ \/ pc[s] = "b_wake" /\ pc'[s] = "q_check"
         \/ pc[s] = "q_close" /\ pc'[s] = "q_refs"
         \/ pc[s] = "q_reopen" /\ pc'[s] = "q_flip"
         \/ pc'[s] \in {"s_wake", "user"}
         \/ /\ pc[s] \in {"q_refs", "q_flag", "q_wait"}
            /\ pc'[s] \in {"q_refs", "q_flag", "q_wait", "q_advance"}
  BY <1>0 DEF BroadcastWakeG1, CloseG1, LoadRefs, RequestWake, WaitRefs, ReopenSlot,
     InnerUnlock, Goto
<1>5. pc'[s] \in {"s_wake", "user"} \/
        (loc'[s].seq = loc[s].seq /\ loc'[s].base = loc[s].base /\ G(s)' = G(s))
  <2>1. CASE RequestWake(s) \/ WaitRefs(s)
    BY <2>1, WakeLocals
  <2>2. CASE BroadcastWakeG1(s) \/ CloseG1(s) \/ LoadRefs(s) \/ ReopenSlot(s)
    BY <1>0, <2>2 DEF BroadcastWakeG1, CloseG1, LoadRefs, ReopenSlot, G, OnlyCond, OnlyLocals,
       OnlyFutex
  <2>3. CASE InnerUnlock(s)
    BY <1>0, <2>3 DEF InnerUnlock, Goto
  <2> QED
    BY <2>1, <2>2, <2>3
<1>6. HolderInv(s)
  BY DEF GroupInv
<1>7. HolderInv(s)'
  <2>1. CASE pc'[s] \in {"s_wake", "user"}
    BY <2>1 DEF HolderInv
  <2>2. CASE loc'[s].seq = loc[s].seq /\ loc'[s].base = loc[s].base /\ G(s)' = G(s)
    BY <1>2, <1>4, <1>6, <2>2, GroupsKept DEF HolderInv, KeepGroups
  <2> QED
    BY <1>5, <2>1, <2>2
<1>8. \A u \in Threads : u # s => pc'[u] = pc[u]
  BY <1>1 DEF SignalerEffect, KeepOthers
<1> QED
  BY <1>2, <1>3, <1>4, <1>7, <1>8, GroupHolder

\* The loads that decide what the call has to do.
LEMMA GroupLoad ==
  ASSUME Types, PlaceInv, GroupInv, SmallGroups, NEW s \in Signalers, LoadSeq(s) \/ CheckG2(s)
  PROVE  GroupInv'
<1>0. /\ s \in Threads /\ pc \in [Threads -> Places] /\ loc \in [Threads -> LocType]
      /\ loc[s] \in LocType
  BY SignalerValues DEF Types
<1>1. \A u \in Threads : u # s => pc'[u] = pc[u]
  BY SignalerSteps DEF SignalStep, SignalerEffect, KeepOthers
<1>2. cond' = cond /\ KeepGroups
  BY DEF LoadSeq, CheckG2, OnlyLocals, KeepGroups
<1>3. /\ pc[s] \in InnerPCs /\ pc[s] \notin {"q_reopen", "q_flip"}
      /\ pc'[s] \notin {"q_reopen", "q_flip"}
  BY <1>0 DEF LoadSeq, CheckG2, Goto, InnerPCs
<1>4. ~Flipping /\ SteadyGroups /\ HolderInv(s)
  BY <1>3, HolderFinds
<1>5. HolderInv(s)'
  <2>1. CASE LoadSeq(s)
    <3>1. /\ pc'[s] \in {"q_check", "post", "b_post"}
          /\ pc'[s] = "q_check" <=> cond.g_size[G1] = 0
          /\ G(s)' = G1 /\ loc'[s].seq = Position
      BY <1>0, <2>1 DEF LoadSeq, Goto, G1, G, Position, LocType
    <3>2. cond.g_size[G1] # 0 => cond.g_size[G1] > 0
      BY GroupTypes DEF Word32
    <3> QED
      BY <1>2, <3>1, <3>2, EndBound, GroupTypes, GroupsKept DEF HolderInv
  <2>2. CASE CheckG2(s)
    <3> DEFINE e == loc[s].seq - End
    <3>1. /\ pc[s] = "q_check" /\ pc'[s] \in {"s_unlock", "q_close"} /\ G(s)' = G(s)
      BY <1>0, <2>2 DEF CheckG2, Goto, G, LocType
    <3>2. /\ G(s) = G1 /\ loc[s].seq \in End..Position /\ cond.g_size[G1] = 0
          /\ cond.g_size[_GAnother(G1)] = 0 /\ End = _Seq(cond.g1_start) + cond.orig_size
      BY <1>4, <3>1 DEF HolderInv, SteadyGroups, End, Start
    <3>3. /\ pc'[s] = "q_close" => (e + 0) % U32 # 0 /\ loc'[s].base = End
      BY <1>0, <2>2, <3>2 DEF CheckG2, Goto, LocType
    <3>4. pc'[s] = "q_close" => End < Position
      <4>1. 0 % U32 = 0 /\ 0 + 0 = 0
        BY Mod32, Width
      <4>2. pc'[s] = "q_close" => e # 0
        BY <3>3, <4>1
      <4> QED
        BY <3>2, <4>2, GroupTypes
    <3> QED
      BY <1>2, <3>1, <3>2, <3>3, <3>4, GroupsKept DEF HolderInv
  <2> QED
    BY <2>1, <2>2
<1> QED
  BY <1>1, <1>2, <1>3, <1>5, GroupHolder

\* Signals given to G1 are taken from what it is owed.
LEMMA GroupGive ==
  ASSUME Types, PlaceInv, GroupInv, SmallGroups, NEW s \in Signalers, BroadcastG1(s) \/ Post(s)
  PROVE  GroupInv'
<1>0. /\ s \in Threads /\ pc \in [Threads -> Places] /\ loc \in [Threads -> LocType]
      /\ loc[s] \in LocType /\ G(s) \in {0, 1} /\ 0 \in Word32 /\ cond \in CondType
  BY SignalerValues DEF Types
<1>1. \A u \in Threads : u # s => pc'[u] = pc[u]
  BY SignalerSteps DEF SignalStep, SignalerEffect, KeepOthers
<1>2. /\ pc[s] \in {"b_post", "post"} /\ pc[s] \in InnerPCs
      /\ \/ pc[s] = "b_post" /\ pc'[s] = "b_wake"
         \/ pc[s] = "post" /\ pc'[s] = "s_unlock"
  BY <1>0 DEF BroadcastG1, Post, Goto, InnerPCs
<1>3. ~Flipping /\ SteadyGroups /\ HolderInv(s)
  BY <1>2, HolderFinds
<1>4. G(s) = G1 /\ G(s)' = G(s) /\ (pc[s] = "b_post" => loc'[s].seq = loc[s].seq)
  <2>1. G(s) = G1
    BY <1>2, <1>3 DEF HolderInv
  <2>2. CASE BroadcastG1(s)
    BY <2>1, <2>2 DEF BroadcastG1, OnlyCond, G
  <2>3. CASE Post(s)
    <3>1. pc[s] = "post" /\ loc'[s].g = loc[s].g
      BY <1>0, <2>3 DEF Post, Goto, LocType
    <3> QED
      BY <2>1, <3>1 DEF G
  <2> QED
    BY <2>2, <2>3
<1>5. PICK z \in Word32 : /\ cond'.g_size[G1] = z
                          /\ z <= cond.g_size[G1] /\ (pc[s] = "b_post" => z = 0)
                          /\ cond'.g_size[_GAnother(G1)] = cond.g_size[_GAnother(G1)]
                          /\ cond'.wseq = cond.wseq /\ cond'.orig_size = cond.orig_size
                          /\ cond'.g1_start = cond.g1_start
  <2> DEFINE w == (cond.g_signals[G1] + 2 * cond.g_size[G1]) % U32
             v == (cond.g_signals[G1] + 2) % U32
             y == (cond.g_size[G1] - 1) % U32
  <2>1. w \in Word32 /\ v \in Word32 /\ y \in Word32 /\ G1 \in {0, 1}
    BY <1>0, <1>4, GiveValues
  <2>2. cond' = WithGiven(G1, w, 0) \/
          (pc[s] # "b_post" /\ cond' = WithGiven(G1, v, y))
    BY <1>2, <1>4 DEF BroadcastG1, Post, GiveAll, GiveOne, _SignalsStep, Goto, WithGiven
  <2>3. pc[s] # "b_post" => y <= cond.g_size[G1]
    <3>1. PICK x \in Word32 : x = cond.g_size[G1]
      BY GroupTypes
    <3>2. pc[s] # "b_post" => x > 0
      BY <1>2, <1>3, <1>4, <3>1 DEF HolderInv
    <3>3. x > 0 => (x - 1) % U32 = x - 1
      BY Mod32, Width DEF Word32
    <3> QED
      BY <3>1, <3>2, <3>3, Width DEF Word32
  <2>4. cond.g_size[G1] >= 0
    BY GroupTypes DEF Word32
  <2>5. _GAnother(G1) = 1 - G1
    BY DEF _GAnother
  <2> HIDE DEF w, v, y
  <2>6. CASE cond' = WithGiven(G1, w, 0)
    BY <1>0, <2>1, <2>4, <2>5, <2>6, SetGiven
  <2>7. CASE pc[s] # "b_post" /\ cond' = WithGiven(G1, v, y)
    <3>1. /\ cond'.g_size[G1] = y /\ cond'.g_size[1 - G1] = cond.g_size[1 - G1]
          /\ cond'.wseq = cond.wseq /\ cond'.orig_size = cond.orig_size
          /\ cond'.g1_start = cond.g1_start
      <4>1. cond' = WithGiven(G1, v, y)
        BY <2>7
      <4>2. cond \in CondType /\ G1 \in {0, 1} /\ v \in Word32 /\ y \in Word32
        BY <1>0, <2>1
      <4> QED
        BY <4>1, <4>2, SetGiven
    <3> QED
      BY <2>1, <2>3, <2>5, <2>7, <3>1
  <2> QED
    BY <2>2, <2>6, <2>7
<1>6. /\ Position' = Position /\ Start' = Start /\ G1' = G1 /\ Flipping' = Flipping
      /\ End' = End
  <2>1. Position' = Position /\ Start' = Start /\ G1' = G1 /\ Flipping' = Flipping
    BY <1>5 DEF Position, Start, G1, Flipping
  <2> QED
    BY <1>5, <2>1 DEF End
<1>7. SteadyGroups'
  <2>1. z <= cond.orig_size
    BY <1>3, <1>5, GroupTypes DEF SteadyGroups, Word32
  <2> QED
    BY <1>3, <1>5, <1>6, <2>1 DEF SteadyGroups
<1>8. HolderInv(s)'
  BY <1>2, <1>3, <1>4, <1>5, <1>6 DEF HolderInv
<1> QED
  BY <1>1, <1>2, <1>3, <1>6, <1>7, <1>8, GroupAssembly

\* The sum of uint32_t in quiesce_and_switch_g1 is exact, upwards and downwards:
\* g1_start moves to the end of G1, and its lowest bit changes.
LEMMA AdvanceValue ==
  ASSUME NEW a \in Nat, NEW o \in 0..(U32 \div 4 - 1), NEW i \in {0, 1},
         i = 1 - (a % 2), a % 2 = 1 => o > 0
  PROVE  LET b == a + ((2 * o + (IF i = 1 THEN 1 ELSE -1)) % U32)
         IN  b \in Nat /\ b \div 2 = a \div 2 + o /\ b % 2 = i
<1> DEFINE d == 2 * o + (IF i = 1 THEN 1 ELSE -1)
<1>1. d \in 0..(U32 - 1)
  BY Width
<1>2. d % U32 = d
  BY <1>1, Mod32
<1>3. CASE i = 1
  <2>1. d = 2 * o + 1
    BY <1>3
  <2>2. PICK k \in Nat : a = 2 * k
    <3>1. a \div 2 \in Nat /\ a = 2 * (a \div 2)
      BY <1>3
    <3> QED
      BY <3>1
  <2> HIDE DEF d
  <2> QED
    BY <1>2, <1>3, <2>1, <2>2, Width DEF d
<1>4. CASE i = 0
  <2>1. d = 2 * o - 1 /\ o > 0
    BY <1>4
  <2>2. PICK k \in Nat : a = 2 * k + 1
    <3>1. a \div 2 \in Nat /\ a = 2 * (a \div 2) + 1
      BY <1>4
    <3> QED
      BY <3>1
  <2>3. a + d = 2 * (k + o) /\ k + o \in Nat /\ a \div 2 = k
    BY <2>1, <2>2, Width
  <2> HIDE DEF d
  <2> QED
    BY <1>2, <1>4, <2>3, Width DEF d
<1> QED
  BY <1>3, <1>4

\* g1_start moves past the closed G1 ...
LEMMA GroupAdvance ==
  ASSUME Types, PlaceInv, GroupInv, NEW s \in Signalers, AdvanceG1Start(s)
  PROVE  /\ GroupInv' /\ End' = End /\ Start' = End /\ Position' = Position
         /\ _G2(cond.wseq)' = _G2(cond.wseq) /\ G1' = G1 /\ ~Flipping /\ G(s) = G1
<1>0. /\ s \in Threads /\ pc \in [Threads -> Places] /\ cond \in CondType
      /\ pc[s] = "q_advance" /\ pc'[s] = "q_reopen" /\ loc' = loc /\ pc[s] \in InnerPCs
  BY SignalerValues DEF Types, AdvanceG1Start, Goto, OnlyCond, InnerPCs
<1>1. \A u \in Threads : u # s => pc'[u] = pc[u]
  BY SignalerSteps DEF SignalStep, SignalerEffect, KeepOthers
<1>2. ~Flipping /\ SteadyGroups /\ HolderInv(s)
  BY <1>0, HolderFinds
<1>3. /\ G(s) = G1 /\ cond.g_size[G1] = 0 /\ loc[s].base = End /\ End < Position
  BY <1>0, <1>2 DEF HolderInv
<1> DEFINE a == cond.g1_start
           b == a + ((2 * cond.orig_size + (IF G(s) = 1 THEN 1 ELSE -1)) % U32)
<1>4. b \in Nat /\ b \div 2 = a \div 2 + cond.orig_size /\ b % 2 = G(s)
  <2>1. /\ a \in Nat /\ cond.orig_size \in 0..(U32 \div 4 - 1) /\ G(s) \in {0, 1}
        /\ G(s) = 1 - (a % 2)
    BY <1>2, <1>3, GroupTypes DEF Flipping, G1, _GAnother, _G2
  <2>2. a % 2 = 1 => cond.orig_size > 0
    BY <1>2 DEF SteadyGroups
  <2> HIDE DEF a
  <2> QED
    BY <2>1, <2>2, AdvanceValue
<1>5. cond' = [cond EXCEPT !.g1_start = b]
  BY DEF AdvanceG1Start
<1> HIDE DEF b
<1>6. /\ cond'.g1_start = b /\ cond'.wseq = cond.wseq /\ cond'.orig_size = cond.orig_size
      /\ cond'.g_size = cond.g_size
  BY <1>0, <1>4, <1>5, SetStart
<1>7. /\ Position' = Position /\ G1' = G1 /\ _G2(cond.wseq)' = _G2(cond.wseq)
      /\ Start' = b \div 2 /\ _G2(cond.g1_start)' = G(s)
  BY <1>4, <1>6 DEF Position, G1, Start, _Seq, _G2
<1>8. Start' = End
  BY <1>2, <1>4, <1>7 DEF End, Start, _Seq
<1>9. Flipping'
  BY <1>3, <1>7, GroupTypes DEF Flipping, G1, _GAnother
<1>10. End' = End
  BY <1>8, <1>9 DEF End
<1>11. HolderInv(s)'
  <2>1. cond.g_size[_GAnother(G1)] = 0
    BY <1>2 DEF SteadyGroups
  <2> QED
    BY <1>0, <1>3, <1>6, <1>7, <1>9, <1>10, <2>1 DEF HolderInv, G
<1> QED
  BY <1>0, <1>1, <1>2, <1>3, <1>7, <1>8, <1>9, <1>10, <1>11, GroupAssembly

\* ... and the flip of wseq makes the positions up to now the new G1.
LEMMA GroupSwitch ==
  ASSUME Types, PlaceInv, GroupInv, SmallGroups, NEW s \in Signalers, SwitchGroups(s)
  PROVE  /\ GroupInv' /\ End' = Position /\ Start' = Start /\ Position' = Position
         /\ G1' = _G2(cond.wseq) /\ End = Start
         /\ cond'.g_size[G1'] = Position - End /\ pc'[s] = "post" /\ ~Flipping'
<1>0. /\ s \in Threads /\ pc \in [Threads -> Places] /\ cond \in CondType
      /\ loc \in [Threads -> LocType] /\ loc[s] \in LocType /\ G(s) \in {0, 1}
      /\ pc[s] = "q_flip" /\ pc[s] \in InnerPCs
  BY SignalerValues DEF Types, SwitchGroups, Goto, InnerPCs
<1>1. \A u \in Threads : u # s => pc'[u] = pc[u]
  BY SignalerSteps DEF SignalStep, SignalerEffect, KeepOthers
<1>2. /\ Flipping /\ G(s) = _G2(cond.g1_start) /\ cond.g_size[_GAnother(G(s))] = 0
      /\ cond.g_size[G(s)] = 0 /\ loc[s].base = End /\ End < Position
  BY <1>0 DEF GroupInv, HolderInv
<1>3. End = Start
  BY <1>2 DEF End
<1> DEFINE n == Position - Start
           g1 == _GAnother(G(s))
<1>4. n \in 0..(U32 \div 4 - 1) /\ n > 0 /\ n \in Word32
  BY <1>2, <1>3, GroupTypes, Width DEF SmallGroups, Word32
<1>5. g1 \in {0, 1} /\ g1 = _G2(cond.wseq) /\ _GAnother(g1) = G(s) /\ 1 - g1 = G(s)
  BY <1>0, <1>2, GroupTypes DEF Flipping, _GAnother
<1>6. /\ cond' = WithSwitch(g1, Position * 2 + G(s), n, n)
      /\ pc'[s] = "post" /\ loc' = [loc EXCEPT ![s].g = g1, ![s].base = 0]
  <2>1. G2Size(s, Position) = n
    BY <1>2, <1>3, <1>4, Mod32 DEF G2Size, Word32
  <2>2. (cond.g_size[g1] + n) % U32 = n /\ n # 0
    BY <1>2, <1>4, Mod32 DEF Word32
  <2>3. ((n * 4) % U32) \div 4 = n
    BY <1>4, Shift32
  <2> HIDE DEF n
  <2> QED
    BY <1>0, <2>1, <2>2, <2>3 DEF SwitchGroups, Goto, Position, _OrigSizeStep, WithSwitch
<1> HIDE DEF n, g1
<1>7. /\ cond'.wseq = Position * 2 + G(s) /\ cond'.orig_size = n
      /\ cond'.g_size[g1] = n /\ cond'.g_size[G(s)] = 0 /\ cond'.g1_start = cond.g1_start
  <2> DEFINE m == Position * 2 + G(s)
  <2>1. m \in Nat /\ cond' = WithSwitch(g1, m, n, n)
    BY <1>0, <1>6, GroupTypes
  <2>2. n \in Word32 /\ n \in 0..(U32 \div 4 - 1) /\ g1 \in {0, 1} /\ cond \in CondType
    BY <1>0, <1>4, <1>5
  <2> HIDE DEF m
  <2>3. /\ cond'.wseq = m /\ cond'.orig_size = n /\ cond'.g_size[g1] = n
        /\ cond'.g_size[1 - g1] = cond.g_size[1 - g1] /\ cond'.g1_start = cond.g1_start
    BY <2>1, <2>2, SetSwitch
  <2> QED
    BY <1>2, <1>5, <2>3 DEF m
<1>8. Position' = Position /\ _G2(cond'.wseq) = G(s)
  <2>1. PICK q \in Nat : q = Position
    BY GroupTypes
  <2>2. (q * 2 + G(s)) \div 2 = q /\ (q * 2 + G(s)) % 2 = G(s)
    BY <1>0
  <2> QED
    BY <1>7, <2>1, <2>2 DEF Position, _Seq, _G2
<1>9. /\ Start' = Start /\ G1' = g1 /\ ~Flipping'
  BY <1>2, <1>7, <1>8 DEF Start, G1, Flipping, g1
<1>10. End' = Position
  BY <1>7, <1>9, GroupTypes DEF End, n
<1>11. SteadyGroups'
  <2>1. Start + n <= Position
    BY GroupTypes DEF n
  <2> QED
    BY <1>4, <1>5, <1>7, <1>8, <1>9, <2>1 DEF SteadyGroups
<1>12. HolderInv(s)'
  <2>1. G(s)' = g1
    BY <1>0, <1>5, <1>6 DEF G, LocType
  <2> QED
    BY <1>4, <1>6, <1>7, <1>9, <2>1 DEF HolderInv
<1>13. cond'.g_size[G1'] = Position - End
  BY <1>3, <1>7, <1>9 DEF n
<1> QED
  BY <1>0, <1>1, <1>3, <1>5, <1>6, <1>8, <1>9, <1>10, <1>11, <1>12, <1>13, GroupAssembly

\* The steps of a signaler that does not hold the inner lock.
LEMMA GroupOutside ==
  ASSUME Types, PlaceInv, GroupInv, NEW s \in Signalers,
         SignalerCall(s) \/ SignalStep(s) \/ DestroyStep(s), pc[s] \notin InnerPCs
  PROVE  GroupInv' /\ KeepGroups
<1>0. s \in Threads /\ Signalers \subseteq Threads /\ pc \in [Threads -> Places]
  BY CondAssumption DEF Types
<1>1. SignalerEffect(s)
  BY SignalerSteps
<1>2. \A u \in Threads : u # s => pc'[u] = pc[u] /\ loc'[u] = loc[u]
  BY <1>1 DEF SignalerEffect, KeepOthers
<1>3. KeepGroups
  BY <1>1 DEF SignalerEffect, BroadcastG1, Post, AdvanceG1Start, SwitchGroups, Goto, InnerPCs
<1>4. pc'[s] \in InnerPCs => pc'[s] = "s_seq"
  <2>1. InnerLock(s) \/ InnerUnlock(s) => pc'[s] \in {"s_seq", "s_wake", "user"}
    BY <1>0 DEF InnerLock, InnerUnlock, Goto
  <2> QED
    BY <1>1, <2>1 DEF SignalerEffect, InnerPCs
<1>5. HolderInv(s)' /\ pc'[s] \notin {"q_reopen", "q_flip"}
  BY <1>4 DEF HolderInv, InnerPCs
<1>6. \A u \in Signalers : u # s => HolderInv(u)'
  <2> SUFFICES ASSUME NEW u \in Signalers, u # s PROVE HolderInv(u)'
    OBVIOUS
  <2>1. HolderInv(u)
    BY DEF GroupInv
  <2> QED
    BY <1>0, <1>2, <1>3, <2>1, HolderKept
<1>7. Flipping' = Flipping /\ SteadyGroups' = SteadyGroups
  BY <1>3, GroupsKept
<1>8. \A u \in Signalers : pc'[u] \in {"q_reopen", "q_flip"} <=> pc[u] \in {"q_reopen", "q_flip"}
  BY <1>0, <1>2, <1>5 DEF InnerPCs
<1> QED
  BY <1>3, <1>5, <1>6, <1>7, <1>8 DEF GroupInv

LEMMA GroupInit == Init => GroupInv
<1> SUFFICES ASSUME Init PROVE GroupInv
  OBVIOUS
<1>1. /\ cond.wseq = 0 /\ cond.g1_start = 0 /\ cond.orig_size = 0
      /\ \A i \in {0, 1} : cond.g_size[i] = 0
      /\ \A s \in Signalers : pc[s] = "user"
  BY CondAssumption DEF Init, pthread_cond_init
<1>2. Position = 0 /\ Start = 0 /\ G1 = 1 /\ ~Flipping /\ _GAnother(G1) = 0
  BY <1>1 DEF Position, Start, _Seq, G1, _GAnother, _G2, Flipping
<1> QED
  BY <1>1, <1>2 DEF GroupInv, SteadyGroups, HolderInv

LEMMA GroupSignaler ==
  ASSUME Types, PlaceInv, GroupInv, SmallGroups, NEW s \in Signalers,
         SignalerCall(s) \/ SignalStep(s) \/ DestroyStep(s)
  PROVE  GroupInv'
<1>1. CASE pc[s] \notin InnerPCs
  BY <1>1, GroupOutside
<1>2. CASE pc[s] \in InnerPCs
  <2>1. SignalStep(s) /\ ~InnerLock(s) /\ ~WakeG1(s)
    BY <1>2 DEF SignalerCall, CallWake, CallWakeNobody, CallDestroy, DestroyStep, DestroyWait,
       DestroyReload, DestroyReturn, InnerLock, WakeG1, Goto, InnerPCs
  <2> QED
    BY <2>1, GroupQuiesce, GroupLoad, GroupGive, GroupAdvance, GroupSwitch DEF SignalStep
<1> QED
  BY <1>1, <1>2

LEMMA GroupStep == Types /\ PlaceInv /\ GroupInv /\ SmallGroups /\ [Next]_vars => GroupInv'
<1> SUFFICES ASSUME Types, PlaceInv, GroupInv, SmallGroups, [Next]_vars PROVE GroupInv'
  OBVIOUS
<1>1. CASE UNCHANGED vars
  <2>1. KeepGroups /\ UNCHANGED <<pc, loc>>
    BY <1>1 DEF vars, KeepGroups
  <2>2. \A s \in Signalers : HolderInv(s) => HolderInv(s)'
    BY <2>1, HolderKept
  <2> QED
    BY <2>1, <2>2, GroupsKept DEF GroupInv
<1> QED
  BY <1>1, GroupWaiter, GroupSignaler DEF Next

\* With the inner lock free, nobody is in the middle of a switch.
LEMMA GroupsRest == ASSUME Types, PlaceInv, GroupInv PROVE GroupsConsistent
<1> SUFFICES ASSUME inner = NoWord
             PROVE  /\ _G2(cond.wseq) = _G2(cond.g1_start)
                    /\ Start + cond.orig_size <= Position
                    /\ cond.g_size[G1] <= cond.orig_size
                    /\ cond.g_size[_G2(cond.wseq)] = 0
  BY DEF GroupsConsistent, Start, Position, G1
<1>1. \A s \in Signalers : pc[s] \notin InnerPCs
  BY CondAssumption DEF PlaceInv
<1>2. ~Flipping
  BY <1>1 DEF GroupInv, InnerPCs
<1>3. SteadyGroups
  BY <1>2 DEF GroupInv
<1>4. _GAnother(G1) = _G2(cond.wseq)
  BY GroupTypes, Slots DEF G1
<1> QED
  BY <1>2, <1>3, <1>4 DEF SteadyGroups, Flipping

-----------------------------------------------------------------------------
(* Who belongs to which group *)

LEMMA PositionWaiter ==
  ASSUME Types, PlaceInv, GroupInv, PositionInv,
         NEW t \in Waiters, ClientLock(t) \/ WaitSeq(t) \/ WaitStep(t)
  PROVE  PositionInv'
<1>0. /\ WaiterEffect(t) /\ Waiters \subseteq Threads /\ t \in Threads
      /\ loc \in [Threads -> LocType] /\ pc \in [Threads -> Places]
  BY WaiterSteps, CondAssumption DEF Types
<1>1. \A u \in Waiters : u # t => pc'[u] = pc[u] /\ loc'[u] = loc[u] /\ G(u)' = G(u)
  BY <1>0 DEF WaiterEffect, KeepOthers, G
<1>2. /\ cond'.g1_start = cond.g1_start /\ cond'.orig_size = cond.orig_size
      /\ cond'.g_size = cond.g_size
  BY <1>0 DEF WaiterEffect
<1>3. CASE /\ cond'.wseq = cond.wseq
           /\ pc'[t] \in WaitingPCs => /\ pc[t] \in WaitingPCs
                                      /\ loc'[t].seq = loc[t].seq /\ G(t)' = G(t)
  <2>1. KeepGroups
    BY <1>2, <1>3 DEF KeepGroups
  <2> QED
    BY <1>1, <1>3, <2>1, GroupsKept DEF PositionInv
<1>4. CASE WaitSeq(t)
  <2>1. cond'.wseq = cond.wseq + 2
    BY <1>4, GroupTypes DEF WaitSeq, _SeqStep, CondType
  <2>2. Position' = Position + 1 /\ _G2(cond.wseq)' = _G2(cond.wseq)
    BY <2>1, GroupTypes DEF Position, _Seq, _G2
  <2>3. /\ G1' = G1 /\ Start' = Start /\ Flipping' = Flipping
    BY <1>2, <2>2 DEF G1, Start, Flipping
  <2>4. End' = End
    BY <1>2, <2>3 DEF End
  <2>5. loc'[t].seq = Position /\ G(t)' = _G2(cond.wseq)
    BY <1>0, <1>4 DEF WaitSeq, Position, G, LocType
  <2>6. /\ Position < Position' /\ ~(Position \in Start..(End - 1))
    BY <2>2, EndBound, GroupTypes
  <2>7. ASSUME NEW u \in Waiters, u # t, pc'[u] \in WaitingPCs
        PROVE  /\ loc'[u].seq < Position'
               /\ loc'[u].seq >= End' => G(u)' = _G2(cond.wseq)'
               /\ loc'[u].seq \in Start'..(End' - 1) => G(u)' = G1'
    <3>1. loc[u].seq < Position /\ loc[u].seq \in Nat
      BY <1>0, <1>1, <2>7, LocFields DEF PositionInv
    <3>2. loc[u].seq < Position'
      BY <2>2, <3>1, GroupTypes
    <3> QED
      BY <1>1, <2>2, <2>3, <2>4, <2>7, <3>2 DEF PositionInv
  <2> QED
    BY <2>2, <2>3, <2>4, <2>5, <2>6, <2>7 DEF PositionInv
<1> QED
  BY <1>0, <1>3, <1>4 DEF WaiterEffect

LEMMA PositionSignaler ==
  ASSUME Types, PlaceInv, GroupInv, SmallGroups, PositionInv, NEW s \in Signalers,
         SignalerCall(s) \/ SignalStep(s) \/ DestroyStep(s)
  PROVE  PositionInv'
<1>0. /\ SignalerEffect(s) /\ Waiters \subseteq Threads /\ s \notin Waiters
      /\ loc \in [Threads -> LocType]
  BY SignalerSteps, CondAssumption DEF Types
<1>1. \A t \in Waiters : pc'[t] = pc[t] /\ loc'[t] = loc[t] /\ G(t)' = G(t)
  BY <1>0 DEF SignalerEffect, KeepOthers, G
<1>2. \A t \in Waiters : loc[t].seq \in Nat
  BY <1>0, LocFields
<1>3. CASE /\ Position' = Position /\ Start' = Start /\ End' = End /\ G1' = G1
           /\ _G2(cond.wseq)' = _G2(cond.wseq)
  BY <1>1, <1>3 DEF PositionInv
<1>4. CASE AdvanceG1Start(s)
  <2>1. /\ End' = End /\ Start' = End /\ Position' = Position
        /\ _G2(cond.wseq)' = _G2(cond.wseq) /\ G1' = G1
    BY <1>4, GroupAdvance
  <2>2. \A n : n \notin End..(End - 1)
    BY GroupTypes
  <2> QED
    BY <1>1, <2>1, <2>2 DEF PositionInv
<1>5. CASE SwitchGroups(s)
  <2>1. /\ End' = Position /\ Start' = Start /\ Position' = Position
        /\ G1' = _G2(cond.wseq) /\ End = Start
    BY <1>5, GroupSwitch
  <2> SUFFICES ASSUME NEW t \in Waiters, pc[t] \in WaitingPCs
               PROVE  /\ loc[t].seq < Position
                      /\ ~(loc[t].seq >= Position)
                      /\ loc[t].seq \in Start..(Position - 1) => G(t) = _G2(cond.wseq)
    BY <1>1, <2>1 DEF PositionInv
  <2>2. loc[t].seq < Position /\ (loc[t].seq >= Start => G(t) = _G2(cond.wseq))
    BY <2>1 DEF PositionInv
  <2> QED
    BY <1>2, <2>2, GroupTypes
<1>6. CASE BroadcastG1(s) \/ Post(s)
  <2>1. /\ cond'.wseq = cond.wseq /\ cond'.g1_start = cond.g1_start
        /\ cond'.orig_size = cond.orig_size
    BY <1>6, GroupTypes DEF BroadcastG1, Post, GiveAll, GiveOne, CondType
  <2>2. /\ Position' = Position /\ Start' = Start /\ G1' = G1 /\ Flipping' = Flipping
        /\ _G2(cond.wseq)' = _G2(cond.wseq)
    BY <2>1 DEF Position, Start, G1, Flipping
  <2>3. End' = End
    BY <2>1, <2>2 DEF End
  <2> QED
    BY <1>3, <2>2, <2>3
<1>7. CASE KeepGroups
  BY <1>3, <1>7, GroupsKept
<1> QED
  BY <1>0, <1>4, <1>5, <1>6, <1>7 DEF SignalerEffect

LEMMA PositionInit == Init => PositionInv
  BY CondAssumption DEF Init, PositionInv, WaitingPCs

LEMMA PositionStep ==
  Types /\ PlaceInv /\ GroupInv /\ SmallGroups /\ PositionInv /\ [Next]_vars => PositionInv'
<1> SUFFICES ASSUME Types, PlaceInv, GroupInv, SmallGroups, PositionInv, [Next]_vars
             PROVE  PositionInv'
  OBVIOUS
<1>1. CASE UNCHANGED vars
  <2>1. KeepGroups /\ pc' = pc /\ loc' = loc
    BY <1>1 DEF vars, KeepGroups
  <2> QED
    BY <2>1, GroupsKept DEF PositionInv, G
<1> QED
  BY <1>1, PositionWaiter, PositionSignaler DEF Next

-----------------------------------------------------------------------------
(* The closed flag *)

QuiescePCs == {"q_refs", "q_flag", "q_wait", "q_advance", "q_reopen"}

LEMMA WaiterSignals ==
  ASSUME Types, NEW t \in Waiters, ClientLock(t) \/ WaitSeq(t) \/ WaitStep(t)
  PROVE  /\ pc'[t] = "undo_cas" => ~Closed(loc'[t].val)
         /\ KeepSignals \/ /\ ~Closed(Signals(t)) \/ (pc[t] = "undo_cas" /\ Signals(t) = loc[t].val)
                           /\ cond'.g_signals[1 - G(t)] = cond.g_signals[1 - G(t)]
<1>0. /\ t \in Threads /\ pc \in [Threads -> Places] /\ G(t) \in {0, 1} /\ cond \in CondType
  BY CondAssumption, LocFields DEF Types, G
<1>1. ASSUME pc'[t] = "undo_cas" PROVE ~Closed(loc'[t].val)
  <2>1. UndoCheck(t)
    <3>1. ~(ClientLock(t) \/ WaitSeq(t) \/ WaitRef(t) \/ WaitUnlock(t) \/ LoadSignals(t)
            \/ TestClosed(t) \/ TakeSignal(t) \/ TakeFails(t) \/ TakeGroupRef(t))
      BY <1>0, <1>1 DEF ClientLock, WaitSeq, WaitRef, WaitUnlock, LoadSignals, TestClosed,
         TakeSignal, TakeFails, TakeGroupRef, Goto
    <3>2. ~(Recheck(t) \/ RecheckStart(t) \/ BlockOnGroup(t) \/ DropGroupRef(t)
            \/ DropClearFlag(t) \/ DropWake(t) \/ TestStolen(t))
      BY <1>0, <1>1 DEF Recheck, RecheckStart, BlockOnGroup, DropGroupRef, DropClearFlag,
         DropWake, TestStolen, AfterDrop, Goto
    <3>3. ~(UndoLoad(t) \/ UndoAdd(t) \/ UndoAddFails(t) \/ UndoWake(t) \/ WaitUnref(t)
            \/ WakeDestroyer(t) \/ Relock(t) \/ ClientUnlock(t))
      BY <1>0, <1>1 DEF UndoLoad, UndoAdd, UndoAddFails, UndoWake, WaitUnref, WakeDestroyer,
         Relock, ClientUnlock, Goto
    <3> QED
      BY <3>1, <3>2, <3>3 DEF WaitStep
  <2> QED
    BY <1>0, <1>1, <2>1 DEF UndoCheck, Goto
<1>2. CASE TakeSignal(t)
  BY <1>0, <1>1, <1>2 DEF TakeSignal, CondType
<1>3. CASE UndoAdd(t)
  BY <1>0, <1>1, <1>3 DEF UndoAdd, Goto, CondType
<1>4. CASE KeepSignals
  BY <1>1, <1>4
<1> QED
  BY <1>2, <1>3, <1>4, WaiterSteps DEF WaiterEffect

LEMMA SignalerQuiesces ==
  ASSUME Types, NEW s \in Signalers, SignalerCall(s) \/ SignalStep(s) \/ DestroyStep(s),
         pc'[s] \in QuiescePCs
  PROVE  \/ CloseG1(s)
         \/ pc[s] \in QuiescePCs /\ G(s)' = G(s) /\ KeepSignals
            /\ (pc'[s] = "q_advance" => LoadRefs(s) /\ cond.g_refs[G(s)] \div 2 = 0)
<1>0. /\ s \in Threads /\ pc \in [Threads -> Places] /\ loc \in [Threads -> LocType]
      /\ cond \in CondType /\ G(s) \in {0, 1}
  BY SignalerValues DEF Types
<1> USE DEF Goto, QuiescePCs
<1>1. ~(SignalerCall(s) \/ DestroyStep(s))
  BY <1>0 DEF SignalerCall, CallWake, CallWakeNobody, CallDestroy, DestroyStep, DestroyWait,
     DestroyReload, DestroyReturn
<1>2. ~(InnerLock(s) \/ LoadSeq(s) \/ BroadcastG1(s) \/ BroadcastWakeG1(s) \/ CheckG2(s)
        \/ ReopenSlot(s) \/ SwitchGroups(s) \/ Post(s) \/ InnerUnlock(s) \/ WakeG1(s))
  BY <1>0 DEF InnerLock, LoadSeq, BroadcastG1, BroadcastWakeG1, CheckG2, ReopenSlot,
     SwitchGroups, Post, InnerUnlock, WakeG1
<1>3. CASE LoadRefs(s)
  BY <1>0, <1>3 DEF LoadRefs, OnlyLocals, KeepSignals, G
<1>4. CASE RequestWake(s) \/ WaitRefs(s)
  <2>1. KeepSignals
    <3>1. CASE WaitRefs(s)
      BY <3>1 DEF WaitRefs, KeepSignals
    <3>2. CASE RequestWake(s)
      <4>1. cond' = [cond EXCEPT !.g_refs[G(s)] = SetLSB(cond.g_refs[G(s)])]
        BY <3>2 DEF RequestWake
      <4> QED
        BY <1>0, <4>1 DEF CondType, KeepSignals
    <3> QED
      BY <1>4, <3>1, <3>2
  <2>2. G(s)' = G(s)
    BY <1>4, WakeLocals
  <2>3. pc[s] \in {"q_flag", "q_wait"} /\ pc'[s] \in {"q_refs", "q_wait"}
    <3>1. CASE WaitRefs(s)
      BY <1>0, <3>1 DEF WaitRefs
    <3>2. CASE RequestWake(s)
      <4>1. \E p \in {"q_refs", "q_wait"} : Goto(s, "q_flag", p)
        BY <3>2 DEF RequestWake
      <4> QED
        BY <1>0, <4>1
    <3> QED
      BY <1>4, <3>1, <3>2
  <2> QED
    BY <2>1, <2>2, <2>3
<1>5. CASE AdvanceG1Start(s)
  <2>1. pc[s] = "q_advance" /\ pc'[s] = "q_reopen" /\ loc' = loc
    BY <1>0, <1>5 DEF AdvanceG1Start, OnlyCond
  <2>2. KeepSignals
    BY <1>0, <1>5 DEF AdvanceG1Start, KeepSignals, CondType
  <2> QED
    BY <2>1, <2>2 DEF G
<1> QED
  BY <1>1, <1>2, <1>3, <1>4, <1>5 DEF SignalStep

LEMMA ClosedInit == Init => ClosedInv
  BY CondAssumption DEF Init, ClosedInv

LEMMA ClosedWaiter ==
  ASSUME Types, ClosedInv, NEW t \in Waiters, ClientLock(t) \/ WaitSeq(t) \/ WaitStep(t)
  PROVE  ClosedInv'
<1>0. /\ WaiterEffect(t) /\ Signalers \subseteq Threads /\ Waiters \subseteq Threads
      /\ t \notin Signalers /\ G(t) \in {0, 1}
  BY WaiterSteps, CondAssumption, LocFields DEF Types, G
<1>1. \A u \in Threads : u # t => pc'[u] = pc[u] /\ loc'[u] = loc[u]
  BY <1>0 DEF WaiterEffect, KeepOthers
<1>2. ASSUME NEW s \in Signalers, pc'[s] \in QuiescePCs PROVE Closed(Signals(s))'
  <2>1. pc[s] \in QuiescePCs /\ G(s)' = G(s) /\ G(s) \in {0, 1}
    BY <1>0, <1>1, <1>2, SignalerValues DEF G
  <2>2. Closed(cond.g_signals[G(s)])
    BY <2>1 DEF ClosedInv, QuiescePCs, Signals
  <2>3. CASE KeepSignals
    BY <2>1, <2>2, <2>3 DEF KeepSignals, Signals
  <2>4. CASE /\ ~Closed(Signals(t)) \/ (pc[t] = "undo_cas" /\ Signals(t) = loc[t].val)
             /\ cond'.g_signals[1 - G(t)] = cond.g_signals[1 - G(t)]
    <3>1. ~Closed(cond.g_signals[G(t)])
      BY <2>4 DEF ClosedInv, Signals
    <3>2. G(s) = 1 - G(t)
      BY <1>0, <2>1, <2>2, <3>1
    <3> QED
      BY <2>1, <2>2, <2>4, <3>2 DEF Signals
  <2> QED
    BY <2>3, <2>4, WaiterSignals
<1>3. \A u \in Waiters : pc'[u] = "undo_cas" => ~Closed(loc'[u].val)
  BY <1>0, <1>1, WaiterSignals DEF ClosedInv
<1> QED
  BY <1>2, <1>3 DEF ClosedInv, QuiescePCs

LEMMA ClosedSignaler ==
  ASSUME Types, PlaceInv, ClosedInv, NEW s \in Signalers,
         SignalerCall(s) \/ SignalStep(s) \/ DestroyStep(s)
  PROVE  ClosedInv'
<1>0. /\ SignalerEffect(s) /\ Waiters \subseteq Threads /\ Signalers \subseteq Threads
      /\ s \notin Waiters /\ cond \in CondType /\ G(s) \in {0, 1}
  BY SignalerSteps, SignalerValues, CondAssumption
<1>1. \A u \in Threads : u # s => pc'[u] = pc[u] /\ loc'[u] = loc[u]
  BY <1>0 DEF SignalerEffect, KeepOthers
<1>2. ASSUME NEW u \in Signalers, u # s, pc'[u] \in QuiescePCs PROVE Closed(Signals(u))'
  <2>1. pc[u] \in QuiescePCs /\ G(u)' = G(u)
    BY <1>0, <1>1, <1>2 DEF G
  <2>2. inner = u
    BY <2>1 DEF PlaceInv, QuiescePCs, InnerPCs
  <2>3. KeepSignals
    BY <1>0, <1>2, <2>2 DEF SignalerEffect, PlaceInv, InnerPCs, BroadcastG1, Post, CloseG1,
       ReopenSlot, Goto
  <2> QED
    BY <2>1, <2>3 DEF ClosedInv, QuiescePCs, Signals, KeepSignals
<1>3. ASSUME pc'[s] \in QuiescePCs PROVE Closed(Signals(s))'
  <2>1. CASE CloseG1(s)
    <3>1. PICK w \in Word32 : w = cond.g_signals[G(s)]
      BY <1>0, CondFields DEF Word32
    <3>2. SetLSB(w) \in Word32 /\ Closed(SetLSB(w))
      BY Flag32 DEF Word32
    <3>3. cond'.g_signals[G(s)] = SetLSB(w) /\ G(s)' = G(s)
      BY <1>0, <2>1, <3>1 DEF CloseG1, OnlyCond, G, CondType
    <3> QED
      BY <3>2, <3>3 DEF Signals
  <2>2. CASE pc[s] \in QuiescePCs /\ G(s)' = G(s) /\ KeepSignals
    BY <2>2 DEF ClosedInv, QuiescePCs, Signals, KeepSignals
  <2> QED
    BY <1>3, <2>1, <2>2, SignalerQuiesces
<1>4. \A t \in Waiters : pc'[t] = pc[t] /\ loc'[t] = loc[t]
  BY <1>0, <1>1
<1> QED
  BY <1>2, <1>3, <1>4 DEF ClosedInv, QuiescePCs

LEMMA ClosedStep == Types /\ PlaceInv /\ ClosedInv /\ [Next]_vars => ClosedInv'
<1> SUFFICES ASSUME Types, PlaceInv, ClosedInv, [Next]_vars PROVE ClosedInv'
  OBVIOUS
<1>1. CASE UNCHANGED vars
  BY <1>1 DEF vars, ClosedInv, Signals, G
<1> QED
  BY <1>1, ClosedWaiter, ClosedSignaler DEF Next

-----------------------------------------------------------------------------
(* The group references *)

LEMMA HoldersFinite ==
  ASSUME NEW i
  PROVE  /\ IsFiniteSet(Holders(i)) /\ Cardinality(Holders(i)) \in Nat
         /\ Cardinality(Waiters) \in Nat /\ Cardinality(Holders(i)) <= Cardinality(Waiters)
<1>1. IsFiniteSet(Waiters)
  BY CondAssumption, FS_Subset
<1>2. Holders(i) \subseteq Waiters
  BY DEF Holders
<1> QED
  BY <1>1, <1>2, FS_Subset, FS_CardinalityType

\* A step of the two units up or down does not carry out of the word.
LEMMA RefArithmetic ==
  ASSUME NEW r \in Word32
  PROVE  /\ 2 * (r \div 2) + 3 < U32 => ((r + 2) % U32) \div 2 = r \div 2 + 1
         /\ r \div 2 > 0 => ((r - 2) % U32) \div 2 = r \div 2 - 1
         /\ (r + 2) % U32 \in Word32 /\ (r - 2) % U32 \in Word32
<1>1. 2 * (r \div 2) + 3 < U32 => r + 2 \in 0..(U32 - 1)
  BY Width DEF Word32
<1>2. r \div 2 > 0 => r - 2 \in 0..(U32 - 1)
  BY Width DEF Word32
<1>3. r + 2 \in Int /\ r - 2 \in Int
  BY Width DEF Word32
<1> QED
  BY <1>1, <1>2, <1>3, Mod32 DEF Word32

LEMMA RefsInit == Init => RefsInv
<1> SUFFICES ASSUME Init, NEW i \in {0, 1} PROVE cond.g_refs[i] \div 2 = Cardinality(Holders(i))
  BY DEF RefsInv
<1>1. Holders(i) = {} /\ cond.g_refs[i] = 0
  BY CondAssumption DEF Init, Holders, HoldPCs, pthread_cond_init
<1> QED
  BY <1>1, FS_EmptySet

LEMMA RefsWaiter ==
  ASSUME FewWaiters, Types, RefsInv, NEW t \in Waiters,
         ClientLock(t) \/ WaitSeq(t) \/ WaitStep(t)
  PROVE  RefsInv'
<1>0. /\ WaiterEffect(t) /\ t \in Threads /\ Waiters \subseteq Threads /\ cond \in CondType
      /\ G(t) \in {0, 1} /\ pc \in [Threads -> Places] /\ cond.g_refs[G(t)] \in Word32
  BY WaiterSteps, CondAssumption, LocFields, CondFields DEF Types, G, Word32
<1>1. \A u \in Waiters : u # t => pc'[u] = pc[u] /\ G(u)' = G(u)
  BY <1>0 DEF WaiterEffect, KeepOthers, G
<1>2. PICK j \in {0, 1} : j = G(t)
  BY <1>0
<1> DEFINE n == Cardinality(Holders(j))
           r == cond.g_refs[j]
<1>3. n \in Nat /\ r \in Word32 /\ r \div 2 = n /\ IsFiniteSet(Holders(j))
  BY <1>0, <1>2, HoldersFinite DEF RefsInv
<1>4. CASE TakeGroupRef(t)
  <2>1. /\ pc[t] = "test" /\ pc'[t] = "recheck" /\ G(t)' = G(t)
        /\ cond' = [cond EXCEPT !.g_refs[j] = (r + 2) % U32]
    BY <1>0, <1>2, <1>4 DEF TakeGroupRef, Goto, OnlyCond, G, _GRefsStep
  <2>2. /\ Holders(j)' = Holders(j) \cup {t} /\ t \notin Holders(j)
        /\ Holders(1 - j)' = Holders(1 - j)
    BY <1>0, <1>1, <1>2, <2>1 DEF Holders, HoldPCs
  <2>3. Cardinality(Holders(j)') = n + 1
    BY <1>3, <2>2, FS_AddElement
  <2>4. n + 1 <= Cardinality(Waiters) /\ Cardinality(Waiters) \in Nat
    <3>1. Holders(j)' \subseteq Waiters /\ IsFiniteSet(Waiters)
      BY <2>2, CondAssumption, FS_Subset DEF Holders
    <3> QED
      BY <2>3, <3>1, FS_Subset, FS_CardinalityType
  <2> HIDE DEF n, r
  <2>5. 2 * n + 3 < U32
    BY <1>3, <2>4, Width DEF FewWaiters
  <2>6. ((r + 2) % U32) \div 2 = n + 1 /\ (r + 2) % U32 \in Word32
    BY <1>3, <2>5, RefArithmetic
  <2>7. cond'.g_refs[j] = (r + 2) % U32 /\ cond'.g_refs[1 - j] = cond.g_refs[1 - j]
    BY <1>0, <1>2, <2>1, <2>6, SetRefs
  <2>8. \A i \in {0, 1} : i = j \/ i = 1 - j
    OBVIOUS
  <2> QED
    BY <1>0, <1>2, <2>2, <2>3, <2>6, <2>7, <2>8 DEF RefsInv
<1>5. CASE DropGroupRef(t)
  <2>1. /\ pc[t] = "drop" /\ pc'[t] \in {"drop_clear", "done", "load"} /\ G(t)' = G(t)
        /\ cond' = [cond EXCEPT !.g_refs[j] = (r - 2) % U32]
    BY <1>0, <1>2, <1>5 DEF DropGroupRef, AfterDrop, Goto, OnlyCond, G, _GRefsStep
  <2>2. /\ Holders(j)' = Holders(j) \ {t} /\ t \in Holders(j)
        /\ Holders(1 - j)' = Holders(1 - j)
    BY <1>0, <1>1, <1>2, <2>1 DEF Holders, HoldPCs
  <2>3. Cardinality(Holders(j)') = n - 1 /\ n > 0
    BY <1>3, <2>2, FS_RemoveElement, FS_EmptySet
  <2> HIDE DEF n, r
  <2>4. ((r - 2) % U32) \div 2 = n - 1 /\ (r - 2) % U32 \in Word32
    BY <1>3, <2>3, RefArithmetic
  <2>5. cond'.g_refs[j] = (r - 2) % U32 /\ cond'.g_refs[1 - j] = cond.g_refs[1 - j]
    BY <1>0, <1>2, <2>1, <2>4, SetRefs
  <2>6. \A i \in {0, 1} : i = j \/ i = 1 - j
    OBVIOUS
  <2> QED
    BY <1>0, <1>2, <2>2, <2>3, <2>4, <2>5, <2>6 DEF RefsInv
<1>6. CASE /\ \A i \in {0, 1} : cond'.g_refs[i] \div 2 = cond.g_refs[i] \div 2
           /\ pc'[t] \in HoldPCs <=> pc[t] \in HoldPCs
  <2>1. pc'[t] \in HoldPCs => G(t)' = G(t)
    <3>1. WaitSeq(t) => pc'[t] = "wref"
      BY <1>0 DEF WaitSeq, Goto
    <3> QED
      BY <1>0, <3>1 DEF WaiterEffect, HoldPCs, WaitingPCs
  <2>2. \A i : Holders(i)' = Holders(i)
    BY <1>1, <1>6, <2>1 DEF Holders
  <2> QED
    BY <1>6, <2>2 DEF RefsInv
<1> QED
  BY <1>0, <1>4, <1>5, <1>6 DEF WaiterEffect

LEMMA RefsSignaler ==
  ASSUME Types, RefsInv, NEW s \in Signalers, SignalerCall(s) \/ SignalStep(s) \/ DestroyStep(s)
  PROVE  RefsInv'
<1>1. /\ SignalerEffect(s) /\ Waiters \subseteq Threads /\ s \notin Waiters
  BY SignalerSteps, CondAssumption
<1>2. \A i : Holders(i)' = Holders(i)
  BY <1>1 DEF SignalerEffect, KeepOthers, Holders, G
<1> QED
  BY <1>1, <1>2 DEF SignalerEffect, RefsInv

LEMMA RefsStep == FewWaiters /\ Types /\ RefsInv /\ [Next]_vars => RefsInv'
<1> SUFFICES ASSUME FewWaiters, Types, RefsInv, [Next]_vars PROVE RefsInv'
  OBVIOUS
<1>1. CASE UNCHANGED vars
  <2>1. \A i : Holders(i)' = Holders(i)
    BY <1>1 DEF vars, Holders, G
  <2> QED
    BY <1>1, <2>1 DEF vars, RefsInv
<1> QED
  BY <1>1, RefsWaiter, RefsSignaler DEF Next

-----------------------------------------------------------------------------
(* Who sleeps *)

\* The only ways to the last check before the FUTEX_WAIT, into it, and to sleep.
LEMMA WaiterBlocks ==
  ASSUME Types, NEW t \in Waiters, ClientLock(t) \/ WaitSeq(t) \/ WaitStep(t)
  PROVE  /\ pc[t] = "drop" => Awake(t)
         /\ pc'[t] = "recheck_start" => Recheck(t) /\ ~Closed(Signals(t)) /\ loc' = loc
         /\ pc'[t] = "futex" => pc[t] = "recheck_start" /\ ~Outdated(t) /\ loc' = loc
<1>0. t \in Threads /\ pc \in [Threads -> Places]
  BY CondAssumption DEF Types
<1> USE DEF Goto
<1>1. CASE ClientLock(t) \/ WaitSeq(t) \/ WaitRef(t) \/ WaitUnlock(t) \/ LoadSignals(t)
           \/ TestClosed(t) \/ TakeSignal(t) \/ TakeFails(t) \/ TakeGroupRef(t)
  BY <1>0, <1>1 DEF ClientLock, WaitSeq, WaitRef, WaitUnlock, LoadSignals, TestClosed,
     TakeSignal, TakeFails, TakeGroupRef
<1>2. CASE Recheck(t)
  BY <1>0, <1>2 DEF Recheck
<1>3. CASE RecheckStart(t)
  BY <1>0, <1>3 DEF RecheckStart
<1>4. CASE BlockOnGroup(t) \/ DropGroupRef(t) \/ DropClearFlag(t) \/ DropWake(t)
  BY <1>0, <1>4 DEF BlockOnGroup, DropGroupRef, DropClearFlag, DropWake, AfterDrop
<1>5. CASE TestStolen(t) \/ UndoLoad(t) \/ UndoCheck(t) \/ UndoAdd(t) \/ UndoAddFails(t)
  BY <1>0, <1>5 DEF TestStolen, UndoLoad, UndoCheck, UndoAdd, UndoAddFails
<1>6. CASE UndoWake(t) \/ WaitUnref(t) \/ WakeDestroyer(t) \/ Relock(t) \/ ClientUnlock(t)
  BY <1>0, <1>6 DEF UndoWake, WaitUnref, WakeDestroyer, Relock, ClientUnlock
<1> QED
  BY <1>1, <1>2, <1>3, <1>4, <1>5, <1>6 DEF WaitStep

LEMMA BlockWaiter ==
  ASSUME Types, ClosedInv, BlockInv, NEW t \in Waiters,
         ClientLock(t) \/ WaitSeq(t) \/ WaitStep(t)
  PROVE  BlockInv'
<1>0. /\ WaiterEffect(t) /\ t \in Threads /\ Waiters \subseteq Threads
      /\ Signalers \subseteq Threads /\ t \notin Signalers
      /\ asleep \in [Threads -> Words \cup {NoWord}] /\ pc \in [Threads -> Places]
  BY WaiterSteps, CondAssumption DEF Types
<1>1. \A u \in Threads : u # t => pc'[u] = pc[u] /\ loc'[u] = loc[u] /\ G(u)' = G(u)
  BY <1>0 DEF WaiterEffect, KeepOthers, G
<1>2. Start' = Start
  BY <1>0 DEF WaiterEffect, Start
<1>3. Awake(t)
  BY WaiterBlocks DEF BlockInv
<1>4. /\ \A u \in Threads : u # t => asleep'[u] \in {asleep[u], NoWord}
      /\ asleep'[t] # NoWord =>
           /\ pc[t] = "futex" /\ pc'[t] = "drop" /\ asleep'[t] = sig(G(t)) /\ loc' = loc
  <2>1. CASE BlockOnGroup(t)
    BY <1>0, <1>3, <2>1 DEF BlockOnGroup, FutexWait, Goto, OnlyFutex, Awake
  <2>2. CASE \A u \in Threads : asleep'[u] \in {asleep[u], NoWord}
    BY <1>0, <1>3, <2>2 DEF Awake
  <2> QED
    BY <1>0, <2>1, <2>2 DEF WaiterEffect
<1>5. \A u \in Waiters : asleep'[u] # NoWord => pc'[u] = "drop" /\ asleep'[u] = sig(G(u))'
  <2> SUFFICES ASSUME NEW u \in Waiters, asleep'[u] # NoWord
               PROVE  pc'[u] = "drop" /\ asleep'[u] = sig(G(u))'
    OBVIOUS
  <2>1. CASE u = t
    BY <1>4, <2>1 DEF G, sig
  <2>2. CASE u # t
    BY <1>0, <1>1, <1>4, <2>2 DEF BlockInv, Awake, G, sig
  <2> QED
    BY <2>1, <2>2
<1>6. ASSUME NEW u \in Waiters, pc'[u] = "futex" \/ asleep'[u] # NoWord
      PROVE  loc'[u].seq >= Start
  <2>1. CASE u # t
    BY <1>0, <1>1, <1>4, <1>6, <2>1 DEF BlockInv, Awake
  <2>2. CASE u = t /\ pc'[t] = "futex"
    <3>1. ~(loc[t].seq < Start) /\ loc' = loc
      BY <2>2, WaiterBlocks DEF Outdated, Start
    <3>2. loc[t].seq \in Nat /\ Start \in Nat
      BY <1>0, LocFields, GroupTypes DEF Types
    <3> QED
      BY <2>2, <3>1, <3>2
  <2>3. CASE u = t /\ asleep'[t] # NoWord
    BY <1>4, <2>3 DEF BlockInv
  <2> QED
    BY <1>6, <2>1, <2>2, <2>3
<1>7. ASSUME NEW s \in Signalers, NEW u \in Waiters, pc'[s] = "q_advance", G(u)' = G(s)'
      PROVE  pc'[u] \notin {"recheck_start", "futex"} /\ asleep'[u] = NoWord
  <2>1. pc[s] = "q_advance" /\ G(s)' = G(s)
    BY <1>0, <1>1, <1>7
  <2>2. CASE u # t
    BY <1>0, <1>1, <1>4, <1>7, <2>1, <2>2 DEF BlockInv, Awake
  <2>3. CASE u = t
    <3>1. loc' = loc => G(t) = G(s)
      BY <1>7, <2>1, <2>3 DEF G
    <3>2. pc'[t] # "recheck_start"
      <4>1. Closed(Signals(s))
        BY <2>1 DEF ClosedInv
      <4> QED
        BY <3>1, <4>1, WaiterBlocks DEF Signals
    <3>3. pc'[t] # "futex" /\ asleep'[t] = NoWord
      BY <1>4, <2>1, <3>1, WaiterBlocks DEF BlockInv
    <3> QED
      BY <2>3, <3>2, <3>3
  <2> QED
    BY <2>2, <2>3
<1> QED
  BY <1>2, <1>5, <1>6, <1>7 DEF BlockInv, Awake

LEMMA BlockSignaler ==
  ASSUME Types, PlaceInv, GroupInv, SmallGroups, PositionInv, RefsInv, BlockInv,
         NEW s \in Signalers, SignalerCall(s) \/ SignalStep(s) \/ DestroyStep(s)
  PROVE  BlockInv'
<1>0. /\ SignalerEffect(s) /\ Waiters \subseteq Threads /\ Signalers \subseteq Threads
      /\ s \notin Waiters /\ pc \in [Threads -> Places] /\ s \in Threads /\ G(s) \in {0, 1}
  BY SignalerSteps, SignalerValues, CondAssumption DEF Types
<1>1. \A u \in Threads : u # s => /\ pc'[u] = pc[u] /\ loc'[u] = loc[u] /\ G(u)' = G(u)
                                  /\ sig(G(u))' = sig(G(u))
  BY <1>0 DEF SignalerEffect, KeepOthers, G, sig
<1>2. \A t \in Waiters : /\ pc'[t] = pc[t] /\ loc'[t] = loc[t] /\ G(t)' = G(t)
                         /\ sig(G(t))' = sig(G(t)) /\ asleep'[t] \in {asleep[t], NoWord}
  BY <1>0, <1>1 DEF SignalerEffect
<1>3. \A t \in Waiters : pc[t] = "futex" \/ asleep'[t] # NoWord => loc[t].seq >= Start'
  <2>1. CASE AdvanceG1Start(s)
    <3>1. Start' = End /\ G(s) = G1 /\ pc[s] = "q_advance"
      BY <2>1, GroupAdvance DEF AdvanceG1Start, Goto
    <3> SUFFICES ASSUME NEW t \in Waiters, pc[t] = "futex" \/ asleep[t] # NoWord
                 PROVE  loc[t].seq >= End
      BY <1>2, <3>1
    <3>2. pc[t] \in WaitingPCs /\ loc[t].seq >= Start /\ G(t) # G1
      BY <3>1 DEF BlockInv, Awake, WaitingPCs
    <3>3. loc[t].seq \notin Start..(End - 1)
      BY <3>2 DEF PositionInv
    <3>4. loc[t].seq \in Nat /\ Start \in Nat /\ End \in Nat
      BY <1>0, LocFields, GroupTypes DEF Types
    <3> QED
      BY <3>2, <3>3, <3>4
  <2>2. CASE Start' = Start
    BY <1>2, <2>2 DEF BlockInv, Awake
  <2>3. CASE BroadcastG1(s) \/ Post(s)
    <3>1. cond'.g1_start = cond.g1_start
      BY <2>3, GroupTypes DEF BroadcastG1, Post, GiveAll, GiveOne, CondType
    <3> QED
      BY <2>2, <3>1 DEF Start
  <2> QED
    BY <1>0, <2>1, <2>2, <2>3, GroupSwitch, GroupsKept DEF SignalerEffect
<1>4. ASSUME NEW t \in Waiters, pc'[s] = "q_advance", G(t) = G(s)'
      PROVE  pc[t] \notin {"recheck_start", "futex"} /\ asleep[t] = NoWord
  <2>1. cond.g_refs[G(s)] \div 2 = 0 /\ G(s)' = G(s)
    <3>1. ~CloseG1(s)
      BY <1>0, <1>4 DEF CloseG1, Goto
    <3> QED
      BY <1>4, <3>1, SignalerQuiesces DEF QuiescePCs
  <2>2. Holders(G(s)) = {}
    BY <1>0, <2>1, HoldersFinite, FS_EmptySet DEF RefsInv
  <2> QED
    BY <1>4, <2>1, <2>2 DEF Holders, HoldPCs, BlockInv, Awake
<1>5. ASSUME NEW u \in Signalers, NEW t \in Waiters, pc'[u] = "q_advance", G(t)' = G(u)'
      PROVE  pc'[t] \notin {"recheck_start", "futex"} /\ asleep'[t] = NoWord
  <2>1. CASE u = s
    BY <1>2, <1>4, <1>5, <2>1
  <2>2. CASE u # s
    BY <1>0, <1>1, <1>2, <1>5, <2>2 DEF BlockInv, Awake
  <2> QED
    BY <2>1, <2>2
<1>6. \A t \in Waiters : asleep'[t] # NoWord => pc'[t] = "drop" /\ asleep'[t] = sig(G(t))'
  BY <1>2 DEF BlockInv, Awake
<1> QED
  BY <1>2, <1>3, <1>5, <1>6 DEF BlockInv, Awake

LEMMA BlockInit == Init => BlockInv
  BY CondAssumption DEF Init, FutexInit, BlockInv, Awake

LEMMA BlockStep ==
  ASSUME Types, PlaceInv, GroupInv, SmallGroups, PositionInv, ClosedInv, RefsInv, BlockInv,
         [Next]_vars
  PROVE  BlockInv'
<1>1. CASE UNCHANGED vars
  BY <1>1 DEF vars, BlockInv, Awake, G, sig, Start
<1> QED
  BY <1>1, BlockWaiter, BlockSignaler DEF Next

-----------------------------------------------------------------------------
(* How large the groups can grow *)

\* 24 times the number of waiting threads fits a uint32_t: in the code, fewer than
\* 178 million threads, above what a Linux process can have.
FewThreads == 24 * Cardinality(Waiters) < U32

LEMMA CountsFinite ==
  /\ IsFiniteSet(Waiters) /\ IsFiniteSet(Members) /\ IsFiniteSet(Adders)
  /\ Cardinality(Waiters) \in Nat /\ Cardinality(Members) \in Nat
  /\ Cardinality(Adders) \in Nat
  /\ Cardinality(Members) <= Cardinality(Waiters)
  /\ Cardinality(Adders) <= Cardinality(Waiters)
<1>1. IsFiniteSet(Waiters)
  BY CondAssumption, FS_Subset
<1>2. Members \subseteq Waiters /\ Adders \subseteq Waiters
  BY DEF Members, Adders
<1> QED
  BY <1>1, <1>2, FS_Subset, FS_CardinalityType

\* The sizes the invariant allows.
LEMMA SizesBound ==
  ASSUME FewThreads, Types, GroupInv, SizeInv PROVE SmallGroups
<1> DEFINE n == Cardinality(Waiters)
<1>1. n \in Nat /\ Cardinality(Members) \in Nat /\ Cardinality(Members) <= n
      /\ Cardinality(Adders) \in Nat
  BY CountsFinite
<1>2. G2Signals \div 2 \in Nat
  <2>1. G2Signals \in 0..(U32 - 1)
    BY GroupTypes, CondFields DEF G2Signals
  <2> QED
    BY <2>1, Width
<1>3. Position - End <= 3 * n
  <2>1. Position - End + G2Signals \div 2 + Cardinality(Adders) <= Cardinality(Members) + 2 * n
    BY DEF SizeInv
  <2> HIDE DEF n
  <2> QED
    BY <1>1, <1>2, <2>1, GroupTypes
<1>4. End - Start <= 3 * n
  <2>1. cond.orig_size <= 3 * n
    BY DEF SizeInv
  <2>2. End = Start \/ End = Start + cond.orig_size
    BY DEF End
  <2> HIDE DEF n
  <2> QED
    BY <1>1, <2>1, <2>2, GroupTypes
<1>5. 24 * n < U32
  BY DEF FewThreads
<1> HIDE DEF n
<1>6. Position - Start <= 6 * n
  BY <1>1, <1>3, <1>4, GroupTypes
<1> QED
  BY <1>1, <1>5, <1>6, GroupTypes, Width DEF SmallGroups

\* What the steps of one waiter do to its own membership.
MemberMoves(t) ==
  /\ t \in Members /\ ~TakeSignal(t) => pc'[t] \in MemberPCs
  /\ pc'[t] \in MemberPCs => pc[t] \in MemberPCs
  /\ pc'[t] \in AdderPCs => pc[t] \in AdderPCs
  /\ pc'[t] \in OutPCs => loc'[t].ctl # "done"
  /\ pc'[t] \in UndoPCs => loc[t].seq < Start
  /\ t \in Members /\ pc'[t] \in MemberPCs =>
       loc'[t].ctl # "done" /\ (pc'[t] = "test" => ~Closed(loc'[t].val))

LEMMA WaiterMembership ==
  ASSUME Types, GroupInv, PositionInv, MemberInv, ~Closed(G2Signals),
         NEW t \in Waiters, ClientLock(t) \/ WaitStep(t)
  PROVE  MemberMoves(t)
<1>0. /\ t \in Threads /\ pc \in [Threads -> Places] /\ loc \in [Threads -> LocType]
      /\ loc[t] \in LocType /\ loc[t].seq \in Nat
      /\ Start \in Nat /\ End \in Nat /\ Start <= End
  BY CondAssumption, LocFields, GroupTypes, EndBound DEF Types
<1>1. t \in Members => /\ pc[t] \in MemberPCs /\ loc[t].ctl # "done"
                       /\ pc[t] = "test" => ~Closed(loc[t].val)
                       /\ ~Closed(Signals(t)) /\ ~Outdated(t)
  <2> SUFFICES ASSUME t \in Members PROVE ~Closed(Signals(t)) /\ ~Outdated(t) /\ pc[t] \in MemberPCs
    BY DEF MemberInv, Closed
  <2>1. pc[t] \in MemberPCs /\ loc[t].seq >= End
    BY DEF Members
  <2>2. G(t) = _G2(cond.wseq)
    BY <2>1 DEF PositionInv, MemberPCs, WaitingPCs
  <2>3. ~(loc[t].seq < Start)
    BY <1>0, <2>1
  <2> QED
    BY <2>1, <2>2, <2>3 DEF Signals, G2Signals, Outdated, Start
<1>2. /\ pc[t] \in OutPCs => loc[t].ctl # "done"
      /\ pc[t] \in UndoPCs => loc[t].seq < Start
  BY DEF MemberInv
<1> USE DEF Goto, MemberPCs, AdderPCs, WaitingPCs, OutPCs, UndoPCs
<1>3. CASE ClientLock(t) \/ ClientUnlock(t) \/ WaitRef(t) \/ WaitUnlock(t)
  BY <1>0, <1>1, <1>2, <1>3 DEF MemberMoves, ClientLock, ClientUnlock, WaitRef, WaitUnlock, OnlyCond
<1>4. CASE LoadSignals(t) \/ TakeFails(t)
  <2>1. /\ pc[t] \in {"load", "test"} /\ pc'[t] = "test"
        /\ loc' = [loc EXCEPT ![t].val = Signals(t)]
    BY <1>0, <1>4 DEF LoadSignals, TakeFails
  <2>2. loc'[t].val = Signals(t) /\ loc'[t].ctl = loc[t].ctl
    BY <1>0, <2>1 DEF LocType
  <2> QED
    BY <1>1, <2>1, <2>2 DEF MemberMoves
<1>5. CASE TestClosed(t) \/ TakeSignal(t)
  <2>1. CASE TestClosed(t)
    <3>1. pc[t] = "test" /\ pc'[t] = "done" /\ Closed(loc[t].val)
      BY <1>0, <2>1 DEF TestClosed
    <3> QED
      BY <1>1, <3>1 DEF MemberMoves
  <2>2. CASE TakeSignal(t)
    <3>1. pc[t] = "test" /\ pc'[t] = "stolen"
      BY <1>0, <2>2 DEF TakeSignal
    <3> QED
      BY <2>2, <3>1 DEF MemberMoves
  <2> QED
    BY <1>5, <2>1, <2>2
<1>6. CASE TakeGroupRef(t) \/ BlockOnGroup(t) \/ DropClearFlag(t)
  <2>1. /\ loc' = loc
        /\ \/ pc[t] = "test" /\ pc'[t] = "recheck"
           \/ pc[t] = "futex" /\ pc'[t] = "drop"
           \/ pc[t] = "drop_clear" /\ pc'[t] = "drop_wake"
    BY <1>0, <1>6 DEF TakeGroupRef, BlockOnGroup, DropClearFlag, OnlyCond, OnlyFutex
  <2> QED
    BY <1>1, <2>1 DEF MemberMoves
<1>7. CASE Recheck(t)
  <2>1. pc[t] = "recheck" /\ pc'[t] \in {"drop", "recheck_start"}
    <3>1. \E p \in {"drop", "recheck_start"} : Goto(t, "recheck", p)
      BY <1>7 DEF Recheck
    <3> QED
      BY <1>0, <3>1
  <2>2. t \in Members => loc' = loc
    <3>1. ~Closed(Signals(t)) => loc' = loc
      BY <1>7 DEF Recheck
    <3> QED
      BY <1>1, <3>1
  <2> QED
    BY <1>1, <2>1, <2>2 DEF MemberMoves
<1>8. CASE RecheckStart(t)
  <2>1. pc[t] = "recheck_start" /\ pc'[t] \in {"drop", "futex"}
    <3>1. \E p \in {"drop", "futex"} : Goto(t, "recheck_start", p)
      BY <1>8 DEF RecheckStart
    <3> QED
      BY <1>0, <3>1
  <2>2. t \in Members => loc' = loc
    <3>1. ~Outdated(t) => loc' = loc
      BY <1>8 DEF RecheckStart
    <3> QED
      BY <1>1, <3>1
  <2> QED
    BY <1>1, <2>1, <2>2 DEF MemberMoves
<1>9. CASE DropGroupRef(t) \/ DropWake(t)
  BY <1>0, <1>1, <1>2, <1>9 DEF MemberMoves, DropGroupRef, DropWake, AfterDrop, OnlyCond, OnlyFutex
<1>10. CASE TestStolen(t)
  <2>1. pc[t] = "stolen" /\ pc'[t] \in {"undo_load", "done"} /\ (pc'[t] = "undo_load" => Outdated(t))
    BY <1>0, <1>10 DEF TestStolen, MayHaveStolen
  <2> QED
    <3>1. pc'[t] = "undo_load" => loc[t].seq < Start
      BY <2>1 DEF Outdated, Start
    <3>2. t \notin Members
      BY <2>1 DEF Members
    <3> QED
      BY <2>1, <3>1, <3>2 DEF MemberMoves
<1>11. CASE UndoLoad(t) \/ UndoCheck(t) \/ UndoAdd(t) \/ UndoAddFails(t) \/ UndoWake(t)
  BY <1>0, <1>1, <1>2, <1>11 DEF MemberMoves, UndoLoad, UndoCheck, UndoAdd, UndoAddFails, UndoWake
<1>12. CASE WaitUnref(t)
  <2>1. pc[t] = "done" /\ pc'[t] \in {"dtor_wake", "relock"} /\ loc'[t] = NoLocals
    <3>1. \E p \in {"dtor_wake", "relock"} : Goto(t, "done", p)
      BY <1>12 DEF WaitUnref
    <3>2. loc' = [loc EXCEPT ![t] = NoLocals]
      BY <1>12 DEF WaitUnref
    <3> QED
      BY <1>0, <3>1, <3>2
  <2>2. NoLocals.ctl # "done"
    BY DEF NoLocals
  <2> QED
    BY <1>1, <2>1, <2>2 DEF MemberMoves
<1>13. CASE WakeDestroyer(t) \/ Relock(t)
  BY <1>0, <1>1, <1>2, <1>13 DEF MemberMoves, WakeDestroyer, Relock, OnlyFutex
<1> QED
  BY <1>3, <1>4, <1>5, <1>6, <1>7, <1>8, <1>9, <1>10, <1>11, <1>12, <1>13 DEF WaitStep

\* A waiter that takes no new position only ever leaves the two sets, and which
\* step leaves which set matters.
LEMMA WaiterSets ==
  ASSUME Types, GroupInv, PositionInv, MemberInv, ~Closed(G2Signals),
         NEW t \in Waiters, ClientLock(t) \/ WaitStep(t), ~WaitSeq(t)
  PROVE  /\ KeepGroups /\ MemberInv'
         /\ Adders' \subseteq Adders
         /\ UndoAdd(t) => t \in Adders /\ Adders' = Adders \ {t}
         /\ IF TakeSignal(t) THEN Members' = Members \ {t} ELSE Members' = Members
<1>0. /\ WaiterEffect(t) /\ MemberMoves(t) /\ Waiters \subseteq Threads /\ t \in Threads
      /\ loc \in [Threads -> LocType] /\ pc \in [Threads -> Places]
      /\ Start \in Nat /\ End \in Nat /\ Start <= End
  BY WaiterSteps, WaiterMembership, EndBound, GroupTypes, CondAssumption DEF Types
<1>1. \A u \in Waiters : u # t => pc'[u] = pc[u] /\ loc'[u] = loc[u]
  BY <1>0 DEF WaiterEffect, KeepOthers
<1>2. KeepGroups /\ End' = End /\ Start' = Start
  BY <1>0, GroupsKept DEF WaiterEffect, KeepGroups
<1>3. pc'[t] \in WaitingPCs => loc'[t].seq = loc[t].seq
  BY <1>0 DEF WaiterEffect
<1>4. Adders' \subseteq Adders
  <2> SUFFICES ASSUME NEW u \in Adders' PROVE u \in Adders
    OBVIOUS
  <2>1. u \in Waiters /\ pc'[u] \in AdderPCs /\ loc'[u].seq < End
    BY <1>2 DEF Adders
  <2> QED
    BY <1>0, <1>1, <1>3, <2>1 DEF Adders, AdderPCs, MemberMoves
<1>5. Members' \subseteq Members
  <2> SUFFICES ASSUME NEW u \in Members' PROVE u \in Members
    OBVIOUS
  <2>1. u \in Waiters /\ pc'[u] \in MemberPCs /\ loc'[u].seq >= End
    BY <1>2 DEF Members
  <2> QED
    BY <1>0, <1>1, <1>3, <2>1 DEF Members, MemberPCs, WaitingPCs, MemberMoves
<1>6. ASSUME TakeSignal(t) PROVE Members' = Members \ {t}
  <2>1. pc'[t] = "stolen"
    BY <1>0, <1>6 DEF TakeSignal, Goto
  <2>2. t \notin Members'
    BY <2>1 DEF Members, MemberPCs
  <2>3. \A u \in Members : u # t => u \in Members'
    BY <1>1, <1>2 DEF Members
  <2> QED
    BY <1>5, <2>2, <2>3
<1>7. ASSUME ~TakeSignal(t) PROVE Members' = Members
  <2> SUFFICES ASSUME NEW u \in Members PROVE u \in Members'
    BY <1>5
  <2>1. u \in Waiters /\ pc[u] \in MemberPCs /\ loc[u].seq >= End
    BY DEF Members
  <2> QED
    BY <1>0, <1>1, <1>2, <1>3, <1>7, <2>1 DEF Members, MemberPCs, WaitingPCs, MemberMoves
<1>8. ASSUME UndoAdd(t) PROVE t \in Adders /\ Adders' = Adders \ {t}
  <2>1. pc[t] = "undo_cas" /\ pc'[t] = "undo_wake"
    BY <1>0, <1>8 DEF UndoAdd, Goto
  <2>2. loc[t].seq < Start /\ loc[t].seq \in Nat
    BY <1>0, <2>1, LocFields DEF MemberInv, UndoPCs
  <2>3. t \in Adders
    BY <1>0, <2>1, <2>2 DEF Adders, AdderPCs, WaitingPCs
  <2>4. t \notin Adders'
    BY <2>1 DEF Adders, AdderPCs
  <2>5. \A u \in Adders : u # t => u \in Adders'
    BY <1>1, <1>2 DEF Adders
  <2> QED
    BY <1>4, <2>3, <2>4, <2>5
<1>9. MemberInv'
  <2> SUFFICES ASSUME NEW u \in Waiters
               PROVE  /\ pc'[u] \in OutPCs => loc'[u].ctl # "done"
                      /\ pc'[u] \in UndoPCs => loc'[u].seq < Start'
                      /\ u \in Members' =>
                           loc'[u].ctl # "done" /\ (pc'[u] = "test" => ~Closed(loc'[u].val))
    BY DEF MemberInv
  <2>1. CASE u # t
    BY <1>1, <1>2, <1>5, <2>1 DEF MemberInv
  <2>2. CASE u = t
    <3>1. t \in Members' => pc'[t] \in MemberPCs /\ t \in Members
      BY <1>5 DEF Members
    <3>2. pc'[t] \in UndoPCs => loc'[t].seq < Start
      BY <1>0, <1>3 DEF MemberMoves, UndoPCs, WaitingPCs
    <3> QED
      BY <1>0, <1>2, <2>2, <3>1, <3>2 DEF MemberMoves
  <2> QED
    BY <2>1, <2>2
<1> QED
  BY <1>2, <1>4, <1>6, <1>7, <1>8, <1>9

\* A signal more or less in a word of signals.
LEMMA SignalArithmetic ==
  ASSUME NEW w \in Word32
  PROVE  /\ w \div 2 \in Nat
         /\ /\ (w + 2) % U32 \in Word32 /\ ((w + 2) % U32) \div 2 <= w \div 2 + 1
            /\ Closed((w + 2) % U32) => Closed(w)
         /\ w # 0 /\ ~Closed(w) =>
              /\ w - 2 \in Word32 /\ (w - 2) \div 2 = w \div 2 - 1
              /\ Closed(w - 2) => Closed(w)
<1>1. w + 2 < U32 => (w + 2) % U32 = w + 2
  BY Mod32, Width DEF Word32
<1>2. w + 2 >= U32 => (w + 2) % U32 = w + 2 - U32
  <2> SUFFICES ASSUME w + 2 >= U32 PROVE (w + 2) % U32 = w + 2 - U32
    OBVIOUS
  <2> DEFINE b == w + 2 - U32
  <2>1. b \in 0..(U32 - 1) /\ w + 2 = b + U32
    BY Width DEF Word32
  <2>2. b % U32 = b
    BY <2>1, Mod32
  <2>3. (b + U32) % U32 = b % U32
    <3> HIDE DEF b
    <3> QED
      BY <2>1, Width
  <2> QED
    BY <2>1, <2>2, <2>3
<1>3. CASE w + 2 < U32
  BY <1>1, <1>3, Width DEF Word32, Closed
<1>4. CASE w + 2 >= U32
  <2>1. PICK h \in Nat : U32 = 2 * h /\ h >= 4
    BY Width
  <2>2. w = 2 * h - 2 \/ w = 2 * h - 1
    BY <1>4, <2>1 DEF Word32
  <2>3. (w + 2) % U32 = w + 2 - 2 * h
    BY <1>2, <1>4, <2>1
  <2>4. CASE w = 2 * h - 2
    BY <2>1, <2>3, <2>4, Width DEF Word32, Closed
  <2>5. CASE w = 2 * h - 1
    BY <2>1, <2>3, <2>5, Width DEF Word32, Closed
  <2> QED
    BY <2>2, <2>4, <2>5
<1> QED
  BY <1>3, <1>4, Width DEF Word32

\* A waiter takes a signal or puts one back: what it gives to one side it takes
\* from the other.
LEMMA WaiterTrades ==
  ASSUME Types, GroupInv, PositionInv, ClosedInv, MemberInv, ~Closed(G2Signals),
         NEW t \in Waiters, ClientLock(t) \/ WaitStep(t), ~WaitSeq(t)
  PROVE  /\ \A i \in {0, 1} :
              /\ Closed(cond'.g_signals[i]) => Closed(cond.g_signals[i])
              /\ cond'.g_signals[i] \div 2 + Cardinality(Adders')
                   <= cond.g_signals[i] \div 2 + Cardinality(Adders)
         /\ G2Signals' \div 2 + Cardinality(Adders') + Cardinality(Members)
              <= G2Signals \div 2 + Cardinality(Adders) + Cardinality(Members')
<1>0. /\ t \in Threads /\ cond \in CondType /\ pc \in [Threads -> Places]
      /\ G(t) \in {0, 1} /\ \A i \in {0, 1} : cond.g_signals[i] \in Word32
  BY CondAssumption, LocFields, CondFields DEF Types, G, Word32
<1> DEFINE a == Cardinality(Adders)
           m == Cardinality(Members)
           i2 == _G2(cond.wseq)
<1>1. /\ a \in Nat /\ m \in Nat /\ IsFiniteSet(Adders) /\ IsFiniteSet(Members)
      /\ i2 \in {0, 1}
  BY CountsFinite, GroupTypes
<1>2. /\ cond'.wseq = cond.wseq /\ Adders' \subseteq Adders
      /\ UndoAdd(t) => t \in Adders /\ Adders' = Adders \ {t}
      /\ IF TakeSignal(t) THEN Members' = Members \ {t} ELSE Members' = Members
  BY WaiterSets DEF KeepGroups
<1>3. Cardinality(Adders') \in Nat /\ Cardinality(Adders') <= a
  BY <1>1, <1>2, FS_Subset, FS_CardinalityType
<1>4. G2Signals = cond.g_signals[i2] /\ G2Signals' = cond'.g_signals[i2]
  BY <1>2 DEF G2Signals
<1> HIDE DEF a, m, i2
<1>5. CASE TakeSignal(t)
  <2>1. PICK w \in Word32 : w = Signals(t)
    BY <1>0 DEF Signals
  <2>2. /\ w # 0 /\ ~Closed(w) /\ cond' = [cond EXCEPT !.g_signals[G(t)] = w - 2]
        /\ pc[t] = "test"
    BY <1>5, <2>1 DEF TakeSignal, _SignalsStep, Goto
  <2>3. w - 2 \in Word32 /\ (w - 2) \div 2 = w \div 2 - 1 /\ w \div 2 \in Nat
        /\ ~Closed(w - 2)
    BY <2>2, SignalArithmetic
  <2>4. /\ cond'.g_signals[G(t)] = w - 2
        /\ cond'.g_signals[1 - G(t)] = cond.g_signals[1 - G(t)]
    BY <1>0, <2>2, <2>3, SetSignals
  <2>5. \A i \in {0, 1} : i = G(t) \/ i = 1 - G(t)
    BY <1>0
  <2>6. \A i \in {0, 1} : /\ Closed(cond'.g_signals[i]) => Closed(cond.g_signals[i])
                         /\ cond'.g_signals[i] \div 2 <= cond.g_signals[i] \div 2
                         /\ cond.g_signals[i] \div 2 \in Nat
                         /\ cond'.g_signals[i] \div 2 \in Nat
    <3> SUFFICES ASSUME NEW i \in {0, 1}
                 PROVE  /\ Closed(cond'.g_signals[i]) => Closed(cond.g_signals[i])
                        /\ cond'.g_signals[i] \div 2 <= cond.g_signals[i] \div 2
                        /\ cond.g_signals[i] \div 2 \in Nat
                        /\ cond'.g_signals[i] \div 2 \in Nat
      OBVIOUS
    <3>1. CASE i = G(t)
      BY <2>1, <2>3, <2>4, <3>1, SignalArithmetic DEF Signals
    <3>2. CASE cond'.g_signals[i] = cond.g_signals[i]
      BY <1>0, <3>2, SignalArithmetic
    <3> QED
      BY <2>4, <2>5, <3>1, <3>2
  <2>7. Cardinality(Members') = IF t \in Members THEN m - 1 ELSE m
    BY <1>1, <1>2, <1>5, FS_RemoveElement DEF m
  <2>8. t \in Members => i2 = G(t)
    BY <2>2 DEF Members, PositionInv, WaitingPCs, i2
  <2>9. G2Signals' \div 2 + Cardinality(Adders') + m
          <= G2Signals \div 2 + a + Cardinality(Members')
    <3>1. CASE t \in Members
      <4>1. G2Signals' \div 2 = G2Signals \div 2 - 1
        BY <1>4, <2>1, <2>3, <2>4, <2>8, <3>1 DEF Signals
      <4> QED
        BY <1>1, <1>3, <1>4, <2>6, <2>7, <3>1, <4>1
    <3>2. CASE t \notin Members
      BY <1>1, <1>3, <1>4, <2>6, <2>7, <3>2
    <3> QED
      BY <3>1, <3>2
  <2> QED
    BY <1>1, <1>3, <2>6, <2>9 DEF a, m
<1>6. CASE UndoAdd(t)
  <2>1. PICK w \in Word32 : w = Signals(t)
    BY <1>0 DEF Signals
  <2>2. cond' = [cond EXCEPT !.g_signals[G(t)] = (w + 2) % U32] /\ pc[t] = "undo_cas"
    BY <1>6, <2>1 DEF UndoAdd, _SignalsStep, Goto, Signals
  <2>3. /\ w \div 2 \in Nat /\ (w + 2) % U32 \in Word32
        /\ ((w + 2) % U32) \div 2 <= w \div 2 + 1
        /\ Closed((w + 2) % U32) => Closed(w)
    BY SignalArithmetic
  <2>4. /\ cond'.g_signals[G(t)] = (w + 2) % U32
        /\ cond'.g_signals[1 - G(t)] = cond.g_signals[1 - G(t)]
    BY <1>0, <2>2, <2>3, SetSignals
  <2>5. \A i \in {0, 1} : i = G(t) \/ i = 1 - G(t)
    BY <1>0
  <2>6. \A i \in {0, 1} : /\ Closed(cond'.g_signals[i]) => Closed(cond.g_signals[i])
                         /\ cond'.g_signals[i] \div 2 <= cond.g_signals[i] \div 2 + 1
                         /\ cond.g_signals[i] \div 2 \in Nat
                         /\ cond'.g_signals[i] \div 2 \in Nat
    <3> SUFFICES ASSUME NEW i \in {0, 1}
                 PROVE  /\ Closed(cond'.g_signals[i]) => Closed(cond.g_signals[i])
                        /\ cond'.g_signals[i] \div 2 <= cond.g_signals[i] \div 2 + 1
                        /\ cond.g_signals[i] \div 2 \in Nat
                        /\ cond'.g_signals[i] \div 2 \in Nat
      OBVIOUS
    <3>1. CASE i = G(t)
      BY <2>1, <2>3, <2>4, <3>1, SignalArithmetic DEF Signals
    <3>2. CASE cond'.g_signals[i] = cond.g_signals[i]
      BY <1>0, <3>2, SignalArithmetic
    <3> QED
      BY <2>4, <2>5, <3>1, <3>2
  <2>7. Cardinality(Adders') = a - 1 /\ Cardinality(Members') = m
    <3>1. ~TakeSignal(t)
      BY <2>2 DEF TakeSignal, Goto
    <3> QED
      BY <1>1, <1>2, <1>6, <3>1, FS_RemoveElement DEF a, m
  <2> QED
    BY <1>1, <1>4, <2>6, <2>7 DEF a, m
<1>7. CASE KeepSignals /\ ~TakeSignal(t)
  <2>1. \A i \in {0, 1} : cond'.g_signals[i] = cond.g_signals[i] /\ cond.g_signals[i] \div 2 \in Nat
    BY <1>0, <1>7, SignalArithmetic DEF KeepSignals
  <2> QED
    BY <1>1, <1>2, <1>3, <1>4, <1>7, <2>1 DEF a, m
<1> QED
  BY <1>5, <1>6, <1>7, WaiterSteps DEF WaiterEffect

\* The sizes through a waiter's steps.
LEMMA SizeWaiter ==
  ASSUME Types, PlaceInv, GroupInv, PositionInv, ClosedInv, MemberInv, SizeInv,
         NEW t \in Waiters, ClientLock(t) \/ WaitSeq(t) \/ WaitStep(t)
  PROVE  MemberInv' /\ SizeInv'
<1>0. /\ WaiterEffect(t) /\ Waiters \subseteq Threads /\ Signalers \subseteq Threads
      /\ t \in Threads /\ t \notin Signalers /\ loc \in [Threads -> LocType]
      /\ pc \in [Threads -> Places] /\ ~Closed(G2Signals)
      /\ \A s \in Signalers : G(s) \in {0, 1}
      /\ \A i \in {0, 1} : cond.g_signals[i] \in Word32 /\ cond'.g_signals[i] \in Word32
  <2>1. WaiterEffect(t)
    BY WaiterSteps
  <2>2. cond \in CondType /\ cond' \in CondType
    BY <2>1 DEF WaiterEffect, Types
  <2> QED
    BY <2>1, <2>2, CondFields, CondAssumption, SignalerValues DEF Types, Word32, SizeInv
<1>1. \A u \in Threads : u # t => pc'[u] = pc[u] /\ loc'[u] = loc[u]
  BY <1>0 DEF WaiterEffect, KeepOthers
<1> DEFINE n == Cardinality(Waiters)
           a == Cardinality(Adders)
           m == Cardinality(Members)
<1>2. /\ n \in Nat /\ a \in Nat /\ m \in Nat
      /\ Position - End + G2Signals \div 2 + a <= m + 2 * n
      /\ cond.orig_size <= 3 * n
  BY CountsFinite DEF SizeInv
<1>3. Cardinality(Members') \in Nat /\ Cardinality(Adders') \in Nat
  <2>1. Members' \subseteq Waiters /\ Adders' \subseteq Waiters
    BY DEF Members, Adders
  <2> QED
    BY <2>1, CountsFinite, FS_Subset, FS_CardinalityType
<1>4. CASE ~WaitSeq(t)
  <2>1. KeepGroups /\ MemberInv'
    BY <1>0, <1>4, WaiterSets
  <2>2. /\ \A i \in {0, 1} :
              /\ Closed(cond'.g_signals[i]) => Closed(cond.g_signals[i])
              /\ cond'.g_signals[i] \div 2 + Cardinality(Adders')
                   <= cond.g_signals[i] \div 2 + a
        /\ G2Signals' \div 2 + Cardinality(Adders') + m
             <= G2Signals \div 2 + a + Cardinality(Members')
    BY <1>0, <1>4, WaiterTrades
  <2>3. ~Closed(G2Signals')
    BY <1>0, <2>1, <2>2, GroupTypes DEF G2Signals, KeepGroups
  <2>4. Position' - End' + G2Signals' \div 2 + Cardinality(Adders') <= Cardinality(Members') + 2 * n
    <3>1. Position' = Position /\ End' = End /\ Position \in Nat /\ End \in Nat
      BY <2>1, GroupsKept, GroupTypes
    <3>2. G2Signals \div 2 \in Nat /\ G2Signals' \div 2 \in Nat
      BY <1>0, <2>1, SignalArithmetic, GroupTypes DEF G2Signals, KeepGroups
    <3> HIDE DEF a, m, n
    <3> QED
      BY <1>2, <1>3, <2>2, <3>1, <3>2
  <2>5. ASSUME NEW s \in Signalers, pc'[s] = "q_flip"
        PROVE  ~Closed(Signals(s))' /\ Signals(s)' \div 2 + Cardinality(Adders') <= n
    <3>1. pc[s] = "q_flip" /\ G(s)' = G(s) /\ G(s) \in {0, 1}
      BY <1>0, <1>1, <2>5 DEF G
    <3>2. ~Closed(Signals(s)) /\ Signals(s) \div 2 + a <= n
      BY <3>1 DEF SizeInv
    <3>3. Signals(s) = cond.g_signals[G(s)] /\ Signals(s)' = cond'.g_signals[G(s)]
      BY <3>1 DEF Signals
    <3>4. /\ cond.g_signals[G(s)] \div 2 \in Nat
          /\ cond'.g_signals[G(s)] \div 2 \in Nat
      BY <1>0, <3>1, SignalArithmetic
    <3> HIDE DEF a, n
    <3> QED
      BY <1>2, <1>3, <2>2, <3>1, <3>2, <3>3, <3>4
  <2>6. cond'.orig_size = cond.orig_size
    BY <2>1 DEF KeepGroups
  <2> QED
    BY <1>2, <2>1, <2>3, <2>4, <2>5, <2>6 DEF SizeInv
<1>5. CASE WaitSeq(t)
  <2>1. /\ pc[t] = "held" /\ pc'[t] = "wref" /\ cond' = [cond EXCEPT !.wseq = @ + 2]
        /\ loc' = [loc EXCEPT ![t].seq = Position, ![t].g = _G2(cond.wseq)]
    BY <1>0, <1>5 DEF WaitSeq, Goto, _SeqStep, Position
  <2>2. /\ cond'.wseq = cond.wseq + 2 /\ KeepSignals
        /\ cond'.g1_start = cond.g1_start /\ cond'.orig_size = cond.orig_size
    BY <2>1, GroupTypes DEF CondType, KeepSignals
  <2>3. /\ Position' = Position + 1 /\ _G2(cond.wseq)' = _G2(cond.wseq)
    BY <2>2, GroupTypes DEF Position, _Seq, _G2
  <2>4. Start' = Start /\ End' = End /\ End <= Position
    BY <2>2, <2>3, EndBound DEF Start, Flipping, End
  <2>5. loc'[t].seq = Position /\ loc'[t].ctl = loc[t].ctl
    BY <1>0, <2>1 DEF LocType
  <2>6. loc[t].ctl # "done"
    BY <2>1 DEF MemberInv, OutPCs
  <2>7. Members' = Members \cup {t} /\ t \notin Members
    BY <1>0, <1>1, <2>1, <2>4, <2>5, GroupTypes DEF Members, MemberPCs
  <2>8. Adders' = Adders
    <3>1. ~(Position < End)
      BY <2>4, GroupTypes
    <3>2. t \notin Adders /\ t \notin Adders'
      BY <2>1, <2>4, <2>5, <3>1 DEF Adders, AdderPCs, WaitingPCs
    <3> QED
      BY <1>0, <1>1, <2>4, <3>2 DEF Adders
  <2>9. Cardinality(Members') = m + 1
    BY <2>7, CountsFinite, FS_AddElement
  <2>10. MemberInv'
    <3> SUFFICES ASSUME NEW u \in Waiters
                 PROVE  /\ pc'[u] \in OutPCs => loc'[u].ctl # "done"
                        /\ pc'[u] \in UndoPCs => loc'[u].seq < Start'
                        /\ u \in Members' =>
                             loc'[u].ctl # "done" /\ (pc'[u] = "test" => ~Closed(loc'[u].val))
      BY DEF MemberInv
    <3>1. CASE u # t
      BY <1>0, <1>1, <2>4, <2>7, <3>1 DEF MemberInv
    <3>2. CASE u = t
      BY <2>1, <2>5, <2>6, <3>2 DEF OutPCs, UndoPCs
    <3> QED
      BY <3>1, <3>2
  <2>11. G2Signals' = G2Signals
    BY <2>2, <2>3 DEF G2Signals, KeepSignals
  <2>12. Position' - End' + G2Signals' \div 2 + Cardinality(Adders') <= Cardinality(Members') + 2 * n
    <3>1. G2Signals \div 2 \in Nat
      BY <1>0, SignalArithmetic, GroupTypes DEF G2Signals
    <3> HIDE DEF n
    <3> QED
      BY <1>2, <2>3, <2>4, <2>8, <2>9, <2>11, <3>1, GroupTypes
  <2>13. \A s \in Signalers : pc'[s] = pc[s] /\ Signals(s)' = Signals(s)
    BY <1>0, <1>1, <2>2 DEF Signals, G, KeepSignals
  <2> QED
    BY <1>0, <1>2, <2>2, <2>8, <2>10, <2>11, <2>12, <2>13 DEF SizeInv
<1> QED
  BY <1>4, <1>5

\* A signaler's step that neither moves the beginning of G2 nor gives it signals.
LEMMA SizeKept ==
  ASSUME Types, GroupInv, MemberInv, SizeInv,
         \A t \in Waiters : pc'[t] = pc[t] /\ loc'[t] = loc[t],
         Position' = Position, End' = End, Start' = Start \/ Start' = End,
         G2Signals' = G2Signals, cond'.orig_size = cond.orig_size,
         \A s \in Signalers :
           pc'[s] = "q_flip" =>
             ~Closed(Signals(s))' /\ Signals(s)' \div 2 + Cardinality(Adders) <= Cardinality(Waiters)
  PROVE  MemberInv' /\ SizeInv'
<1>1. Members' = Members /\ Adders' = Adders
  BY DEF Members, Adders
<1>2. SizeInv'
  BY <1>1 DEF SizeInv
<1>3. \A t \in Waiters : loc[t].seq \in Nat
  BY CondAssumption, LocFields DEF Types
<1>4. MemberInv'
  <2> SUFFICES ASSUME NEW u \in Waiters
               PROVE  /\ pc'[u] \in OutPCs => loc'[u].ctl # "done"
                      /\ pc'[u] \in UndoPCs => loc'[u].seq < Start'
                      /\ u \in Members' =>
                           loc'[u].ctl # "done" /\ (pc'[u] = "test" => ~Closed(loc'[u].val))
    BY DEF MemberInv
  <2>1. loc[u].seq < Start => loc[u].seq < Start'
    BY <1>3, EndBound, GroupTypes
  <2> QED
    BY <1>1, <2>1 DEF MemberInv
<1> QED
  BY <1>2, <1>4

\* The switch makes the waiters so far a group of the size they are, and the
\* reopened slot has only the signals put back since.
LEMMA SizeSwitch ==
  ASSUME Types, PlaceInv, GroupInv, SmallGroups, PositionInv, MemberInv, SizeInv,
         NEW s \in Signalers, SwitchGroups(s)
  PROVE  MemberInv' /\ SizeInv'
<1>0. /\ Waiters \subseteq Threads /\ Signalers \subseteq Threads /\ s \notin Waiters
      /\ pc \in [Threads -> Places] /\ loc \in [Threads -> LocType] /\ cond \in CondType
      /\ pc[s] = "q_flip" /\ G(s) \in {0, 1} /\ KeepOthers(s)
  BY CondAssumption, SignalerValues, SignalerSteps
     DEF Types, SwitchGroups, Goto, SignalStep, SignalerEffect
<1>1. \A u \in Threads : u # s => pc'[u] = pc[u] /\ loc'[u] = loc[u]
  BY <1>0 DEF KeepOthers
<1>2. /\ Flipping /\ G(s) = _G2(cond.g1_start) /\ End < Position /\ inner = s
  BY <1>0 DEF GroupInv, HolderInv, PlaceInv, InnerPCs
<1>3. /\ End' = Position /\ Start' = Start /\ Position' = Position
      /\ G1' = _G2(cond.wseq) /\ End = Start
  BY GroupSwitch
<1>4. _G2(cond.wseq)' = G(s)
  <2>1. cond'.wseq \in Nat
    BY SignalerSteps, CondFields DEF SignalStep, SignalerEffect, Types
  <2> QED
    BY <1>0, <1>2, <1>3, <2>1, GroupTypes DEF G1, _GAnother, _G2, Flipping
<1>5. G2Signals' = Signals(s)
  <2>1. KeepSignals
    BY <1>0 DEF SwitchGroups, KeepSignals, CondType
  <2> QED
    BY <1>4, <2>1 DEF G2Signals, Signals, KeepSignals
<1> DEFINE n == Cardinality(Waiters)
           a == Cardinality(Adders)
           m == Cardinality(Members)
<1>6. n \in Nat /\ a \in Nat /\ m \in Nat /\ m <= n
  BY CountsFinite
<1>7. ~Closed(Signals(s)) /\ Signals(s) \div 2 + a <= n /\ Signals(s) \div 2 \in Nat
  BY <1>0, SignalArithmetic, CondFields DEF SizeInv, Signals, Word32
<1>8. Members' = {} /\ Cardinality(Members') = 0
  <2>1. ASSUME NEW t \in Waiters PROVE t \notin Members'
    <3>1. pc'[t] = pc[t] /\ loc'[t] = loc[t] /\ loc[t].seq \in Nat
      BY <1>0, <1>1, LocFields
    <3>2. pc[t] \in MemberPCs => loc[t].seq < Position
      BY DEF PositionInv, MemberPCs, WaitingPCs
    <3>3. loc[t].seq < Position => ~(loc[t].seq >= Position)
      BY <3>1, GroupTypes
    <3> QED
      BY <1>3, <3>1, <3>2, <3>3 DEF Members
  <2> QED
    BY <2>1, FS_EmptySet DEF Members
<1>9. Cardinality(Adders') \in Nat /\ Cardinality(Adders') <= n
  <2>1. Adders' \subseteq Waiters
    BY DEF Adders
  <2> QED
    BY <2>1, CountsFinite, FS_Subset, FS_CardinalityType
<1>10. cond'.orig_size <= 3 * n
  <2>1. cond'.orig_size = Position - Start /\ Position - End <= 3 * n
    <3>1. cond'.orig_size \in Nat
      BY SignalerSteps, CondFields, Width DEF SignalStep, SignalerEffect, Types
    <3>2. End' = Start' \/ End' = Start' + cond'.orig_size
      BY DEF End
    <3>3. Position - End + G2Signals \div 2 + a <= m + 2 * n /\ G2Signals \div 2 \in Nat
      BY <1>0, SignalArithmetic, CondFields, GroupTypes DEF SizeInv, G2Signals, Word32
    <3> HIDE DEF a, m, n
    <3> QED
      BY <1>2, <1>3, <1>6, <3>1, <3>2, <3>3, GroupTypes
  <2> QED
    BY <1>3, <2>1
<1>11. \A u \in Signalers : pc'[u] # "q_flip"
  <2>1. pc'[s] # "q_flip"
    <3>1. \E p \in {"post", "s_unlock"} : Goto(s, "q_flip", p)
      BY DEF SwitchGroups
    <3> QED
      BY <1>0, <3>1 DEF Goto
  <2>2. \A u \in Signalers : u # s => pc[u] # "q_flip"
    BY <1>2 DEF PlaceInv, InnerPCs
  <2> QED
    BY <1>0, <1>1, <2>1, <2>2
<1>12. SizeInv'
  <2>1. Position' - End' + G2Signals' \div 2 + Cardinality(Adders') <= Cardinality(Members') + 2 * n
    <3> HIDE DEF a, n
    <3> QED
      BY <1>3, <1>5, <1>6, <1>7, <1>8, <1>9, GroupTypes
  <2> QED
    BY <1>5, <1>7, <1>10, <1>11, <2>1 DEF SizeInv
<1>13. MemberInv'
  <2> SUFFICES ASSUME NEW u \in Waiters
               PROVE  /\ pc'[u] \in OutPCs => loc'[u].ctl # "done"
                      /\ pc'[u] \in UndoPCs => loc'[u].seq < Start'
                      /\ u \in Members' =>
                           loc'[u].ctl # "done" /\ (pc'[u] = "test" => ~Closed(loc'[u].val))
    BY DEF MemberInv
  <2> QED
    BY <1>0, <1>1, <1>3, <1>8 DEF MemberInv
<1> QED
  BY <1>12, <1>13

\* The other steps of a signaler: it gives signals to G1 and closes G1, whose
\* slot is not that of G2, and clears the slot it reopens.
LEMMA SizeSignaler ==
  ASSUME Types, PlaceInv, GroupInv, SmallGroups, PositionInv, MemberInv, SizeInv,
         NEW s \in Signalers, SignalerCall(s) \/ SignalStep(s) \/ DestroyStep(s)
  PROVE  MemberInv' /\ SizeInv'
<1>0. /\ SignalerEffect(s) /\ Waiters \subseteq Threads /\ Signalers \subseteq Threads
      /\ s \in Threads /\ s \notin Waiters /\ G(s) \in {0, 1} /\ cond \in CondType
      /\ pc \in [Threads -> Places] /\ 0 \in Word32
      /\ \A i \in {0, 1} : cond.g_signals[i] \in Word32
  BY CondAssumption, SignalerValues, SignalerSteps, CondFields, Width DEF Types, Word32
<1>1. \A u \in Threads : u # s => pc'[u] = pc[u] /\ loc'[u] = loc[u]
  BY <1>0 DEF SignalerEffect, KeepOthers
<1>2. \A t \in Waiters : pc'[t] = pc[t] /\ loc'[t] = loc[t]
  BY <1>0, <1>1
<1>3. pc[s] \in InnerPCs => \A u \in Signalers : u # s => pc[u] # "q_flip"
  BY DEF PlaceInv, InnerPCs
<1>4. pc'[s] = "q_flip" => ReopenSlot(s)
  <2> USE DEF Goto
  <2>1. CASE SignalerCall(s)
    BY <1>0, <2>1 DEF SignalerCall, CallWake, CallWakeNobody, CallDestroy
  <2>2. CASE DestroyStep(s)
    BY <1>0, <2>2 DEF DestroyStep, DestroyWait, DestroyReload, DestroyReturn
  <2>3. CASE InnerLock(s) \/ InnerUnlock(s) \/ LoadSeq(s) \/ CheckG2(s) \/ LoadRefs(s)
    BY <1>0, <2>3 DEF InnerLock, InnerUnlock, LoadSeq, CheckG2, LoadRefs
  <2>4. CASE BroadcastG1(s) \/ BroadcastWakeG1(s) \/ CloseG1(s) \/ RequestWake(s) \/ WaitRefs(s)
    BY <1>0, <2>4 DEF BroadcastG1, BroadcastWakeG1, CloseG1, RequestWake, WaitRefs
  <2>5. CASE AdvanceG1Start(s) \/ SwitchGroups(s) \/ Post(s) \/ WakeG1(s)
    BY <1>0, <2>5 DEF AdvanceG1Start, SwitchGroups, Post, WakeG1
  <2> QED
    BY <2>1, <2>2, <2>3, <2>4, <2>5 DEF SignalStep
<1>5. CASE KeepGroups /\ KeepSignals /\ ~ReopenSlot(s)
  <2>1. /\ Position' = Position /\ End' = End /\ Start' = Start
        /\ G2Signals' = G2Signals /\ cond'.orig_size = cond.orig_size
    BY <1>5, GroupsKept DEF G2Signals, KeepSignals, KeepGroups
  <2>2. \A u \in Signalers : pc'[u] = "q_flip" => pc[u] = "q_flip" /\ Signals(u)' = Signals(u)
    BY <1>0, <1>1, <1>4, <1>5 DEF Signals, G, KeepSignals
  <2> QED
    BY <1>2, <2>1, <2>2, SizeKept DEF SizeInv
<1>6. CASE AdvanceG1Start(s)
  <2>1. End' = End /\ Start' = End /\ Position' = Position /\ _G2(cond.wseq)' = _G2(cond.wseq)
    BY <1>6, GroupAdvance
  <2>2. cond'.orig_size = cond.orig_size /\ KeepSignals
    BY <1>0, <1>6 DEF AdvanceG1Start, CondType, KeepSignals
  <2>3. pc[s] = "q_advance" /\ pc'[s] = "q_reopen"
    BY <1>0, <1>6 DEF AdvanceG1Start, Goto
  <2>4. G2Signals' = G2Signals
    BY <2>1, <2>2 DEF G2Signals, KeepSignals
  <2>5. \A u \in Signalers : pc'[u] # "q_flip"
    BY <1>0, <1>1, <1>3, <2>3 DEF InnerPCs
  <2> QED
    BY <1>2, <2>1, <2>2, <2>4, <2>5, SizeKept
<1>7. CASE ReopenSlot(s)
  <2>1. /\ pc[s] = "q_reopen" /\ pc'[s] = "q_flip" /\ loc' = loc
        /\ cond' = [cond EXCEPT !.g_signals[G(s)] = 0]
    BY <1>0, <1>7 DEF ReopenSlot, Goto, OnlyCond
  <2>2. /\ cond'.g_signals[G(s)] = 0 /\ KeepGroups
        /\ cond'.g_signals[1 - G(s)] = cond.g_signals[1 - G(s)]
    BY <1>0, <2>1, SetSignals
  <2>3. _G2(cond.wseq) = 1 - G(s)
    BY <1>0, <2>1, GroupTypes DEF GroupInv, HolderInv, Flipping
  <2>4. /\ Position' = Position /\ End' = End /\ Start' = Start
        /\ _G2(cond.wseq)' = _G2(cond.wseq) /\ cond'.orig_size = cond.orig_size
    BY <2>2, GroupsKept DEF KeepGroups
  <2>5. G2Signals' = G2Signals
    BY <2>2, <2>3, <2>4 DEF G2Signals
  <2>6. \A u \in Signalers : pc'[u] = "q_flip" => u = s
    BY <1>0, <1>1, <1>3, <2>1 DEF InnerPCs
  <2>7. Signals(s)' = 0 /\ ~Closed(0) /\ 0 \div 2 = 0
    BY <2>1, <2>2 DEF Signals, G, Closed
  <2>8. 0 + Cardinality(Adders) <= Cardinality(Waiters)
    BY CountsFinite
  <2> QED
    BY <1>2, <2>4, <2>5, <2>6, <2>7, <2>8, SizeKept
<1>8. CASE BroadcastG1(s) \/ Post(s) \/ CloseG1(s)
  <2>1. /\ pc[s] \in {"b_post", "post", "q_close"} /\ pc'[s] \in {"b_wake", "s_unlock", "q_refs"}
    BY <1>0, <1>8 DEF BroadcastG1, Post, CloseG1, Goto
  <2>2. G(s) = G1
    BY <2>1 DEF GroupInv, HolderInv
  <2>3. /\ cond'.wseq = cond.wseq /\ cond'.g1_start = cond.g1_start
        /\ cond'.orig_size = cond.orig_size
        /\ cond'.g_signals[1 - G(s)] = cond.g_signals[1 - G(s)]
    <3>1. CASE CloseG1(s)
      BY <1>0, <3>1 DEF CloseG1, CondType
    <3>2. CASE BroadcastG1(s) \/ Post(s)
      <4>1. PICK w \in Word32, z \in Word32 : cond' = WithGiven(G(s), w, z)
        BY <1>0, <3>2, GiveValues DEF BroadcastG1, Post, GiveAll, GiveOne, _SignalsStep, WithGiven
      <4> QED
        BY <1>0, <4>1, SetGiven
    <3> QED
      BY <1>8, <3>1, <3>2
  <2>4. /\ Position' = Position /\ Start' = Start /\ Flipping' = Flipping
        /\ _G2(cond.wseq)' = _G2(cond.wseq)
    BY <2>3 DEF Position, Start, Flipping
  <2>5. End' = End
    BY <2>3, <2>4 DEF End
  <2>6. G2Signals' = G2Signals
    BY <2>2, <2>3, <2>4, GroupTypes DEF G2Signals, G1, _GAnother
  <2>7. \A u \in Signalers : pc'[u] # "q_flip"
    BY <1>0, <1>1, <1>3, <2>1 DEF InnerPCs
  <2> QED
    BY <1>2, <2>3, <2>4, <2>5, <2>6, <2>7, SizeKept
<1> QED
  BY <1>0, <1>5, <1>6, <1>7, <1>8, SizeSwitch DEF SignalerEffect

LEMMA SizeInit == Init => MemberInv /\ SizeInv
<1> SUFFICES ASSUME Init PROVE MemberInv /\ SizeInv
  OBVIOUS
<1>1. /\ cond = pthread_cond_init /\ Waiters \subseteq Threads /\ Signalers \subseteq Threads
      /\ \A t \in Threads : pc[t] = "user" /\ loc[t] = NoLocals
  BY CondAssumption DEF Init
<1>2. Members = {} /\ Adders = {}
  BY <1>1 DEF Members, MemberPCs, Adders, AdderPCs, WaitingPCs
<1>3. NoLocals.ctl # "done"
  BY DEF NoLocals
<1>4. MemberInv
  BY <1>1, <1>2, <1>3 DEF MemberInv, UndoPCs
<1>5. Position = 0 /\ End = 0 /\ G2Signals = 0 /\ cond.orig_size = 0
  BY <1>1 DEF pthread_cond_init, Position, End, Start, Flipping, _Seq, _G2, G2Signals
<1>6. SizeInv
  BY <1>1, <1>2, <1>5, CountsFinite, FS_EmptySet DEF SizeInv, Closed
<1> QED
  BY <1>4, <1>6

LEMMA SizeStep ==
  ASSUME Types, PlaceInv, GroupInv, SmallGroups, PositionInv, ClosedInv, MemberInv, SizeInv,
         [Next]_vars
  PROVE  MemberInv' /\ SizeInv'
<1>1. CASE UNCHANGED vars
  <2>1. KeepGroups /\ KeepSignals /\ pc' = pc /\ loc' = loc
    BY <1>1 DEF vars, KeepGroups, KeepSignals
  <2>2. G2Signals' = G2Signals /\ \A s \in Signalers : Signals(s)' = Signals(s)
    BY <1>1 DEF vars, G2Signals, Signals, G
  <2> QED
    BY <2>1, <2>2, GroupsKept, SizeKept DEF KeepGroups, SizeInv
<1> QED
  BY <1>1, SizeWaiter, SizeSignaler DEF Next

-----------------------------------------------------------------------------
(* The invariant of the condition variable *)

LEMMA CondInvHolds == ASSUME FewThreads PROVE Spec => []CondInv
<1>1. Init => CondInv
  BY TypesInit, TypesNamed, PlaceInit, GroupInit, PositionInit, ClosedInit, BlockInit, RefsInit,
     SizeInit DEF CondInv
<1>2. CondInv /\ [Next]_vars => CondInv'
  <2> SUFFICES ASSUME CondInv, [Next]_vars PROVE CondInv'
    OBVIOUS
  <2>1. /\ Types /\ PlaceInv /\ GroupInv /\ PositionInv /\ ClosedInv /\ BlockInv /\ RefsInv
        /\ MemberInv /\ SizeInv
    BY TypesNamed DEF CondInv
  <2>2. Types' => TypeOK'
    BY TypesNamed, PTL
  <2>3. SmallGroups /\ FewWaiters
    <3>1. FewWaiters
      BY CountsFinite, Width DEF FewThreads, FewWaiters
    <3> QED
      BY <2>1, <3>1, SizesBound
  <2>4. /\ Types' /\ PlaceInv' /\ GroupInv' /\ PositionInv' /\ ClosedInv' /\ BlockInv'
        /\ RefsInv' /\ MemberInv' /\ SizeInv'
    BY <2>1, <2>3, TypesStep, PlaceStep, GroupStep, PositionStep, ClosedStep, BlockStep,
       RefsStep, SizeStep
  <2> QED
    BY <2>2, <2>4 DEF CondInv
<1> QED
  BY <1>1, <1>2, PTL DEF Spec

\* The groups stay smaller than the 30 bits above the inner lock in
\* g1_orig_size can say, however often the threads wait: a position is held by a
\* waiter, or was vacated by one that took a signal, and signals are only put
\* back by waiters of older groups (pthread_cond.h:205-210).
THEOREM GroupsStaySmall == ASSUME FewThreads PROVE Spec => []SmallGroups
<1>1. CondInv => SmallGroups
  BY TypesNamed, SizesBound DEF CondInv
<1> QED
  BY <1>1, CondInvHolds, PTL

\* G1, G2, their sizes and the two counters agree whenever nobody holds the
\* inner lock (pthread_cond.h:161-214).
THEOREM GroupsStayConsistent == ASSUME FewThreads PROVE Spec => []GroupsConsistent
<1>1. CondInv => GroupsConsistent
  BY TypesNamed, GroupsRest DEF CondInv
<1> QED
  BY <1>1, CondInvHolds, PTL

\* Whoever sleeps on a slot belongs to a group that is still there: closing a
\* group is complete before g1_start moves and the slot's wakeups belong to a new
\* group (pthread_cond.h:110-127 and :181-202).
THEOREM NobodySleepsOnAnOldGroup == ASSUME FewThreads PROVE Spec => []NoStaleSleeper
<1>1. CondInv => NoStaleSleeper
  <2> SUFFICES ASSUME CondInv, NEW t \in Waiters, asleep[t] = sig(G(t))
               PROVE  loc[t].seq >= _Seq(cond.g1_start)
    BY DEF NoStaleSleeper
  <2>1. ~Awake(t)
    <3>1. G(t) \in {0, 1}
      BY CondAssumption, LocFields, TypesNamed DEF CondInv, Types, G
    <3>2. sig(G(t)) \in Words
      BY <3>1, CondAssumption DEF sig
    <3> QED
      BY <3>2, FutexAssumption DEF Awake
  <2> QED
    BY <2>1 DEF CondInv, BlockInv, Start
<1> QED
  BY <1>1, CondInvHolds, PTL

-----------------------------------------------------------------------------
(* The signals *)

\* The waiters whose wait has not been ended yet: those of G1 and of groups
\* before it, and those of G1 alone.
Staying == {t \in Waiters : pc[t] \in MemberPCs /\ loc[t].ctl # "done"}
Reached == {t \in Staying : loc[t].seq < End}
G1Waiters == {t \in Staying : loc[t].seq \in Start..(End - 1)}

\* The waiters of older groups that took a signal of the current G1 and have
\* not come to see that it is gone.
Undoing ==
  {t \in Waiters : \/ pc[t] = "stolen" /\ loc[t].seq < Start /\ G(t) = G1
                   \/ pc[t] \in UndoPCs /\ loc[t].base = cond.g1_start}

\* A signaler that closes G1, and one that goes on to switch the groups or
\* still has to look whether it must.
ClosingPCs == {"q_refs", "q_flag", "q_wait", "q_advance"}
SwitchPCs == ClosingPCs \cup {"q_close", "q_reopen", "q_flip"}
Closing == \E s \in Signalers : pc[s] \in ClosingPCs
Coming(s) ==
  \/ pc[s] \in {"s_lock", "s_seq"} \cup SwitchPCs
  \/ pc[s] \in {"b_post", "b_wake", "q_check"} /\ loc[s].seq # End

\* The signals on the slot of G1, and those that nobody is about to give it.
G1Signals == cond.g_signals[G1]
Posting(s) == loc[s].ctl = "broadcast" /\ pc[s] \in {"b_post", "post"}
Ungiven == IF \E s \in Signalers : Posting(s) THEN 0 ELSE cond.g_size[G1]

\* The calls of signal that still have their signal to give, and the signalers
\* that gave one to G1 and still have to wake it.
Owes(s) == loc[s].ctl = "signal" /\ (Coming(s) \/ pc[s] = "post")
Signaling == {s \in Signalers : Owes(s)}
WillWake(s) == /\ G(s) = G1
               /\ pc[s] \in {"b_wake", "s_wake"} \/ (pc[s] = "s_unlock" /\ loc[s].val = 1)
Wakers == {s \in Signalers : loc[s].ctl = "signal" /\ WillWake(s)}
AwakeG1 == {t \in G1Waiters : Awake(t)}

\* A call in progress is one of signal or of broadcast, only the latter is at the
\* places of _broadcast's own branch, and no signaler sleeps on the signals.
CallInv ==
  \A s \in Signalers :
    /\ pc[s] \in SignalPCs \ DestroyPCs => loc[s].ctl \in {"signal", "broadcast"}
    /\ pc[s] \in {"b_post", "b_wake"} => loc[s].ctl = "broadcast"
    /\ asleep[s] \notin {sig(0), sig(1)}

\* Waiters that sleep, or have not come to the end of their wait, have not ended
\* it; and no more threads are owed a wakeup than are blocked.
EarlyPCs == {"user", "held", "wref", "unlock", "load", "test", "recheck",
             "recheck_start", "futex"}
StayInv ==
  /\ credit <= Cardinality(Blocked)
  /\ \A t \in Waiters : pc[t] \in EarlyPCs \/ ~Awake(t) => loc[t].ctl # "done"

\* The closed flag is on G1 only while a signaler closes it, a waiter that read it
\* on its own open slot read it rightly, and so did one that is putting a signal
\* back, whose group it did not read from the future.
FlagInv ==
  /\ ~Flipping /\ Closed(G1Signals) => Closing
  /\ \A t \in Waiters :
       pc[t] = "test" /\ loc[t].seq >= Start /\ Closed(loc[t].val) => Closed(Signals(t))
  /\ \A t \in Waiters :
       pc[t] \in UndoPCs =>
         /\ loc[t].base <= cond.g1_start
         /\ loc[t].base = cond.g1_start =>
              /\ G(t) = _GAnother(_G2(cond.g1_start))
              /\ pc[t] = "undo_check" /\ Closed(loc[t].val) => Closed(Signals(t))

\* While no signal has been put back, the slot of G2, and a slot that is about to
\* become that of G2, have none, and each position of G2 is held by a member.
CleanInv ==
  /\ G2Signals = 0
  /\ \A s \in Signalers : pc[s] = "q_flip" => Signals(s) = 0
  /\ Cardinality(Members) = Position - End

\* The signals on an open G1 and those it is still to be given are one for each of
\* its waiters: fewer only by those that waiters of older groups have taken and
\* are about to put back.
GivenInv ==
  ~Flipping /\ ~Closing =>
    LET given == G1Signals \div 2 + cond.g_size[G1] IN
    /\ given <= Cardinality(G1Waiters)
    /\ Cardinality(G1Waiters) <= given + Cardinality(Undoing)

\* The wakeups that are owed, with the signals of G1 that no broadcast is about to
\* give, are no more than the waiters of G1 and before it with the calls of signal
\* that have not given theirs. A broadcast on its way to the groups reaches the rest.
OwedInv ==
  (\A s \in Signalers : ~(loc[s].ctl = "broadcast" /\ Coming(s))) =>
    credit + Ungiven <= Cardinality(Reached) + Cardinality(Signaling)

\* While a waiter sleeps on G1, each signal there has somebody who is about to take
\* it or to wake a waiter for it.
WakeInv ==
  /\ ~Flipping /\ ~Closing
  /\ \E t \in Waiters : asleep[t] = sig(G1)
  /\ \A s \in Signalers : ~(loc[s].ctl = "broadcast" /\ WillWake(s))
  => G1Signals \div 2 <= Cardinality(Wakers) + Cardinality(AwakeG1)

\* The invariant behind OnlyRepairLoses.
LostInv ==
  /\ CallInv /\ StayInv /\ FlagInv
  /\ ~repaired => CleanInv /\ GivenInv /\ OwedInv /\ WakeInv

-----------------------------------------------------------------------------
\* Sets of threads of one kind are finite, those counted here among them, before
\* and after a step.
LEMMA ThreadSets ==
  \A S : S \subseteq Waiters \/ S \subseteq Signalers => IsFiniteSet(S) /\ Cardinality(S) \in Nat
  BY CondAssumption, FS_Subset, FS_CardinalityType

LEMMA StayFinite ==
  /\ IsFiniteSet(Staying) /\ IsFiniteSet(Blocked) /\ IsFiniteSet(Reached)
  /\ IsFiniteSet(G1Waiters) /\ IsFiniteSet(Undoing) /\ IsFiniteSet(AwakeG1)
  /\ IsFiniteSet(Signaling) /\ IsFiniteSet(Wakers)
  /\ Cardinality(Staying) \in Nat /\ Cardinality(Blocked) \in Nat
  /\ Cardinality(Reached) \in Nat /\ Cardinality(G1Waiters) \in Nat
  /\ Cardinality(Undoing) \in Nat /\ Cardinality(AwakeG1) \in Nat
  /\ Cardinality(Signaling) \in Nat /\ Cardinality(Wakers) \in Nat
<1>1. /\ Staying \subseteq Waiters /\ Blocked \subseteq Waiters /\ Reached \subseteq Waiters
      /\ G1Waiters \subseteq Waiters /\ Undoing \subseteq Waiters /\ AwakeG1 \subseteq Waiters
      /\ Signaling \subseteq Signalers /\ Wakers \subseteq Signalers
  BY DEF Staying, Blocked, Reached, G1Waiters, Undoing, AwakeG1, Signaling, Wakers
<1> QED
  BY <1>1, ThreadSets

LEMMA StayFiniteNext ==
  /\ IsFiniteSet(Staying') /\ IsFiniteSet(Blocked') /\ IsFiniteSet(Reached')
  /\ IsFiniteSet(G1Waiters') /\ IsFiniteSet(Undoing') /\ IsFiniteSet(AwakeG1')
  /\ IsFiniteSet(Signaling') /\ IsFiniteSet(Wakers')
  /\ Cardinality(Staying') \in Nat /\ Cardinality(Blocked') \in Nat
  /\ Cardinality(Reached') \in Nat /\ Cardinality(G1Waiters') \in Nat
  /\ Cardinality(Undoing') \in Nat /\ Cardinality(AwakeG1') \in Nat
  /\ Cardinality(Signaling') \in Nat /\ Cardinality(Wakers') \in Nat
<1>1. /\ Staying' \subseteq Waiters /\ Blocked' \subseteq Waiters /\ Reached' \subseteq Waiters
      /\ G1Waiters' \subseteq Waiters /\ Undoing' \subseteq Waiters /\ AwakeG1' \subseteq Waiters
      /\ Signaling' \subseteq Signalers /\ Wakers' \subseteq Signalers
  BY DEF Staying, Blocked, Reached, G1Waiters, Undoing, AwakeG1, Signaling, Wakers
<1> QED
  BY <1>1, ThreadSets

\* The step of a waiter that ends its wait, and what the other steps leave.
WaiterLeaves(t) ==
  /\ pc[t] \in {"test", "recheck", "recheck_start"} /\ Released
  /\ ~(pc'[t] \in MemberPCs /\ loc'[t].ctl # "done")
WaiterRemains(t) ==
  /\ credit' = credit
  /\ pc[t] \in BlockedPCs /\ loc[t].ctl # "done" => pc'[t] \in BlockedPCs /\ loc'[t].ctl # "done"
  /\ WaitSeq(t) \/ (pc'[t] \in MemberPCs /\ loc'[t].ctl # "done"
                      <=> pc[t] \in MemberPCs /\ loc[t].ctl # "done")

LEMMA WaiterStays ==
  ASSUME Types, NEW t \in Waiters, pc[t] \in EarlyPCs \cup OutPCs => loc[t].ctl # "done",
         ClientLock(t) \/ WaitSeq(t) \/ WaitStep(t)
  PROVE  /\ pc'[t] \in EarlyPCs => loc'[t].ctl # "done"
         /\ WaiterLeaves(t) \/ WaiterRemains(t)
         /\ UndoAdd(t) \/ repaired' = repaired
<1>0. /\ t \in Threads /\ pc \in [Threads -> Places] /\ loc \in [Threads -> LocType]
      /\ loc[t] \in LocType
  BY CondAssumption DEF Types
<1> USE DEF Goto, MemberPCs, BlockedPCs, EarlyPCs
<1>1. CASE ClientLock(t) \/ ClientUnlock(t) \/ WaitRef(t) \/ WaitUnlock(t) \/ WakeDestroyer(t)
           \/ Relock(t)
  <2>1. loc' = loc /\ history' = history
    BY <1>1 DEF ClientLock, ClientUnlock, WaitRef, WaitUnlock, WakeDestroyer, Relock, OnlyCond,
       OnlyFutex
  <2>2. \/ pc[t] \in OutPCs /\ pc'[t] \in OutPCs
        \/ pc[t] = "wref" /\ pc'[t] = "unlock"
        \/ pc[t] = "unlock" /\ pc'[t] = "load"
    BY <1>0, <1>1 DEF ClientLock, ClientUnlock, WaitRef, WaitUnlock, WakeDestroyer, Relock, OutPCs
  <2>3. loc[t].ctl # "done"
    BY <2>2 DEF OutPCs
  <2> QED
    BY <1>0, <1>1, <2>1, <2>2, <2>3 DEF WaiterRemains, history, OutPCs
<1>2. CASE WaitSeq(t)
  <2>1. /\ pc[t] = "held" /\ pc'[t] = "wref" /\ history' = history
        /\ loc' = [loc EXCEPT ![t].seq = _Seq(cond.wseq), ![t].g = _G2(cond.wseq)]
    BY <1>0, <1>2 DEF WaitSeq
  <2>2. loc'[t].ctl = loc[t].ctl
    BY <1>0, <2>1 DEF LocType
  <2> QED
    BY <1>2, <2>1, <2>2 DEF WaiterRemains, history
<1>3. CASE LoadSignals(t) \/ TakeFails(t) \/ UndoLoad(t) \/ UndoAddFails(t)
  <2>1. /\ loc' = [loc EXCEPT ![t].val = Signals(t)] /\ history' = history
        /\ \/ pc[t] \in {"load", "test"} /\ pc'[t] = "test"
           \/ pc[t] \in UndoPCs /\ pc'[t] = "undo_check"
    BY <1>0, <1>3 DEF LoadSignals, TakeFails, UndoLoad, UndoAddFails, OnlyLocals, UndoPCs
  <2>2. loc'[t].ctl = loc[t].ctl
    BY <1>0, <2>1 DEF LocType
  <2> QED
    BY <2>1, <2>2 DEF WaiterRemains, history, UndoPCs
<1>4. CASE TestClosed(t) \/ TakeSignal(t)
  <2>1. pc[t] = "test" /\ pc'[t] \in {"done", "stolen"} /\ Released /\ repaired' = repaired
    BY <1>0, <1>4 DEF TestClosed, TakeSignal, Released
  <2> QED
    BY <2>1 DEF WaiterLeaves
<1>5. CASE TakeGroupRef(t) \/ BlockOnGroup(t) \/ DropClearFlag(t)
  <2>1. loc' = loc /\ history' = history
    BY <1>5 DEF TakeGroupRef, BlockOnGroup, DropClearFlag, OnlyCond, OnlyFutex
  <2> QED
    BY <1>0, <1>5, <2>1 DEF WaiterRemains, TakeGroupRef, BlockOnGroup, DropClearFlag, history
<1>6. ASSUME NEW p, NEW q, pc[t] = p, p \in {"recheck", "recheck_start"}, loc[t].ctl # "done",
             \/ pc'[t] = "drop" /\ loc' = [loc EXCEPT ![t].ctl = "done"] /\ Released
             \/ pc'[t] \in {"recheck_start", "futex"} /\ UNCHANGED <<loc, history>>
      PROVE  /\ pc'[t] \in EarlyPCs => loc'[t].ctl # "done"
             /\ WaiterLeaves(t) \/ WaiterRemains(t)
             /\ repaired' = repaired
  <2>1. CASE pc'[t] = "drop" /\ loc' = [loc EXCEPT ![t].ctl = "done"] /\ Released
    <3>1. loc'[t].ctl = "done"
      BY <1>0, <2>1 DEF LocType
    <3> QED
      BY <1>6, <2>1, <3>1 DEF WaiterLeaves, Released
  <2>2. CASE pc'[t] \in {"recheck_start", "futex"} /\ UNCHANGED <<loc, history>>
    BY <1>6, <2>2 DEF WaiterRemains, history
  <2> QED
    BY <1>6, <2>1, <2>2
<1>7. CASE Recheck(t)
  BY <1>0, <1>6, <1>7 DEF Recheck
<1>8. CASE RecheckStart(t)
  BY <1>0, <1>6, <1>8 DEF RecheckStart
<1>9. CASE DropGroupRef(t) \/ DropWake(t)
  <2>1. loc' = loc /\ history' = history
    BY <1>9 DEF DropGroupRef, DropWake, OnlyCond, OnlyFutex
  <2> QED
    BY <1>0, <1>9, <2>1 DEF WaiterRemains, DropGroupRef, DropWake, AfterDrop, history
<1>10. CASE TestStolen(t) \/ UndoCheck(t) \/ UndoAdd(t) \/ UndoWake(t) \/ WaitUnref(t)
  <2>1. /\ pc[t] \notin MemberPCs /\ pc'[t] \notin MemberPCs \cup {"user", "held"}
        /\ credit' = credit
    BY <1>0, <1>10 DEF TestStolen, UndoCheck, UndoAdd, UndoWake, WaitUnref, OnlyLocals, OnlyFutex,
       history
  <2>2. UndoAdd(t) \/ repaired' = repaired
    BY <1>10 DEF TestStolen, UndoCheck, UndoWake, WaitUnref, OnlyLocals, OnlyFutex, history
  <2> QED
    BY <2>1, <2>2 DEF WaiterRemains
<1> QED
  BY <1>1, <1>2, <1>3, <1>4, <1>5, <1>7, <1>8, <1>9, <1>10 DEF WaitStep

\* No step of a waiter moves a boundary between the groups.
LEMMA WaiterGroups ==
  ASSUME Types, GroupInv, NEW t \in Waiters, ClientLock(t) \/ WaitSeq(t) \/ WaitStep(t)
  PROVE  /\ Start' = Start /\ End' = End /\ G1' = G1 /\ Flipping' = Flipping
         /\ _G2(cond.wseq)' = _G2(cond.wseq) /\ cond'.g1_start = cond.g1_start
         /\ cond'.g_size = cond.g_size /\ cond'.orig_size = cond.orig_size
         /\ Position' = IF WaitSeq(t) THEN Position + 1 ELSE Position
<1>0. WaiterEffect(t)
  BY WaiterSteps
<1>1. /\ cond'.g1_start = cond.g1_start /\ cond'.orig_size = cond.orig_size
      /\ cond'.g_size = cond.g_size
  BY <1>0 DEF WaiterEffect
<1>2. CASE ~WaitSeq(t)
  <2>1. KeepGroups
    BY <1>0, <1>2 DEF WaiterEffect, KeepGroups
  <2> QED
    BY <1>1, <1>2, <2>1, GroupsKept
<1>3. CASE WaitSeq(t)
  <2>1. cond'.wseq = cond.wseq + 2
    BY <1>3, GroupTypes DEF WaitSeq, _SeqStep, CondType
  <2>2. Position' = Position + 1 /\ _G2(cond.wseq)' = _G2(cond.wseq)
    BY <2>1, GroupTypes DEF Position, _Seq, _G2
  <2>3. /\ G1' = G1 /\ Start' = Start /\ Flipping' = Flipping
    BY <1>1, <2>2 DEF G1, Start, Flipping
  <2>4. End' = End
    BY <1>1, <2>3 DEF End
  <2> QED
    BY <1>1, <1>3, <2>2, <2>3, <2>4
<1> QED
  BY <1>2, <1>3

\* The sets of waiters through a waiter's step: it leaves them where its wait
\* ends, and enters none of an existing group.
LEMMA WaiterCounts ==
  ASSUME Types, GroupInv, NEW t \in Waiters, ClientLock(t) \/ WaitSeq(t) \/ WaitStep(t),
         pc[t] \in EarlyPCs \cup OutPCs => loc[t].ctl # "done"
  PROVE  /\ WaiterLeaves(t) =>
              /\ t \in Staying /\ t \in Blocked /\ Blocked' = Blocked \ {t}
              /\ Reached' = Reached \ {t} /\ G1Waiters' = G1Waiters \ {t}
         /\ WaiterRemains(t) =>
              Blocked \subseteq Blocked' /\ Reached' = Reached /\ G1Waiters' = G1Waiters
<1>0. /\ WaiterEffect(t) /\ Waiters \subseteq Threads /\ loc \in [Threads -> LocType]
      /\ pc \in [Threads -> Places] /\ t \in Threads
  BY WaiterSteps, CondAssumption DEF Types
<1>1. \A u \in Waiters : u # t => pc'[u] = pc[u] /\ loc'[u] = loc[u]
  BY <1>0 DEF WaiterEffect, KeepOthers
<1>2. Start' = Start /\ End' = End
  BY WaiterGroups
<1>3. Start \in Nat /\ End \in Nat /\ Position \in Nat /\ End <= Position
  BY GroupTypes, EndBound
<1>4. ASSUME WaiterLeaves(t)
      PROVE  /\ t \in Staying /\ t \in Blocked /\ Blocked' = Blocked \ {t}
             /\ Reached' = Reached \ {t} /\ G1Waiters' = G1Waiters \ {t}
  <2>1. pc[t] \in MemberPCs /\ pc[t] \in BlockedPCs /\ loc[t].ctl # "done"
    BY <1>4 DEF WaiterLeaves, MemberPCs, BlockedPCs, EarlyPCs
  <2>2. ~(pc'[t] \in MemberPCs /\ loc'[t].ctl # "done")
    BY <1>4 DEF WaiterLeaves
  <2>3. \A p \in BlockedPCs : p \in MemberPCs
    BY DEF BlockedPCs, MemberPCs
  <2>4. Staying' = Staying \ {t} /\ t \in Staying
    BY <1>1, <2>1, <2>2 DEF Staying
  <2>5. Blocked' = Blocked \ {t} /\ t \in Blocked
    BY <1>1, <2>1, <2>2, <2>3 DEF Blocked
  <2>6. \A u \in Waiters : u # t => loc'[u].seq = loc[u].seq
    BY <1>1
  <2> HIDE DEF Staying
  <2>7. Staying' \subseteq Waiters /\ t \notin Staying'
    BY <2>4 DEF Staying
  <2> QED
    BY <1>2, <2>4, <2>5, <2>6, <2>7 DEF Reached, G1Waiters
<1>5. ASSUME WaiterRemains(t)
      PROVE  Blocked \subseteq Blocked' /\ Reached' = Reached /\ G1Waiters' = G1Waiters
  <2>1. Blocked \subseteq Blocked'
    BY <1>1, <1>5 DEF Blocked, WaiterRemains
  <2>2. CASE WaitSeq(t)
    <3>1. loc'[t].seq = Position /\ pc[t] = "held"
      BY <1>0, <2>2 DEF WaitSeq, Goto, Position, LocType
    <3>2. t \notin Staying
      BY <3>1 DEF Staying, MemberPCs
    <3>3. \A u \in Waiters : u # t => (u \in Staying' <=> u \in Staying)
      BY <1>1 DEF Staying
    <3>4. ~(Position < End) /\ Position \notin Start..(End - 1)
      BY <1>3
    <3>5. Staying' \subseteq Waiters /\ Staying \subseteq Waiters
      BY DEF Staying
    <3> QED
      BY <1>1, <1>2, <2>1, <3>1, <3>2, <3>3, <3>4, <3>5 DEF Reached, G1Waiters
  <2>3. CASE ~WaitSeq(t)
    <3>1. Staying' = Staying
      BY <1>1, <1>5, <2>3 DEF Staying, WaiterRemains
    <3>2. \A u \in Staying : u \in Waiters /\ pc'[u] \in WaitingPCs
      BY <3>1 DEF Staying, MemberPCs, WaitingPCs
    <3>3. \A u \in Staying : loc'[u].seq = loc[u].seq
      BY <1>0, <1>1, <2>3, <3>2 DEF WaiterEffect
    <3> QED
      BY <1>2, <2>1, <3>1, <3>3 DEF Reached, G1Waiters
  <2> QED
    BY <2>2, <2>3
<1> QED
  BY <1>4, <1>5

\* No waiter sleeps with its wait ended, and one that is let go pays back what it
\* was owed.
LEMMA StayWaiter ==
  ASSUME Types, GroupInv, BlockInv, MemberInv, StayInv,
         NEW t \in Waiters, ClientLock(t) \/ WaitSeq(t) \/ WaitStep(t)
  PROVE  StayInv'
<1>0. /\ WaiterEffect(t) /\ Waiters \subseteq Threads /\ t \in Threads
      /\ asleep \in [Threads -> Words \cup {NoWord}] /\ credit \in Nat
      /\ pc \in [Threads -> Places]
  BY WaiterSteps, CondAssumption DEF Types
<1>1. \A u \in Waiters : u # t => pc'[u] = pc[u] /\ loc'[u] = loc[u]
  BY <1>0 DEF WaiterEffect, KeepOthers
<1>2. pc[t] \in EarlyPCs \cup OutPCs => loc[t].ctl # "done"
  BY DEF StayInv, MemberInv
<1>3. /\ pc'[t] \in EarlyPCs => loc'[t].ctl # "done"
      /\ WaiterLeaves(t) \/ WaiterRemains(t)
  BY <1>2, WaiterStays
<1>4. credit' <= Cardinality(Blocked')
  <2>1. CASE WaiterLeaves(t)
    <3>1. t \in Blocked /\ Blocked' = Blocked \ {t}
      BY <1>2, <2>1, WaiterCounts
    <3>2. Cardinality(Blocked') = Cardinality(Blocked) - 1
      BY <3>1, StayFinite, FS_RemoveElement
    <3>3. credit' = IF credit > 0 THEN credit - 1 ELSE 0
      BY <2>1 DEF WaiterLeaves, Released
    <3> QED
      BY <1>0, <3>2, <3>3, StayFinite, StayFiniteNext DEF StayInv
  <2>2. CASE WaiterRemains(t)
    <3>1. Blocked \subseteq Blocked'
      BY <1>2, <2>2, WaiterCounts
    <3>2. Cardinality(Blocked) <= Cardinality(Blocked')
      BY <3>1, StayFiniteNext, FS_Subset
    <3> QED
      BY <1>0, <2>2, <3>2, StayFinite, StayFiniteNext DEF StayInv, WaiterRemains
  <2> QED
    BY <1>3, <2>1, <2>2
<1>5. ASSUME NEW u \in Waiters, pc'[u] \in EarlyPCs \/ asleep'[u] # NoWord
      PROVE  loc'[u].ctl # "done"
  <2>1. CASE u # t
    <3>1. asleep'[u] \in {asleep[u], NoWord}
      BY <1>0, <2>1 DEF WaiterEffect, BlockOnGroup, FutexWait
    <3> QED
      BY <1>1, <1>5, <2>1, <3>1 DEF StayInv, Awake
  <2>2. CASE u = t /\ asleep'[t] # NoWord
    <3>1. asleep[t] = NoWord
      BY WaiterBlocks DEF BlockInv, Awake
    <3>2. BlockOnGroup(t)
      BY <1>0, <2>2, <3>1 DEF WaiterEffect
    <3>3. loc' = loc /\ pc[t] = "futex"
      BY <3>2 DEF BlockOnGroup, OnlyFutex, Goto
    <3> QED
      BY <1>2, <2>2, <3>3 DEF EarlyPCs
  <2> QED
    BY <1>3, <1>5, <2>1, <2>2
<1> QED
  BY <1>4, <1>5 DEF StayInv, Awake

\* What a call owes: never more than there is to wake.
LEMMA OwedBounds ==
  ASSUME credit \in Nat, NEW call
  PROVE  /\ Owed(call) \in Nat /\ Owed(call) <= Cardinality(Blocked)
         /\ call = "signal" => Owed(call) <= credit + 1
<1> DEFINE b == Cardinality(Blocked)
<1>1. b \in Nat
  BY BlockedFinite
<1>2. Owed(call) = IF call = "signal" THEN Min({credit + 1, b}) ELSE b
  BY DEF Owed
<1> HIDE DEF b
<1>3. /\ Min({credit + 1, b}) \in {credit + 1, b}
      /\ Min({credit + 1, b}) <= credit + 1 /\ Min({credit + 1, b}) <= b
  <2> DEFINE S == {credit + 1, b}
  <2>1. \E x \in S : \A y \in S : x <= y
    BY <1>1
  <2>2. Min(S) \in S /\ \A y \in S : Min(S) <= y
    BY <2>1 DEF Min
  <2> QED
    BY <2>2
<1> QED
  BY <1>1, <1>2, <1>3 DEF b

\* Only the calls themselves change what is owed.
LEMMA SignalerCredit ==
  ASSUME Types, NEW s \in Signalers, SignalerCall(s) \/ SignalStep(s) \/ DestroyStep(s)
  PROVE  \/ credit' = credit
         \/ \E call \in Calls \ {"destroy"} :
              (CallWake(s, call) \/ CallWakeNobody(s, call)) /\ credit' = Owed(call)
<1>1. CASE SignalerCall(s)
  BY <1>1 DEF SignalerCall, CallWake, CallWakeNobody, CallDestroy, history
<1>2. CASE DestroyStep(s)
  BY <1>2 DEF DestroyStep, DestroyWait, DestroyReload, DestroyReturn, OnlyFutex, OnlyLocals,
     history
<1>3. CASE SignalStep(s)
  BY <1>3 DEF SignalStep, InnerLock, InnerUnlock, WakeG1, LoadSeq, BroadcastG1, BroadcastWakeG1,
     CheckG2, CloseG1, LoadRefs, RequestWake, WaitRefs, AdvanceG1Start, ReopenSlot, SwitchGroups,
     Post, OnlyCond, OnlyLocals, OnlyFutex, history
<1> QED
  BY <1>1, <1>2, <1>3

\* A signaler's step moves no waiter, though it may wake some.
LEMMA SignalerSpares ==
  ASSUME Types, NEW s \in Signalers, SignalerCall(s) \/ SignalStep(s) \/ DestroyStep(s)
  PROVE  /\ \A t \in Waiters : /\ pc'[t] = pc[t] /\ loc'[t] = loc[t] /\ G(t)' = G(t)
                               /\ asleep'[t] \in {asleep[t], NoWord}
         /\ \A u \in Signalers : u # s => pc'[u] = pc[u] /\ loc'[u] = loc[u] /\ G(u)' = G(u)
         /\ Staying' = Staying /\ Blocked' = Blocked
<1>0. SignalerEffect(s) /\ Waiters \subseteq Threads /\ Signalers \subseteq Threads /\ s \notin Waiters
  BY SignalerSteps, CondAssumption
<1>1. \A u \in Threads : u # s => /\ pc'[u] = pc[u] /\ loc'[u] = loc[u] /\ G(u)' = G(u)
                                  /\ asleep'[u] \in {asleep[u], NoWord}
  BY <1>0 DEF SignalerEffect, KeepOthers, G
<1>2. Staying' = Staying /\ Blocked' = Blocked
  BY <1>0, <1>1 DEF Staying, Blocked
<1> QED
  BY <1>0, <1>1, <1>2

\* What is owed by a call is bounded by the waiters it finds blocked.
LEMMA StaySignaler ==
  ASSUME Types, StayInv, NEW s \in Signalers, SignalerCall(s) \/ SignalStep(s) \/ DestroyStep(s)
  PROVE  StayInv'
<1>1. /\ \A t \in Waiters : /\ pc'[t] = pc[t] /\ loc'[t] = loc[t]
                            /\ asleep'[t] \in {asleep[t], NoWord}
      /\ Blocked' = Blocked
  BY SignalerSpares
<1>2. credit' <= Cardinality(Blocked)
  <2>1. credit' = credit \/ \E call : credit' = Owed(call)
    BY SignalerCredit
  <2> QED
    BY <2>1, OwedBounds DEF StayInv, Types
<1> QED
  BY <1>1, <1>2 DEF StayInv, Awake

\* A call keeps its name until it returns.
LEMMA CallName ==
  ASSUME Types, NEW s \in Signalers, SignalStep(s) \/ DestroyStep(s), pc'[s] # "user"
  PROVE  loc'[s].ctl = loc[s].ctl
<1>0. s \in Threads /\ loc \in [Threads -> LocType] /\ loc[s] \in LocType /\ pc \in [Threads -> Places]
  BY SignalerValues DEF Types
<1>1. ASSUME NEW w, NEW n, NEW m, NEW i,
             \/ loc' = loc
             \/ loc' = [loc EXCEPT ![s].val = w]
             \/ loc' = [loc EXCEPT ![s].seq = n, ![s].g = i]
             \/ loc' = [loc EXCEPT ![s].seq = n, ![s].base = m]
             \/ loc' = [loc EXCEPT ![s].g = i, ![s].base = n]
             \/ loc' = [loc EXCEPT ![s].val = w, ![s].seq = n, ![s].base = m]
      PROVE  loc'[s].ctl = loc[s].ctl
  <2>1. \/ loc'[s] = loc[s]
        \/ loc'[s] = [loc[s] EXCEPT !.val = w]
        \/ loc'[s] = [loc[s] EXCEPT !.seq = n, !.g = i]
        \/ loc'[s] = [loc[s] EXCEPT !.seq = n, !.base = m]
        \/ loc'[s] = [loc[s] EXCEPT !.g = i, !.base = n]
        \/ loc'[s] = [loc[s] EXCEPT !.val = w, !.seq = n, !.base = m]
    BY <1>0, <1>1
  <2> QED
    BY <1>0, <2>1 DEF LocType
<1>2. CASE DestroyStep(s)
  BY <1>0, <1>1, <1>2 DEF DestroyStep, DestroyWait, DestroyReload, DestroyReturn, Goto, OnlyFutex
<1>3. CASE InnerLock(s) \/ BroadcastG1(s) \/ BroadcastWakeG1(s) \/ CloseG1(s) \/ LoadRefs(s)
           \/ AdvanceG1Start(s) \/ ReopenSlot(s)
  BY <1>3 DEF InnerLock, BroadcastG1, BroadcastWakeG1, CloseG1, LoadRefs, AdvanceG1Start,
     ReopenSlot, OnlyCond, OnlyFutex
<1>4. CASE RequestWake(s) \/ WaitRefs(s)
  BY <1>1, <1>4 DEF RequestWake, WaitRefs
<1>5. CASE LoadSeq(s) \/ CheckG2(s)
  BY <1>1, <1>5 DEF LoadSeq, CheckG2
<1>6. CASE SwitchGroups(s) \/ Post(s)
  BY <1>1, <1>6 DEF SwitchGroups, Post
<1>7. CASE InnerUnlock(s) \/ WakeG1(s)
  BY <1>0, <1>7 DEF InnerUnlock, WakeG1, Goto
<1> QED
  BY <1>2, <1>3, <1>4, <1>5, <1>6, <1>7 DEF SignalStep

-----------------------------------------------------------------------------
\* Each step of a call leaves its name and leads to a place of that call.
LEMMA CallKept ==
  ASSUME Types, CallInv, NEW s \in Signalers, SignalerCall(s) \/ SignalStep(s) \/ DestroyStep(s)
  PROVE  CallInv'
<1>0. /\ s \in Threads /\ loc \in [Threads -> LocType] /\ loc[s] \in LocType
      /\ pc \in [Threads -> Places] /\ Signalers \subseteq Threads
      /\ asleep \in [Threads -> Words \cup {NoWord}]
  BY SignalerValues, CondAssumption DEF Types
<1>1. \A u \in Signalers : u # s => pc'[u] = pc[u] /\ loc'[u] = loc[u]
  BY SignalerSpares
<1>2. /\ \A u \in Threads : u # s => asleep'[u] \in {asleep[u], NoWord}
      /\ NoWord \notin {sig(0), sig(1)}
  BY SignalerSleeps, CondAssumption, FutexAssumption DEF sig
<1>3. asleep'[s] \notin {sig(0), sig(1)}
  <2>1. asleep[s] \notin {sig(0), sig(1)}
    BY DEF CallInv
  <2>2. ASSUME NEW w, w \in {ref(0), ref(1), wref}, NEW b, FutexWait(s, w, b)
        PROVE  asleep'[s] \notin {sig(0), sig(1)}
    BY <1>0, <2>1, <2>2 DEF FutexWait, ref, wref, sig
  <2>3. CASE DestroyWait(s) \/ WaitRefs(s)
    BY <2>2, <2>3, SignalerValues DEF DestroyWait, WaitRefs
  <2>4. CASE BroadcastWakeG1(s) \/ WakeG1(s)
    <3>1. \E w : FutexWakeAll(w) \/ FutexWakeOne(w)
      BY <2>4 DEF BroadcastWakeG1, WakeG1
    <3> QED
      BY <1>0, <1>2, <2>1, <3>1 DEF FutexWakeAll, FutexWakeOne, Sleepers
  <2>5. CASE asleep' = asleep
    BY <2>1, <2>5
  <2> QED
    BY <2>3, <2>4, <2>5 DEF SignalerCall, SignalStep, DestroyStep, CallWake, CallWakeNobody,
     CallDestroy, DestroyReload, DestroyReturn, InnerLock, LoadSeq, BroadcastG1, CheckG2,
     CloseG1, LoadRefs, RequestWake, AdvanceG1Start, ReopenSlot, SwitchGroups, Post,
     InnerUnlock, OnlyCond, OnlyLocals
<1>4. /\ pc'[s] \in SignalPCs \ DestroyPCs => loc'[s].ctl \in {"signal", "broadcast"}
      /\ pc'[s] \in {"b_post", "b_wake"} => loc'[s].ctl = "broadcast"
  <2> USE DEF SignalPCs, DestroyPCs, Goto
  <2>1. CASE SignalerCall(s)
    <3>1. ASSUME NEW call \in Calls \ {"destroy"}, CallWake(s, call)
          PROVE  pc'[s] = "s_lock" /\ loc'[s].ctl \in {"signal", "broadcast"}
      <4>1. pc'[s] = "s_lock" /\ loc' = [loc EXCEPT ![s].ctl = call]
        BY <1>0, <3>1 DEF CallWake
      <4>2. loc'[s].ctl = call
        BY <1>0, <4>1 DEF LocType
      <4> QED
        BY <4>1, <4>2, CondAssumption
    <3>2. CASE (\E call \in Calls : CallWakeNobody(s, call)) \/ CallDestroy(s)
      BY <1>0, <3>2 DEF CallWakeNobody, CallDestroy
    <3> QED
      BY <2>1, <3>1, <3>2 DEF SignalerCall
  <2>2. CASE (SignalStep(s) \/ DestroyStep(s)) /\ pc'[s] # "user"
    <3>1. loc'[s].ctl = loc[s].ctl
      BY <2>2, CallName
    <3>2. /\ pc[s] \in SignalPCs /\ (pc[s] \in DestroyPCs => pc'[s] \in DestroyPCs)
          /\ pc'[s] = "b_wake" => pc[s] = "b_post"
          /\ pc'[s] = "b_post" => loc[s].ctl # "signal" /\ pc[s] = "s_seq"
      <4>1. CASE DestroyStep(s)
        BY <1>0, <2>2, <4>1 DEF DestroyStep, DestroyWait, DestroyReload, DestroyReturn
      <4>2. CASE LoadSeq(s)
        BY <1>0, <4>2 DEF LoadSeq
      <4>3. CASE InnerLock(s) \/ CheckG2(s) \/ LoadRefs(s) \/ CloseG1(s) \/ AdvanceG1Start(s)
                 \/ ReopenSlot(s)
        BY <1>0, <4>3 DEF InnerLock, CheckG2, LoadRefs, CloseG1, AdvanceG1Start, ReopenSlot
      <4>4. CASE BroadcastG1(s) \/ BroadcastWakeG1(s) \/ Post(s) \/ WakeG1(s) \/ WaitRefs(s)
                 \/ InnerUnlock(s)
        BY <1>0, <4>4 DEF BroadcastG1, BroadcastWakeG1, Post, WakeG1, WaitRefs, InnerUnlock
      <4>5. CASE RequestWake(s) \/ SwitchGroups(s)
        <5>1. \E p \in {"q_refs", "q_wait", "post", "s_unlock"} :
                Goto(s, "q_flag", p) \/ Goto(s, "q_flip", p)
          BY <4>5 DEF RequestWake, SwitchGroups
        <5> QED
          BY <1>0, <5>1
      <4> QED
        BY <2>2, <4>1, <4>2, <4>3, <4>4, <4>5 DEF SignalStep
    <3>3. /\ pc'[s] \in SignalPCs \ DestroyPCs => pc[s] \in SignalPCs \ DestroyPCs
          /\ "s_seq" \in SignalPCs \ DestroyPCs
      BY <3>2
    <3> HIDE DEF SignalPCs, DestroyPCs
    <3> QED
      BY <3>1, <3>2, <3>3 DEF CallInv
  <2>3. CASE pc'[s] = "user"
    BY <2>3
  <2> QED
    BY <2>1, <2>2, <2>3
<1>5. \A u \in Signalers : u # s => asleep'[u] \notin {sig(0), sig(1)}
  BY <1>0, <1>2 DEF CallInv
<1> QED
  BY <1>1, <1>3, <1>4, <1>5 DEF CallInv

\* The parts of the invariant proved above.
Known ==
  /\ Types /\ PlaceInv /\ GroupInv /\ SmallGroups /\ PositionInv /\ ClosedInv /\ BlockInv
  /\ MemberInv /\ SizeInv

\* A waiter's step is none of a call's.
LEMMA CallWaiter ==
  ASSUME Types, CallInv, NEW t \in Waiters, ClientLock(t) \/ WaitSeq(t) \/ WaitStep(t)
  PROVE  CallInv'
<1>0. /\ WaiterEffect(t) /\ Signalers \subseteq Threads /\ t \notin Signalers
      /\ asleep \in [Threads -> Words \cup {NoWord}] /\ t \in Threads
      /\ NoWord \notin {sig(0), sig(1)}
  BY WaiterSteps, CondAssumption, FutexAssumption DEF Types, sig
<1>1. \A s \in Signalers : /\ pc'[s] = pc[s] /\ loc'[s] = loc[s]
                           /\ asleep'[s] \in {asleep[s], NoWord}
  BY <1>0 DEF WaiterEffect, KeepOthers, BlockOnGroup, FutexWait
<1> QED
  BY <1>0, <1>1 DEF CallInv

-----------------------------------------------------------------------------
\* What a waiter has read when it comes to the test of the signals and to each
\* place of the repair.
LEMMA WaiterReads ==
  ASSUME Types, NEW t \in Waiters, ClientLock(t) \/ WaitSeq(t) \/ WaitStep(t)
  PROVE  /\ pc'[t] = "test" =>
              loc'[t].val = Signals(t) /\ cond' = cond /\ loc'[t].seq = loc[t].seq
              /\ loc'[t].g = loc[t].g
         /\ pc'[t] = "undo_load" =>
              /\ MayHaveStolen(t) /\ loc'[t].base = cond.g1_start /\ cond' = cond
              /\ loc'[t].g = loc[t].g
         /\ pc'[t] = "undo_check" =>
              /\ pc[t] \in UndoPCs /\ loc'[t].val = Signals(t) /\ cond' = cond
              /\ loc'[t].base = loc[t].base /\ loc'[t].g = loc[t].g
         /\ pc'[t] = "undo_cas" =>
              pc[t] = "undo_check" /\ loc' = loc /\ ~Closed(loc[t].val) /\ cond' = cond
<1>0. /\ t \in Threads /\ pc \in [Threads -> Places] /\ loc \in [Threads -> LocType]
      /\ loc[t] \in LocType
  BY CondAssumption DEF Types
<1> USE DEF Goto
<1>1. CASE ClientLock(t) \/ WaitSeq(t) \/ WaitRef(t) \/ WaitUnlock(t)
           \/ TestClosed(t) \/ TakeSignal(t) \/ TakeGroupRef(t)
  BY <1>0, <1>1 DEF ClientLock, WaitSeq, WaitRef, WaitUnlock, TestClosed, TakeSignal,
     TakeGroupRef
<1>2. CASE LoadSignals(t) \/ TakeFails(t) \/ UndoLoad(t) \/ UndoAddFails(t)
  <2>1. /\ loc' = [loc EXCEPT ![t].val = Signals(t)] /\ cond' = cond
        /\ \/ pc'[t] = "test"
           \/ pc[t] \in UndoPCs /\ pc'[t] = "undo_check"
    BY <1>0, <1>2 DEF LoadSignals, TakeFails, UndoLoad, UndoAddFails, OnlyLocals, UndoPCs
  <2>2. loc'[t] = [loc[t] EXCEPT !.val = Signals(t)]
    BY <1>0, <2>1
  <2>3. /\ loc'[t].val = Signals(t) /\ loc'[t].seq = loc[t].seq /\ loc'[t].g = loc[t].g
        /\ loc'[t].base = loc[t].base
    BY <1>0, <2>2 DEF LocType
  <2> QED
    BY <2>1, <2>3
<1>3. CASE Recheck(t) \/ RecheckStart(t)
  <2>1. \E p, q \in {"recheck", "recheck_start", "drop", "futex"} : Goto(t, p, q)
    BY <1>3 DEF Recheck, RecheckStart
  <2> QED
    BY <1>0, <2>1
<1>4. CASE BlockOnGroup(t) \/ DropGroupRef(t) \/ DropClearFlag(t) \/ DropWake(t)
  BY <1>0, <1>4 DEF BlockOnGroup, DropGroupRef, DropClearFlag, DropWake, AfterDrop
<1>5. CASE TestStolen(t)
  <2>1. /\ pc'[t] \in {"undo_load", "done"} /\ (pc'[t] = "undo_load" => MayHaveStolen(t))
        /\ cond' = cond
    BY <1>0, <1>5 DEF TestStolen, OnlyLocals
  <2>2. pc'[t] = "undo_load" => loc' = [loc EXCEPT ![t].base = cond.g1_start]
    BY <1>5, <2>1 DEF TestStolen
  <2>3. pc'[t] = "undo_load" => loc'[t].base = cond.g1_start /\ loc'[t].g = loc[t].g
    BY <1>0, <2>2 DEF LocType
  <2> QED
    BY <2>1, <2>3
<1>6. CASE UndoCheck(t)
  BY <1>0, <1>6 DEF UndoCheck, OnlyLocals
<1>7. CASE UndoAdd(t) \/ UndoWake(t) \/ WaitUnref(t) \/ WakeDestroyer(t) \/ Relock(t)
           \/ ClientUnlock(t)
  BY <1>0, <1>7 DEF UndoAdd, UndoWake, WaitUnref, WakeDestroyer, Relock, ClientUnlock
<1> QED
  BY <1>1, <1>2, <1>3, <1>4, <1>5, <1>6, <1>7 DEF WaitStep

\* Only signalers set and clear the closed flag.
LEMMA WaiterFlags ==
  ASSUME Known, NEW t \in Waiters, ClientLock(t) \/ WaitSeq(t) \/ WaitStep(t)
  PROVE  \A i \in {0, 1} : Closed(cond'.g_signals[i]) <=> Closed(cond.g_signals[i])
<1>0. /\ Types /\ GroupInv /\ PositionInv /\ ClosedInv /\ MemberInv /\ ~Closed(G2Signals)
      /\ G(t) \in {0, 1}
  BY CondAssumption, LocFields DEF Known, SizeInv, Types, G
<1>1. CASE KeepSignals
  BY <1>1 DEF KeepSignals
<1>2. CASE ~KeepSignals
  <2>1. ~Closed(Signals(t)) /\ cond'.g_signals[1 - G(t)] = cond.g_signals[1 - G(t)]
    BY <1>0, <1>2, WaiterSignals DEF ClosedInv
  <2>2. ~WaitSeq(t)
    BY <1>0, <1>2 DEF WaitSeq, KeepSignals, Types, CondType
  <2>3. \A i \in {0, 1} : Closed(cond'.g_signals[i]) => Closed(cond.g_signals[i])
    BY <1>0, <2>2, WaiterTrades
  <2>4. \A i \in {0, 1} : i = G(t) \/ i = 1 - G(t)
    BY <1>0
  <2> QED
    BY <2>1, <2>3, <2>4 DEF Signals
<1> QED
  BY <1>1, <1>2

\* A waiter reads the flag of its slot and the bases as they are.
LEMMA FlagWaiter ==
  ASSUME Known, FlagInv, NEW t \in Waiters, ClientLock(t) \/ WaitSeq(t) \/ WaitStep(t)
  PROVE  FlagInv'
<1>0. /\ WaiterEffect(t) /\ Types /\ GroupInv /\ Waiters \subseteq Threads /\ t \in Threads
      /\ Signalers \subseteq Threads /\ t \notin Signalers /\ loc \in [Threads -> LocType]
  BY WaiterSteps, CondAssumption DEF Known, Types
<1>1. \A u \in Threads : u # t => pc'[u] = pc[u] /\ loc'[u] = loc[u] /\ G(u)' = G(u)
  BY <1>0 DEF WaiterEffect, KeepOthers, G
<1>2. /\ Start' = Start /\ G1' = G1 /\ Flipping' = Flipping /\ G1 \in {0, 1}
      /\ cond'.g1_start = cond.g1_start /\ cond.g1_start \in Nat
  BY <1>0, WaiterGroups, GroupTypes
<1>3. /\ \A i \in {0, 1} : Closed(cond'.g_signals[i]) <=> Closed(cond.g_signals[i])
      /\ \A u \in Waiters : G(u) \in {0, 1}
  BY <1>0, WaiterFlags, LocFields DEF G
<1>4. \A u \in Waiters : u # t => (Closed(Signals(u)') <=> Closed(Signals(u)))
  BY <1>0, <1>1, <1>3 DEF Signals
<1>5. ~Flipping' /\ Closed(G1Signals') => Closing'
  <2>1. Closed(G1Signals') => Closed(G1Signals)
    BY <1>2, <1>3 DEF G1Signals
  <2>2. Closing => Closing'
    BY <1>0, <1>1 DEF Closing
  <2> QED
    BY <1>2, <2>1, <2>2 DEF FlagInv
<1>6. ASSUME NEW u \in Waiters, pc'[u] = "test", loc'[u].seq >= Start', Closed(loc'[u].val)
      PROVE  Closed(Signals(u)')
  <2>1. CASE u # t
    BY <1>0, <1>1, <1>2, <1>4, <1>6, <2>1 DEF FlagInv
  <2>2. CASE u = t
    <3>1. loc'[t].val = Signals(t) /\ cond' = cond /\ G(t)' = G(t)
      BY <1>0, <1>6, <2>2, WaiterReads DEF G
    <3> QED
      BY <1>6, <2>2, <3>1 DEF Signals
  <2> QED
    BY <2>1, <2>2
<1>7. ASSUME NEW u \in Waiters, pc'[u] \in UndoPCs
      PROVE  /\ loc'[u].base <= cond'.g1_start
             /\ loc'[u].base = cond'.g1_start =>
                  /\ G(u)' = _GAnother(_G2(cond'.g1_start))
                  /\ pc'[u] = "undo_check" /\ Closed(loc'[u].val) => Closed(Signals(u)')
  <2>1. CASE u # t
    BY <1>0, <1>1, <1>2, <1>4, <1>7, <2>1 DEF FlagInv
  <2>2. CASE u = t /\ pc'[t] = "undo_load"
    BY <1>0, <1>2, <2>2, WaiterReads DEF MayHaveStolen, G
  <2>3. CASE u = t /\ pc'[t] = "undo_check"
    <3>1. /\ pc[t] \in UndoPCs /\ loc'[t].val = Signals(t) /\ cond' = cond
          /\ loc'[t].base = loc[t].base /\ G(t)' = G(t)
      BY <1>0, <2>3, WaiterReads DEF G
    <3>2. Signals(t)' = Signals(t)
      BY <3>1 DEF Signals
    <3> QED
      BY <2>3, <3>1, <3>2 DEF FlagInv
  <2>4. CASE u = t /\ pc'[t] = "undo_cas"
    <3>1. pc[t] \in UndoPCs /\ loc' = loc /\ cond' = cond
      BY <1>0, <2>4, WaiterReads DEF UndoPCs
    <3> QED
      BY <2>4, <3>1 DEF FlagInv, G
  <2> QED
    BY <1>7, <2>1, <2>2, <2>3, <2>4 DEF UndoPCs
<1> QED
  BY <1>5, <1>6, <1>7 DEF FlagInv

\* What a waiter has read of a closed flag stays true while only the flag of a
\* slot that is about to be reopened is cleared.
LEMMA FlagKept ==
  ASSUME Known, FlagInv, NEW s \in Signalers, SignalerCall(s) \/ SignalStep(s) \/ DestroyStep(s),
         cond'.g1_start = cond.g1_start,
         \A i \in {0, 1} : \/ Closed(cond.g_signals[i]) => Closed(cond'.g_signals[i])
                           \/ Flipping /\ i = _G2(cond.g1_start),
         ~Flipping' /\ Closed(G1Signals') => Closing'
  PROVE  FlagInv'
<1>0. /\ Types /\ GroupInv /\ PositionInv /\ Waiters \subseteq Threads
      /\ loc \in [Threads -> LocType] /\ \A t \in Waiters : G(t) \in {0, 1}
  BY CondAssumption, LocFields DEF Known, Types, G
<1>1. \A t \in Waiters : pc'[t] = pc[t] /\ loc'[t] = loc[t] /\ G(t)' = G(t)
  BY <1>0, SignalerSpares
<1>2. Start' = Start
  BY DEF Start
<1>3. \A t \in Waiters : \/ Closed(Signals(t)) => Closed(Signals(t)')
                         \/ Flipping /\ G(t) = _G2(cond.g1_start)
  BY <1>0, <1>1 DEF Signals
<1>4. ASSUME NEW t \in Waiters, pc[t] = "test", loc[t].seq >= Start, Closed(loc[t].val)
      PROVE  Closed(Signals(t)')
  <2>1. Flipping => G(t) # _G2(cond.g1_start)
    BY <1>0, <1>4 DEF PositionInv, WaitingPCs, End, Flipping
  <2> QED
    BY <1>3, <1>4, <2>1 DEF FlagInv
<1>5. ASSUME NEW t \in Waiters, pc[t] \in UndoPCs, loc[t].base = cond.g1_start
      PROVE  /\ G(t) = _GAnother(_G2(cond.g1_start))
             /\ pc[t] = "undo_check" /\ Closed(loc[t].val) => Closed(Signals(t)')
  <2>1. G(t) = _GAnother(_G2(cond.g1_start))
    BY <1>5 DEF FlagInv
  <2>2. G(t) # _G2(cond.g1_start)
    BY <1>0, <2>1, GroupTypes, Slots
  <2> QED
    BY <1>3, <1>5, <2>1, <2>2 DEF FlagInv
<1> QED
  BY <1>1, <1>2, <1>4, <1>5 DEF FlagInv

\* Closing ends with the advance of g1_start.
LEMMA ClosingKept ==
  ASSUME Types, NEW s \in Signalers, SignalerCall(s) \/ SignalStep(s) \/ DestroyStep(s),
         ~AdvanceG1Start(s)
  PROVE  Closing => Closing'
<1>0. s \in Threads /\ pc \in [Threads -> Places]
  BY CondAssumption DEF Types
<1>1. \A u \in Signalers : u # s => pc'[u] = pc[u]
  BY SignalerSpares
<1>2. pc[s] \in ClosingPCs => pc'[s] \in ClosingPCs
  <2> USE DEF Goto, ClosingPCs
  <2>1. CASE SignalerCall(s)
    BY <1>0, <2>1 DEF SignalerCall, CallWake, CallWakeNobody, CallDestroy
  <2>2. CASE DestroyStep(s)
    BY <1>0, <2>2 DEF DestroyStep, DestroyWait, DestroyReload, DestroyReturn
  <2>3. CASE InnerLock(s) \/ LoadSeq(s) \/ CheckG2(s) \/ LoadRefs(s) \/ InnerUnlock(s)
    BY <1>0, <2>3 DEF InnerLock, LoadSeq, CheckG2, LoadRefs, InnerUnlock
  <2>4. CASE BroadcastG1(s) \/ BroadcastWakeG1(s) \/ CloseG1(s) \/ WaitRefs(s)
    BY <1>0, <2>4 DEF BroadcastG1, BroadcastWakeG1, CloseG1, WaitRefs
  <2>5. CASE ReopenSlot(s) \/ Post(s) \/ WakeG1(s)
    BY <1>0, <2>5 DEF ReopenSlot, Post, WakeG1
  <2>6. CASE RequestWake(s)
    <3>1. \E p \in {"q_refs", "q_wait"} : Goto(s, "q_flag", p)
      BY <2>6 DEF RequestWake
    <3> QED
      BY <1>0, <3>1
  <2>7. CASE SwitchGroups(s)
    BY <1>0, <2>7 DEF SwitchGroups
  <2> QED
    BY <2>1, <2>2, <2>3, <2>4, <2>5, <2>6, <2>7 DEF SignalStep
<1> QED
  BY <1>1, <1>2 DEF Closing

\* An even number of units more in a word leaves its flag, and fits where the
\* signals are few.
LEMMA EvenSum ==
  ASSUME NEW w \in Word32, NEW k \in Word32
  PROVE  /\ Closed((w + 2 * k) % U32) <=> Closed(w)
         /\ w + 2 * k < U32 => (w + 2 * k) % U32 = w + 2 * k
                               /\ ((w + 2 * k) % U32) \div 2 = w \div 2 + k
<1> DEFINE x == w + 2 * k
<1>1. PICK h \in Nat : U32 = 2 * h /\ h >= 4
  BY Width
<1>2. x \in Nat /\ x < 3 * U32
  BY Width DEF Word32
<1>3. x < U32 => x % U32 = x
  BY <1>2, Mod32, Width
<1>4. ASSUME U32 <= x, x < 2 * U32 PROVE x % U32 = x - U32
  <2> DEFINE b == x - U32
  <2>1. b \in 0..(U32 - 1) /\ x = b + U32
    BY <1>2, <1>4, Width
  <2>2. b % U32 = b
    BY <2>1, Mod32
  <2> HIDE DEF b, x
  <2>3. (b + U32) % U32 = b % U32
    BY <2>1, Width
  <2> QED
    BY <2>1, <2>2, <2>3, Width
<1>5. ASSUME 2 * U32 <= x PROVE x % U32 = x - 2 * U32
  <2> DEFINE b == x - 2 * U32
             c == b + U32
  <2>1. b \in 0..(U32 - 1) /\ x = c + U32 /\ c \in Nat
    BY <1>2, <1>5, Width
  <2>2. b % U32 = b
    BY <2>1, Mod32
  <2>3. (b + U32) % U32 = b % U32
    <3> HIDE DEF b, x
    <3> QED
      BY <2>1, Width
  <2>4. (c + U32) % U32 = c % U32
    <3> HIDE DEF c
    <3> QED
      BY <2>1, Width
  <2> QED
    BY <2>1, <2>2, <2>3, <2>4
<1>6. \E q \in {0, 1, 2} : x % U32 = w + 2 * (k - q * h)
  <2>1. x < U32 \/ (U32 <= x /\ x < 2 * U32) \/ 2 * U32 <= x
    BY <1>2, Width
  <2>2. /\ x - U32 = w + 2 * (k - 1 * h) /\ x - 2 * U32 = w + 2 * (k - 2 * h)
        /\ x = w + 2 * (k - 0 * h)
    BY <1>1, Width DEF Word32
  <2> HIDE DEF x
  <2> QED
    BY <1>3, <1>4, <1>5, <2>1, <2>2
<1>7. Closed(x % U32) <=> Closed(w)
  <2>1. PICK q \in {0, 1, 2} : x % U32 = w + 2 * (k - q * h)
    BY <1>6
  <2>2. PICK d \in Int : d = k - q * h
    BY <1>1, Width DEF Word32
  <2>3. (w + 2 * d) % 2 = w % 2
    BY Width DEF Word32
  <2> QED
    BY <2>1, <2>2, <2>3 DEF Closed
<1>8. x < U32 => x % U32 = x /\ x \div 2 = w \div 2 + k
  BY <1>3, Width DEF Word32
<1> QED
  BY <1>7, <1>8

\* The holder of the inner lock is alone with the groups.
LEMMA HolderAlone ==
  ASSUME PlaceInv, NEW s \in Signalers, pc[s] \in InnerPCs
  PROVE  /\ \A u \in Signalers : pc[u] \in InnerPCs => u = s
         /\ pc[s] \notin ClosingPCs => ~Closing
<1>1. \A u \in Signalers : pc[u] \in InnerPCs => u = s
  BY DEF PlaceInv
<1> QED
  BY <1>1 DEF Closing, ClosingPCs, InnerPCs

\* A signal, or all that are left, for G1.
LEMMA GiveStep ==
  ASSUME Known, NEW s \in Signalers, BroadcastG1(s) \/ Post(s)
  PROVE  /\ pc[s] \in {"b_post", "post"} /\ G(s) = G1 /\ G(s)' = G(s) /\ ~Flipping /\ ~Closing
         /\ pc[s] = "post" => pc'[s] = "s_unlock" /\ loc'[s].val = 1
         /\ pc[s] = "b_post" => pc'[s] = "b_wake" /\ loc' = loc
         /\ Position' = Position /\ Start' = Start /\ End' = End /\ G1' = G1
         /\ Flipping' = Flipping /\ cond'.g1_start = cond.g1_start
         /\ _G2(cond.wseq)' = _G2(cond.wseq)
         /\ G2Signals' = G2Signals
         /\ \E k \in Word32 :
              /\ G1Signals' = (G1Signals + 2 * k) % U32
              /\ cond'.g_size[G1] = cond.g_size[G1] - k
              /\ IF pc[s] = "post" /\ loc[s].ctl = "signal" THEN k = 1
                 ELSE k = cond.g_size[G1]
<1>0. /\ s \in Threads /\ pc \in [Threads -> Places] /\ loc \in [Threads -> LocType]
      /\ loc[s] \in LocType /\ G(s) \in {0, 1} /\ 0 \in Word32 /\ 1 \in Word32 /\ cond \in CondType
      /\ Types /\ PlaceInv /\ GroupInv
  BY SignalerValues DEF Types, Known
<1>2. /\ pc[s] \in {"b_post", "post"} /\ pc[s] \in InnerPCs /\ pc[s] \notin ClosingPCs
      /\ \/ pc[s] = "b_post" /\ pc'[s] = "b_wake" /\ BroadcastG1(s)
         \/ pc[s] = "post" /\ pc'[s] = "s_unlock" /\ Post(s)
  BY <1>0 DEF BroadcastG1, Post, Goto, InnerPCs, ClosingPCs
<1>3. ~Flipping /\ SteadyGroups /\ HolderInv(s) /\ ~Closing
  BY <1>0, <1>2, HolderFinds, HolderAlone
<1>4. /\ G(s) = G1 /\ G(s)' = G(s) /\ (pc[s] = "b_post" => loc' = loc)
      /\ pc[s] = "post" => loc'[s].val = 1
  <2>1. G(s) = G1
    BY <1>2, <1>3 DEF HolderInv
  <2>2. CASE BroadcastG1(s)
    BY <1>2, <2>1, <2>2 DEF BroadcastG1, OnlyCond, G, Goto
  <2>3. CASE Post(s)
    <3>1. pc[s] = "post" /\ loc'[s].g = loc[s].g /\ loc'[s].val = 1
      BY <1>0, <2>3 DEF Post, Goto, LocType
    <3> QED
      BY <2>1, <3>1 DEF G
  <2> QED
    BY <2>2, <2>3
<1>5. PICK w \in Word32, g \in Word32 : w = G1Signals /\ g = cond.g_size[G1]
  BY <1>0, <1>4, CondFields, GroupTypes DEF G1Signals, Word32
<1>6. pc[s] = "post" => (g - 1) % U32 = g - 1
  <2>1. pc[s] = "post" => g > 0
    BY <1>2, <1>3, <1>4, <1>5 DEF HolderInv
  <2>2. g > 0 => (g - 1) % U32 = g - 1
    BY Mod32, Width DEF Word32
  <2> QED
    BY <2>1, <2>2
<1>7. \E k \in Word32 : /\ cond' = WithGiven(G1, (w + 2 * k) % U32, g - k) /\ g - k \in Word32
                       /\ IF pc[s] = "post" /\ loc[s].ctl = "signal" THEN k = 1 ELSE k = g
  <2>1. CASE pc[s] = "post" /\ loc[s].ctl = "signal"
    <3>1. cond' = WithGiven(G1, (w + 2 * 1) % U32, g - 1)
      <4>1. cond' = GiveOne(G1) /\ pc[s] = "post"
        BY <1>2, <1>4, <2>1 DEF Post
      <4>2. GiveOne(G1) = WithGiven(G1, (w + 2) % U32, (g - 1) % U32)
        BY <1>5 DEF GiveOne, _SignalsStep, WithGiven, G1Signals
      <4>3. w + 2 * 1 = w + 2
        BY Width DEF Word32
      <4> QED
        BY <1>6, <4>1, <4>2, <4>3
    <3>2. g - 1 \in Word32
      <4>1. (g - 1) % U32 \in Word32
        BY Mod32, Width DEF Word32
      <4> QED
        BY <1>6, <2>1, <4>1
    <3> QED
      BY <1>0, <2>1, <3>1, <3>2
  <2>2. CASE ~(pc[s] = "post" /\ loc[s].ctl = "signal")
    <3>1. cond' = WithGiven(G1, (w + 2 * g) % U32, 0)
      BY <1>2, <1>4, <1>5, <2>2 DEF Post, BroadcastG1, GiveAll, WithGiven, G1Signals
    <3>2. g - g = 0
      BY Width DEF Word32
    <3> QED
      BY <1>0, <2>2, <3>1, <3>2
  <2> QED
    BY <2>1, <2>2
<1>8. PICK k \in Word32 : /\ cond' = WithGiven(G1, (w + 2 * k) % U32, g - k) /\ g - k \in Word32
                         /\ IF pc[s] = "post" /\ loc[s].ctl = "signal" THEN k = 1 ELSE k = g
  BY <1>7
<1>9. (w + 2 * k) % U32 \in Word32
  BY Mod32, Width DEF Word32
<1>10. /\ cond'.g_signals[G1] = (w + 2 * k) % U32 /\ cond'.g_size[G1] = g - k
       /\ cond'.g_signals[1 - G1] = cond.g_signals[1 - G1]
       /\ cond'.wseq = cond.wseq /\ cond'.orig_size = cond.orig_size
       /\ cond'.g1_start = cond.g1_start
  <2> DEFINE v == (w + 2 * k) % U32
             z == g - k
  <2>1. cond' = WithGiven(G1, v, z) /\ v \in Word32 /\ z \in Word32 /\ cond \in CondType /\ G1 \in {0, 1}
    BY <1>0, <1>4, <1>8, <1>9
  <2> HIDE DEF v, z
  <2>2. /\ cond'.g_signals[G1] = v /\ cond'.g_size[G1] = z
        /\ cond'.g_signals[1 - G1] = cond.g_signals[1 - G1]
        /\ cond'.wseq = cond.wseq /\ cond'.orig_size = cond.orig_size
        /\ cond'.g1_start = cond.g1_start
    BY <2>1, SetGiven
  <2> QED
    BY <2>2 DEF v, z
<1>11. /\ Position' = Position /\ Start' = Start /\ G1' = G1 /\ Flipping' = Flipping
       /\ End' = End /\ _G2(cond.wseq)' = _G2(cond.wseq)
  <2>1. /\ Position' = Position /\ Start' = Start /\ G1' = G1 /\ Flipping' = Flipping
        /\ _G2(cond.wseq)' = _G2(cond.wseq)
    BY <1>10 DEF Position, Start, G1, Flipping
  <2> QED
    BY <1>10, <2>1 DEF End
<1>12. G1Signals' = (G1Signals + 2 * k) % U32 /\ G2Signals' = G2Signals
  <2>1. _G2(cond.wseq) = 1 - G1
    BY <1>0, GroupTypes DEF G1, _GAnother
  <2> QED
    BY <1>5, <1>10, <1>11, <2>1 DEF G1Signals, G2Signals
<1> QED
  BY <1>2, <1>3, <1>4, <1>5, <1>8, <1>10, <1>11, <1>12

\* A signaler sets the flag of a slot it closes, and clears it only as it makes a
\* new group of the slot, after g1_start has moved on.
LEMMA FlagSignaler ==
  ASSUME Known, FlagInv, NEW s \in Signalers, SignalerCall(s) \/ SignalStep(s) \/ DestroyStep(s)
  PROVE  FlagInv'
<1>0. /\ s \in Threads /\ pc \in [Threads -> Places] /\ loc \in [Threads -> LocType]
      /\ G(s) \in {0, 1} /\ cond \in CondType /\ Types /\ PlaceInv /\ GroupInv /\ G1 \in {0, 1}
      /\ SmallGroups /\ SignalerEffect(s) /\ 0 \in Word32 /\ ~Closed(G2Signals)
      /\ \A i \in {0, 1} : cond.g_signals[i] \in Word32
  BY SignalerValues, SignalerSteps, CondFields, GroupTypes DEF Types, Known, SizeInv, Word32
<1>1. CASE KeepGroups /\ KeepSignals /\ ~AdvanceG1Start(s)
  <2>1. /\ Flipping' = Flipping /\ G1Signals' = G1Signals /\ cond'.g1_start = cond.g1_start
        /\ \A i \in {0, 1} : cond'.g_signals[i] = cond.g_signals[i]
    BY <1>1, GroupsKept DEF G1Signals, KeepSignals, KeepGroups
  <2>2. Closing => Closing'
    BY <1>0, <1>1, ClosingKept
  <2> QED
    BY <2>1, <2>2, FlagKept DEF FlagInv
<1>2. CASE BroadcastG1(s) \/ Post(s)
  <2>1. PICK k \in Word32 : G1Signals' = (G1Signals + 2 * k) % U32
    BY <1>2, GiveStep
  <2>2. /\ ~Flipping /\ ~Closing /\ G1' = G1 /\ G2Signals' = G2Signals
        /\ _G2(cond.wseq)' = _G2(cond.wseq) /\ cond'.g1_start = cond.g1_start
    BY <1>2, GiveStep
  <2>3. PICK w \in Word32 : w = G1Signals
    BY <1>0 DEF G1Signals
  <2>4. ~Closed(G1Signals) /\ ~Closed(G1Signals')
    <3>1. Closed((w + 2 * k) % U32) <=> Closed(w)
      BY EvenSum
    <3> QED
      BY <2>1, <2>2, <2>3, <3>1 DEF FlagInv
  <2>5. \A i \in {0, 1} : i = G1 \/ i = _G2(cond.wseq)
    BY <1>0, GroupTypes DEF G1, _GAnother
  <2>6. \A i \in {0, 1} : ~Closed(cond.g_signals[i])
    BY <1>0, <2>4, <2>5 DEF G1Signals, G2Signals
  <2> QED
    BY <2>2, <2>4, <2>6, FlagKept
<1>3. CASE CloseG1(s)
  <2>1. /\ pc[s] = "q_close" /\ pc'[s] = "q_refs"
        /\ cond' = [cond EXCEPT !.g_signals[G(s)] = SetLSB(cond.g_signals[G(s)])]
    BY <1>0, <1>3 DEF CloseG1, Goto, OnlyCond
  <2>2. SetLSB(cond.g_signals[G(s)]) \in Word32 /\ Closed(SetLSB(cond.g_signals[G(s)]))
    BY <1>0, Flag32 DEF Word32
  <2>3. /\ Closed(cond'.g_signals[G(s)]) /\ cond'.g_signals[1 - G(s)] = cond.g_signals[1 - G(s)]
        /\ cond'.g1_start = cond.g1_start
    <3> DEFINE v == SetLSB(cond.g_signals[G(s)])
    <3>1. cond' = [cond EXCEPT !.g_signals[G(s)] = v] /\ v \in Word32 /\ Closed(v)
      BY <2>1, <2>2
    <3> HIDE DEF v
    <3> QED
      BY <1>0, <3>1, SetSignals DEF KeepGroups
  <2>4. Closing'
    BY <2>1 DEF Closing, ClosingPCs
  <2>5. \A i \in {0, 1} : i = G(s) \/ i = 1 - G(s)
    BY <1>0
  <2>6. \A i \in {0, 1} : Closed(cond.g_signals[i]) => Closed(cond'.g_signals[i])
    BY <2>3, <2>5
  <2> QED
    BY <2>3, <2>4, <2>6, FlagKept
<1>4. CASE ReopenSlot(s)
  <2>1. /\ pc[s] = "q_reopen" /\ cond' = [cond EXCEPT !.g_signals[G(s)] = 0]
    BY <1>0, <1>4 DEF ReopenSlot, Goto, OnlyCond
  <2>2. /\ KeepGroups /\ cond'.g_signals[1 - G(s)] = cond.g_signals[1 - G(s)]
    BY <1>0, <2>1, SetSignals
  <2>3. Flipping /\ G(s) = _G2(cond.g1_start)
    BY <1>0, <2>1 DEF GroupInv, HolderInv
  <2>4. Flipping' = Flipping /\ cond'.g1_start = cond.g1_start
    BY <2>2, GroupsKept DEF KeepGroups
  <2>5. \A i \in {0, 1} : i = G(s) \/ i = 1 - G(s)
    BY <1>0
  <2>6. \A i \in {0, 1} : \/ Closed(cond.g_signals[i]) => Closed(cond'.g_signals[i])
                          \/ Flipping /\ i = _G2(cond.g1_start)
    BY <2>2, <2>3, <2>5
  <2> QED
    BY <2>3, <2>4, <2>6, FlagKept
<1>5. CASE SwitchGroups(s)
  <2>1. G1' = _G2(cond.wseq)
    BY <1>0, <1>5, GroupSwitch
  <2>2. KeepSignals /\ cond'.g1_start = cond.g1_start
    BY <1>0, <1>5 DEF SwitchGroups, KeepSignals, CondType
  <2>3. G1Signals' = G2Signals
    BY <2>1, <2>2 DEF G1Signals, G2Signals, KeepSignals
  <2>4. \A i \in {0, 1} : Closed(cond.g_signals[i]) => Closed(cond'.g_signals[i])
    BY <2>2 DEF KeepSignals
  <2> QED
    BY <1>0, <2>2, <2>3, <2>4, FlagKept
<1>6. CASE AdvanceG1Start(s)
  <2>1. /\ GroupInv' /\ End' = End /\ Start' = End /\ ~Flipping
        /\ _G2(cond.wseq)' = _G2(cond.wseq)
    BY <1>0, <1>6, GroupAdvance
  <2>2. /\ pc[s] = "q_advance" /\ pc'[s] = "q_reopen" /\ KeepSignals
        /\ cond'.orig_size = cond.orig_size /\ cond'.g1_start \in Nat
    <3>1. pc[s] = "q_advance" /\ pc'[s] = "q_reopen"
      BY <1>0, <1>6 DEF AdvanceG1Start, Goto
    <3>2. KeepSignals /\ cond'.orig_size = cond.orig_size
      BY <1>0, <1>6 DEF AdvanceG1Start, KeepSignals, CondType
    <3>3. cond' \in CondType
      BY <1>0 DEF SignalerEffect, Types
    <3> QED
      BY <3>1, <3>2, <3>3 DEF CondType
  <2>3. Flipping'
    BY <1>0, <2>1, <2>2 DEF GroupInv
  <2>4. cond.g1_start < cond'.g1_start
    <3>1. PICK a \in Nat, b \in Nat, o \in Nat : a = cond.g1_start /\ b = cond'.g1_start /\ o = cond.orig_size
      BY <1>0, <2>2, GroupTypes
    <3>2. b % 2 # a % 2 /\ b \div 2 = a \div 2 + o
      BY <2>1, <2>3, <3>1 DEF Flipping, _G2, Start, _Seq, End
    <3>3. a % 2 = 1 => o > 0
      BY <1>0, <2>1, <3>1 DEF GroupInv, SteadyGroups
    <3> QED
      BY <3>1, <3>2, <3>3
  <2>5. /\ \A t \in Waiters : /\ pc'[t] = pc[t] /\ loc'[t] = loc[t] /\ Signals(t)' = Signals(t)
                              /\ loc[t].seq \in Nat /\ loc[t].base \in Nat
    <3>1. Waiters \subseteq Threads
      BY CondAssumption
    <3> QED
      BY <1>0, <2>2, <3>1, SignalerSpares, LocFields DEF Signals, KeepSignals
  <2>6. Start \in Nat /\ End \in Nat /\ Start <= End /\ cond.g1_start \in Nat
    BY <1>0, EndBound, GroupTypes
  <2>7. ASSUME NEW t \in Waiters, pc[t] = "test", loc[t].seq >= End, Closed(loc[t].val)
        PROVE  Closed(Signals(t))
    <3>1. loc[t].seq >= Start
      BY <2>5, <2>6, <2>7
    <3> QED
      BY <2>7, <3>1 DEF FlagInv
  <2>8. ASSUME NEW t \in Waiters, pc[t] \in UndoPCs
        PROVE  loc[t].base < cond'.g1_start
    <3>1. loc[t].base <= cond.g1_start
      BY <2>8 DEF FlagInv
    <3> QED
      BY <2>2, <2>4, <2>5, <2>6, <3>1
  <2>9. \A t \in Waiters : loc[t].base < cond'.g1_start =>
            loc[t].base <= cond'.g1_start /\ loc[t].base # cond'.g1_start
    BY <2>2, <2>5
  <2> QED
    BY <2>1, <2>3, <2>5, <2>7, <2>8, <2>9 DEF FlagInv
<1> QED
  BY <1>0, <1>1, <1>2, <1>3, <1>4, <1>5, <1>6 DEF SignalerEffect

-----------------------------------------------------------------------------
\* A signal taken, which without a repair is one of G1.
LEMMA WaiterTakes ==
  ASSUME Known, CleanInv, NEW t \in Waiters, TakeSignal(t)
  PROVE  /\ pc[t] = "test" /\ pc'[t] = "stolen" /\ G(t) = G1 /\ G1Signals # 0
         /\ ~Closed(G1Signals)
         /\ G1Signals' \div 2 = G1Signals \div 2 - 1 /\ G2Signals' = G2Signals
         /\ \A i \in {0, 1} : cond.g_signals[i] = 0 => cond'.g_signals[i] = 0
<1>0. /\ t \in Threads /\ cond \in CondType /\ pc \in [Threads -> Places] /\ Types /\ GroupInv
      /\ G(t) \in {0, 1} /\ \A i \in {0, 1} : cond.g_signals[i] \in Word32
  BY CondAssumption, LocFields, CondFields DEF Known, Types, G, Word32
<1>1. PICK w \in Word32 : w = Signals(t)
  BY <1>0 DEF Signals
<1>2. /\ w # 0 /\ ~Closed(w) /\ cond' = [cond EXCEPT !.g_signals[G(t)] = w - 2]
      /\ pc[t] = "test" /\ pc'[t] = "stolen"
  BY <1>0, <1>1 DEF TakeSignal, _SignalsStep, Goto
<1>3. w - 2 \in Word32 /\ (w - 2) \div 2 = w \div 2 - 1
  BY <1>2, SignalArithmetic
<1>4. /\ cond'.g_signals[G(t)] = w - 2
      /\ cond'.g_signals[1 - G(t)] = cond.g_signals[1 - G(t)]
  BY <1>0, <1>2, <1>3, SetSignals
<1>5. G(t) = G1 /\ 1 - G(t) = _G2(cond.wseq)
  <2>1. G(t) # _G2(cond.wseq)
    BY <1>1, <1>2 DEF CleanInv, G2Signals, Signals
  <2> QED
    BY <1>0, <2>1, GroupTypes DEF G1, _GAnother
<1>6. G1' = G1 /\ _G2(cond.wseq)' = _G2(cond.wseq)
  <2>1. WaitStep(t)
    BY DEF WaitStep
  <2> QED
    BY <1>0, <2>1, WaiterGroups
<1>7. \A i \in {0, 1} : i = G(t) \/ i = 1 - G(t)
  BY <1>0
<1> QED
  BY <1>1, <1>2, <1>3, <1>4, <1>5, <1>6, <1>7 DEF G1Signals, G2Signals, Signals

\* Without a repair no waiter adds a signal, and wseq counts those that join G2.
LEMMA CleanWaiter ==
  ASSUME Known, CleanInv, NEW t \in Waiters, ClientLock(t) \/ WaitSeq(t) \/ WaitStep(t),
         ~UndoAdd(t)
  PROVE  CleanInv'
<1>0. /\ WaiterEffect(t) /\ Types /\ GroupInv /\ PositionInv /\ MemberInv /\ ~Closed(G2Signals)
      /\ Signalers \subseteq Threads /\ t \notin Signalers /\ Waiters \subseteq Threads
      /\ t \in Threads /\ pc \in [Threads -> Places] /\ loc \in [Threads -> LocType]
      /\ \A s \in Signalers : G(s) \in {0, 1}
  BY WaiterSteps, CondAssumption, SignalerValues DEF Known, SizeInv, Types
<1>1. \A u \in Threads : u # t => pc'[u] = pc[u] /\ loc'[u] = loc[u] /\ G(u)' = G(u)
  BY <1>0 DEF WaiterEffect, KeepOthers, G
<1>2. /\ End' = End /\ _G2(cond.wseq)' = _G2(cond.wseq)
      /\ Position' = IF WaitSeq(t) THEN Position + 1 ELSE Position
      /\ End \in Nat /\ Position \in Nat /\ End <= Position /\ _G2(cond.wseq) \in {0, 1}
  BY <1>0, WaiterGroups, GroupTypes, EndBound
<1>3. /\ G2Signals' = G2Signals
      /\ \A i \in {0, 1} : cond.g_signals[i] = 0 => cond'.g_signals[i] = 0
  <2>1. CASE TakeSignal(t)
    BY <2>1, WaiterTakes
  <2>2. CASE KeepSignals
    BY <1>2, <2>2 DEF KeepSignals, G2Signals
  <2> QED
    BY <1>0, <2>1, <2>2 DEF WaiterEffect
<1>4. \A s \in Signalers : pc'[s] = "q_flip" => Signals(s)' = 0
  BY <1>0, <1>1, <1>3 DEF CleanInv, Signals
<1>5. Cardinality(Members') = Position' - End'
  <2>1. CASE WaitSeq(t)
    <3>1. pc[t] = "held" /\ pc'[t] = "wref" /\ loc'[t].seq = Position
      BY <1>0, <2>1 DEF WaitSeq, Goto, Position, LocType
    <3>2. Members' = Members \cup {t} /\ t \notin Members
      BY <1>0, <1>1, <1>2, <3>1 DEF Members, MemberPCs
    <3>3. Cardinality(Members') = Cardinality(Members) + 1
      BY <3>2, CountsFinite, FS_AddElement
    <3> QED
      BY <1>2, <2>1, <3>3 DEF CleanInv
  <2>2. CASE ~WaitSeq(t)
    <3>1. IF TakeSignal(t) THEN Members' = Members \ {t} ELSE Members' = Members
      BY <1>0, <2>2, WaiterSets
    <3>2. TakeSignal(t) => t \notin Members
      <4> SUFFICES ASSUME TakeSignal(t), t \in Members PROVE FALSE
        OBVIOUS
      <4>1. pc[t] = "test" /\ G(t) = G1
        BY WaiterTakes
      <4>2. G(t) = _G2(cond.wseq)
        BY <1>0, <4>1 DEF Members, PositionInv, WaitingPCs
      <4> QED
        BY <1>2, <4>1, <4>2, Slots DEF G1
    <3>3. Members' = Members
      BY <3>1, <3>2
    <3> QED
      BY <1>2, <2>2, <3>3 DEF CleanInv
  <2> QED
    BY <2>1, <2>2
<1> QED
  BY <1>3, <1>4, <1>5 DEF CleanInv

\* Signals are added to G1 only, and reopening a slot clears what is left on it.
LEMMA CleanSignaler ==
  ASSUME Known, CleanInv, NEW s \in Signalers, SignalerCall(s) \/ SignalStep(s) \/ DestroyStep(s)
  PROVE  CleanInv'
<1>0. /\ s \in Threads /\ pc \in [Threads -> Places] /\ loc \in [Threads -> LocType]
      /\ G(s) \in {0, 1} /\ cond \in CondType /\ Types /\ PlaceInv /\ GroupInv /\ PositionInv
      /\ SmallGroups /\ SignalerEffect(s) /\ 0 \in Word32 /\ Signalers \subseteq Threads
      /\ Waiters \subseteq Threads
  BY SignalerValues, SignalerSteps, CondAssumption DEF Types, Known
<1>1. /\ \A t \in Waiters : pc'[t] = pc[t] /\ loc'[t] = loc[t]
      /\ \A u \in Signalers : u # s => pc'[u] = pc[u] /\ loc'[u] = loc[u] /\ G(u)' = G(u)
  BY <1>0, SignalerSpares
<1>2. ASSUME End' = End, Position' = Position, G2Signals' = G2Signals,
             \A u \in Signalers : pc'[u] = "q_flip" => Signals(u)' = 0
      PROVE  CleanInv'
  <2>1. Members' = Members
    BY <1>1, <1>2 DEF Members
  <2> QED
    BY <1>2, <2>1 DEF CleanInv
<1>3. pc[s] \in InnerPCs => \A u \in Signalers : u # s => pc'[u] # "q_flip"
  BY <1>0, <1>1, HolderAlone DEF InnerPCs
<1>4. pc'[s] = "q_flip" => ReopenSlot(s)
  <2> USE DEF Goto
  <2>1. CASE SignalerCall(s)
    BY <1>0, <2>1 DEF SignalerCall, CallWake, CallWakeNobody, CallDestroy
  <2>2. CASE DestroyStep(s)
    BY <1>0, <2>2 DEF DestroyStep, DestroyWait, DestroyReload, DestroyReturn
  <2>3. CASE InnerLock(s) \/ InnerUnlock(s) \/ LoadSeq(s) \/ CheckG2(s) \/ LoadRefs(s)
    BY <1>0, <2>3 DEF InnerLock, InnerUnlock, LoadSeq, CheckG2, LoadRefs
  <2>4. CASE BroadcastG1(s) \/ BroadcastWakeG1(s) \/ CloseG1(s) \/ RequestWake(s) \/ WaitRefs(s)
    BY <1>0, <2>4 DEF BroadcastG1, BroadcastWakeG1, CloseG1, RequestWake, WaitRefs
  <2>5. CASE AdvanceG1Start(s) \/ SwitchGroups(s) \/ Post(s) \/ WakeG1(s)
    BY <1>0, <2>5 DEF AdvanceG1Start, SwitchGroups, Post, WakeG1
  <2> QED
    BY <2>1, <2>2, <2>3, <2>4, <2>5 DEF SignalStep
<1>5. CASE KeepGroups /\ KeepSignals /\ ~ReopenSlot(s)
  <2>1. Position' = Position /\ End' = End /\ G2Signals' = G2Signals
    BY <1>5, GroupsKept DEF G2Signals, KeepSignals, KeepGroups
  <2>2. \A u \in Signalers : pc'[u] = "q_flip" => pc[u] = "q_flip" /\ Signals(u)' = Signals(u)
    BY <1>1, <1>4, <1>5 DEF Signals, KeepSignals
  <2> QED
    BY <1>2, <2>1, <2>2 DEF CleanInv
<1>6. CASE AdvanceG1Start(s)
  <2>1. End' = End /\ Position' = Position /\ _G2(cond.wseq)' = _G2(cond.wseq)
    BY <1>0, <1>6, GroupAdvance
  <2>2. KeepSignals
    BY <1>0, <1>6 DEF AdvanceG1Start, CondType, KeepSignals
  <2>3. pc[s] = "q_advance" /\ pc'[s] = "q_reopen"
    BY <1>0, <1>6 DEF AdvanceG1Start, Goto
  <2>4. G2Signals' = G2Signals
    BY <2>1, <2>2 DEF G2Signals, KeepSignals
  <2>5. \A u \in Signalers : pc'[u] # "q_flip"
    BY <1>3, <2>3 DEF InnerPCs
  <2> QED
    BY <1>2, <2>1, <2>4, <2>5
<1>7. CASE ReopenSlot(s)
  <2>1. /\ pc[s] = "q_reopen" /\ pc'[s] = "q_flip" /\ loc' = loc
        /\ cond' = [cond EXCEPT !.g_signals[G(s)] = 0]
    BY <1>0, <1>7 DEF ReopenSlot, Goto, OnlyCond
  <2>2. /\ cond'.g_signals[G(s)] = 0 /\ KeepGroups
        /\ cond'.g_signals[1 - G(s)] = cond.g_signals[1 - G(s)]
    BY <1>0, <2>1, SetSignals
  <2>3. _G2(cond.wseq) = 1 - G(s)
    BY <1>0, <2>1, GroupTypes DEF GroupInv, HolderInv, Flipping
  <2>4. Position' = Position /\ End' = End /\ _G2(cond.wseq)' = _G2(cond.wseq)
    BY <2>2, GroupsKept
  <2>5. G2Signals' = G2Signals
    BY <2>2, <2>3, <2>4 DEF G2Signals
  <2>6. \A u \in Signalers : pc'[u] = "q_flip" => u = s
    BY <1>3, <2>1 DEF InnerPCs
  <2>7. Signals(s)' = 0
    BY <2>1, <2>2 DEF Signals, G
  <2> QED
    BY <1>2, <2>4, <2>5, <2>6, <2>7
<1>8. CASE BroadcastG1(s) \/ Post(s)
  <2>1. /\ Position' = Position /\ End' = End /\ G2Signals' = G2Signals
        /\ pc[s] \in {"b_post", "post"} /\ pc'[s] # "q_flip"
    BY <1>8, GiveStep
  <2>2. \A u \in Signalers : pc'[u] # "q_flip"
    BY <1>3, <2>1 DEF InnerPCs
  <2> QED
    BY <1>2, <2>1, <2>2
<1>9. CASE CloseG1(s)
  <2>1. /\ pc[s] = "q_close" /\ pc'[s] = "q_refs"
        /\ cond' = [cond EXCEPT !.g_signals[G(s)] = SetLSB(cond.g_signals[G(s)])]
    BY <1>0, <1>9 DEF CloseG1, Goto, OnlyCond
  <2>2. G(s) = G1
    BY <1>0, <2>1 DEF GroupInv, HolderInv
  <2>3. KeepGroups /\ cond'.g_signals[1 - G(s)] = cond.g_signals[1 - G(s)]
    BY <1>0, <2>1 DEF CondType, KeepGroups
  <2>4. Position' = Position /\ End' = End /\ _G2(cond.wseq)' = _G2(cond.wseq)
    BY <2>3, GroupsKept
  <2>5. G2Signals' = G2Signals
    BY <1>0, <2>2, <2>3, <2>4, GroupTypes DEF G2Signals, G1, _GAnother
  <2>6. \A u \in Signalers : pc'[u] # "q_flip"
    BY <1>3, <2>1 DEF InnerPCs
  <2> QED
    BY <1>2, <2>4, <2>5, <2>6
<1>10. CASE SwitchGroups(s)
  <2>1. End' = Position /\ Position' = Position /\ G1' = _G2(cond.wseq) /\ pc'[s] = "post"
    BY <1>0, <1>10, GroupSwitch
  <2>2. pc[s] = "q_flip"
    BY <1>0, <1>10 DEF SwitchGroups, Goto
  <2>3. Flipping /\ G(s) = _G2(cond.g1_start)
    BY <1>0, <2>2 DEF GroupInv, HolderInv
  <2>4. _G2(cond.wseq)' = G(s)
    <3>1. cond'.wseq \in Nat
      BY <1>0, CondFields DEF SignalerEffect, Types
    <3> QED
      BY <1>0, <2>1, <2>3, <3>1, GroupTypes DEF G1, _GAnother, _G2, Flipping
  <2>5. KeepSignals
    BY <1>0, <1>10 DEF SwitchGroups, KeepSignals, CondType
  <2>6. G2Signals' = 0
    BY <2>2, <2>4, <2>5 DEF CleanInv, G2Signals, Signals, KeepSignals
  <2>7. Members' = {}
    <3>1. ASSUME NEW t \in Waiters PROVE t \notin Members'
      <4>1. loc[t].seq \in Nat /\ Position \in Nat
        BY <1>0, LocFields, GroupTypes
      <4>2. pc[t] \in MemberPCs => ~(loc[t].seq >= Position)
        BY <1>0, <4>1 DEF PositionInv, MemberPCs, WaitingPCs
      <4> QED
        BY <1>1, <2>1, <4>2 DEF Members
    <3> QED
      BY <3>1 DEF Members
  <2>8. Cardinality(Members') = Position' - End'
    BY <1>0, <2>1, <2>7, FS_EmptySet, GroupTypes
  <2>9. \A u \in Signalers : pc'[u] # "q_flip"
    BY <1>3, <2>1, <2>2 DEF InnerPCs
  <2> QED
    BY <2>6, <2>8, <2>9 DEF CleanInv
<1> QED
  BY <1>0, <1>5, <1>6, <1>7, <1>8, <1>9, <1>10 DEF SignalerEffect

\* Unless G1 is being closed, its waiters end their waits by taking a signal.
LEMMA WaiterSlips ==
  ASSUME Known, StayInv, FlagInv, NEW t \in Waiters, ClientLock(t) \/ WaitSeq(t) \/ WaitStep(t),
         WaiterLeaves(t), t \in G1Waiters, ~Flipping, ~Closing
  PROVE  TakeSignal(t)
<1>0. /\ t \in Threads /\ pc \in [Threads -> Places] /\ loc \in [Threads -> LocType]
      /\ loc[t] \in LocType /\ Start \in Nat /\ End \in Nat /\ loc[t].seq \in Nat
  BY CondAssumption, LocFields, GroupTypes DEF Known, Types
<1>1. /\ pc[t] \in {"test", "recheck", "recheck_start"} /\ loc[t].ctl # "done"
      /\ ~(pc'[t] \in MemberPCs /\ loc'[t].ctl # "done")
      /\ loc[t].seq \in Start..(End - 1)
  BY DEF WaiterLeaves, StayInv, EarlyPCs, G1Waiters
<1>2. G(t) = G1
  BY <1>1 DEF Known, PositionInv, WaitingPCs
<1>3. ~Closed(Signals(t))
  BY <1>2 DEF FlagInv, Signals, G1Signals
<1>4. loc[t].seq >= Start /\ ~Outdated(t)
  BY <1>0, <1>1 DEF Outdated, Start
<1> USE DEF Goto, MemberPCs
<1>5. CASE TestClosed(t)
  BY <1>1, <1>3, <1>4, <1>5 DEF TestClosed, FlagInv
<1>6. CASE TakeFails(t) \/ TakeGroupRef(t)
  <2>1. pc'[t] \in MemberPCs
    BY <1>0, <1>6 DEF TakeFails, TakeGroupRef
  <2>2. loc' = loc \/ loc' = [loc EXCEPT ![t].val = Signals(t)]
    BY <1>6 DEF TakeFails, TakeGroupRef, OnlyCond
  <2>3. loc'[t].ctl = loc[t].ctl
    BY <1>0, <2>2 DEF LocType
  <2> QED
    BY <1>1, <2>1, <2>3
<1>7. CASE Recheck(t)
  BY <1>0, <1>1, <1>3, <1>7 DEF Recheck
<1>8. CASE RecheckStart(t)
  BY <1>0, <1>1, <1>4, <1>8 DEF RecheckStart
<1>9. CASE ClientLock(t) \/ WaitSeq(t) \/ WaitRef(t) \/ WaitUnlock(t) \/ LoadSignals(t)
           \/ BlockOnGroup(t) \/ DropGroupRef(t) \/ DropClearFlag(t) \/ DropWake(t)
  BY <1>1, <1>9 DEF ClientLock, WaitSeq, WaitRef, WaitUnlock, LoadSignals, BlockOnGroup,
     DropGroupRef, DropClearFlag, DropWake
<1>10. CASE TestStolen(t) \/ UndoLoad(t) \/ UndoCheck(t) \/ UndoAdd(t) \/ UndoAddFails(t)
            \/ UndoWake(t) \/ WaitUnref(t) \/ WakeDestroyer(t) \/ Relock(t) \/ ClientUnlock(t)
  BY <1>1, <1>10 DEF TestStolen, UndoLoad, UndoCheck, UndoAdd, UndoAddFails, UndoWake,
     WaitUnref, WakeDestroyer, Relock, ClientUnlock
<1> QED
  BY <1>5, <1>6, <1>7, <1>8, <1>9, <1>10 DEF WaitStep

\* A waiter that took a signal of G1 without being one of its waiters comes to
\* the repair, and does not leave it while G1 is open.
LEMMA WaiterUndoes ==
  ASSUME Known, FlagInv, NEW t \in Waiters, ClientLock(t) \/ WaitSeq(t) \/ WaitStep(t),
         ~UndoAdd(t), ~Flipping, ~Closing
  PROVE  /\ Undoing \subseteq Undoing'
         /\ TakeSignal(t) /\ loc[t].seq < Start /\ G(t) = G1 => t \in Undoing' /\ t \notin Undoing
<1>0. /\ WaiterEffect(t) /\ t \in Threads /\ pc \in [Threads -> Places] /\ Types /\ GroupInv
      /\ loc \in [Threads -> LocType] /\ loc[t] \in LocType /\ Waiters \subseteq Threads
  BY WaiterSteps, CondAssumption DEF Known, Types
<1>1. \A u \in Threads : u # t => pc'[u] = pc[u] /\ loc'[u] = loc[u] /\ G(u)' = G(u)
  BY <1>0 DEF WaiterEffect, KeepOthers, G
<1>2. /\ Start' = Start /\ G1' = G1 /\ cond'.g1_start = cond.g1_start
      /\ _GAnother(_G2(cond.g1_start)) = G1 /\ ~Closed(G1Signals)
  BY <1>0, WaiterGroups DEF Flipping, G1, FlagInv
<1>3. ASSUME NEW u \in Undoing, u # t PROVE u \in Undoing'
  BY <1>0, <1>1, <1>2, <1>3 DEF Undoing
<1>4. ASSUME t \in Undoing PROVE t \in Undoing'
  <2>1. CASE pc[t] = "stolen" /\ loc[t].seq < Start /\ G(t) = G1
    <3>1. MayHaveStolen(t)
      BY <1>2, <2>1 DEF MayHaveStolen, Outdated, Start
    <3>2. TestStolen(t)
      BY <2>1 DEF WaitStep, Goto, ClientLock, WaitSeq, WaitRef, WaitUnlock, LoadSignals,
         TestClosed, TakeSignal, TakeFails, TakeGroupRef, Recheck, RecheckStart, BlockOnGroup,
         DropGroupRef, DropClearFlag, DropWake, UndoLoad, UndoCheck, UndoAdd, UndoAddFails,
         UndoWake, WaitUnref, WakeDestroyer, Relock, ClientUnlock
    <3>3. pc'[t] = "undo_load"
      BY <1>0, <3>1, <3>2 DEF TestStolen, Goto
    <3>4. loc'[t].base = cond.g1_start
      BY <1>0, <3>3, WaiterReads
    <3> QED
      BY <1>2, <3>3, <3>4 DEF Undoing, UndoPCs
  <2>2. CASE pc[t] \in UndoPCs /\ loc[t].base = cond.g1_start
    <3>1. UndoLoad(t) \/ UndoCheck(t) \/ UndoAddFails(t)
      BY <2>2 DEF UndoPCs, WaitStep, Goto, ClientLock, WaitSeq, WaitRef, WaitUnlock, LoadSignals,
         TestClosed, TakeSignal, TakeFails, TakeGroupRef, Recheck, RecheckStart, BlockOnGroup,
         DropGroupRef, DropClearFlag, DropWake, TestStolen,
         UndoWake, WaitUnref, WakeDestroyer, Relock, ClientUnlock
    <3>2. CASE UndoLoad(t) \/ UndoAddFails(t)
      <4>1. pc'[t] = "undo_check"
        BY <1>0, <3>2 DEF UndoLoad, UndoAddFails, Goto
      <4>2. loc'[t].base = loc[t].base
        BY <1>0, <4>1, WaiterReads
      <4> QED
        BY <1>2, <2>2, <4>1, <4>2 DEF Undoing, UndoPCs
    <3>3. CASE UndoCheck(t)
      <4>1. G(t) = G1 /\ pc[t] = "undo_check"
        BY <1>2, <2>2, <3>3 DEF FlagInv, UndoCheck, Goto
      <4>2. ~Closed(loc[t].val)
        BY <1>2, <2>2, <4>1 DEF FlagInv, Signals, G1Signals
      <4>3. pc'[t] = "undo_cas" /\ loc' = loc
        BY <1>0, <2>2, <3>3, <4>2 DEF UndoCheck, Goto
      <4> QED
        BY <1>2, <2>2, <4>3 DEF Undoing, UndoPCs
    <3> QED
      BY <3>1, <3>2, <3>3
  <2> QED
    BY <1>4, <2>1, <2>2 DEF Undoing
<1>5. ASSUME TakeSignal(t), loc[t].seq < Start, G(t) = G1
      PROVE  t \in Undoing' /\ t \notin Undoing
  <2>1. pc[t] = "test" /\ pc'[t] = "stolen" /\ ~WaitSeq(t)
    BY <1>0, <1>5 DEF TakeSignal, WaitSeq, Goto
  <2>2. loc'[t].seq = loc[t].seq /\ G(t)' = G(t)
    BY <1>0, <2>1 DEF WaiterEffect, WaitingPCs
  <2> QED
    BY <1>2, <1>5, <2>1, <2>2 DEF Undoing, UndoPCs
<1> QED
  BY <1>3, <1>4, <1>5

\* So the waiters of an open G1 grow fewer only by the signals taken.
LEMMA WaiterWaits ==
  ASSUME Known, StayInv, FlagInv, CleanInv, NEW t \in Waiters,
         ClientLock(t) \/ WaitSeq(t) \/ WaitStep(t), ~Flipping, ~Closing
  PROVE  IF TakeSignal(t) THEN t \in Staying /\ G1Waiters' = G1Waiters \ {t}
         ELSE G1Waiters' = G1Waiters
<1>0. Types /\ GroupInv
  BY DEF Known
<1>1. /\ pc[t] \in EarlyPCs \cup OutPCs => loc[t].ctl # "done"
      /\ WaiterLeaves(t) \/ WaiterRemains(t)
  BY <1>0, WaiterStays DEF StayInv, Known, MemberInv
<1>2. CASE TakeSignal(t)
  <2>1. pc[t] = "test" /\ pc'[t] = "stolen"
    BY <1>2, WaiterTakes
  <2>2. loc[t].ctl # "done" /\ pc[t] \in MemberPCs /\ pc'[t] \notin MemberPCs
    BY <1>1, <2>1 DEF EarlyPCs, MemberPCs
  <2>3. ~WaitSeq(t)
    BY <2>1 DEF WaitSeq, Goto
  <2>4. WaiterLeaves(t)
    BY <1>1, <2>2, <2>3 DEF WaiterRemains
  <2> QED
    BY <1>0, <1>1, <1>2, <2>4, WaiterCounts
<1>3. CASE ~TakeSignal(t) /\ WaiterLeaves(t)
  <2>1. t \notin G1Waiters
    BY <1>3, WaiterSlips
  <2> QED
    BY <1>0, <1>1, <1>3, <2>1, WaiterCounts
<1>4. CASE ~TakeSignal(t) /\ WaiterRemains(t)
  BY <1>0, <1>1, <1>4, WaiterCounts
<1> QED
  BY <1>1, <1>2, <1>3, <1>4

\* A waiter of an open G1 ends its wait by a signal of G1; one of an older group
\* that takes such a signal is one that will undo it.
LEMMA GivenWaiter ==
  ASSUME Known, StayInv, FlagInv, CleanInv, GivenInv,
         NEW t \in Waiters, ClientLock(t) \/ WaitSeq(t) \/ WaitStep(t), ~UndoAdd(t)
  PROVE  GivenInv'
<1>0. /\ WaiterEffect(t) /\ Types /\ GroupInv /\ PositionInv /\ Signalers \subseteq Threads
      /\ t \notin Signalers /\ Start \in Nat /\ End \in Nat /\ G1 \in {0, 1} /\ t \in Threads
      /\ loc[t].seq \in Nat
      /\ \A i \in {0, 1} : cond.g_size[i] \in Nat /\ cond.g_signals[i] \in Word32
  <2>1. WaiterEffect(t) /\ Types /\ GroupInv /\ PositionInv
    BY WaiterSteps DEF Known
  <2>2. \A i \in {0, 1} : cond.g_size[i] \in Nat /\ cond.g_signals[i] \in Word32
    BY <2>1, CondFields, Width DEF Word32, Types
  <2> QED
    BY <2>1, <2>2, CondAssumption, GroupTypes, LocFields DEF Types
<1>2. /\ G1' = G1 /\ Flipping' = Flipping /\ cond'.g_size = cond.g_size
      /\ Start' = Start /\ End' = End
  BY <1>0, WaiterGroups
<1>3. Closing' = Closing
  BY <1>0 DEF WaiterEffect, KeepOthers, Closing
<1> SUFFICES ASSUME ~Flipping, ~Closing
             PROVE  LET given == G1Signals' \div 2 + cond.g_size[G1] IN
                    /\ given <= Cardinality(G1Waiters')
                    /\ Cardinality(G1Waiters') <= given + Cardinality(Undoing')
  BY <1>2, <1>3 DEF GivenInv
<1> DEFINE g == cond.g_size[G1]
           w == Cardinality(G1Waiters)
           v == Cardinality(Undoing)
           a == G1Signals \div 2
<1>4. /\ g \in Nat /\ w \in Nat /\ v \in Nat /\ a \in Nat
      /\ Cardinality(Undoing') \in Nat /\ IsFiniteSet(G1Waiters)
      /\ IsFiniteSet(Undoing) /\ IsFiniteSet(Undoing')
  <2>1. G1Signals \in Word32
    BY <1>0 DEF G1Signals
  <2>2. a \in Nat
    BY <2>1, SignalArithmetic
  <2> QED
    BY <1>0, <2>2, StayFinite, StayFiniteNext
<1>5. a + g <= w /\ w <= a + g + v
  BY <1>2 DEF GivenInv
<1>6. v <= Cardinality(Undoing')
  BY <1>4, WaiterUndoes, FS_Subset
<1>7. CASE TakeSignal(t)
  <2>1. G(t) = G1 /\ pc[t] = "test" /\ pc'[t] = "stolen" /\ G1Signals' \div 2 = a - 1
    BY <1>7, WaiterTakes
  <2>3. t \in Staying /\ G1Waiters' = G1Waiters \ {t}
    BY <1>7, WaiterWaits
  <2>4. loc[t].seq < End
    <3>1. G1 # _G2(cond.wseq)
      BY <1>0, GroupTypes, Slots DEF G1
    <3>2. ~(loc[t].seq >= End)
      BY <1>0, <2>1, <3>1 DEF PositionInv, WaitingPCs
    <3> QED
      BY <1>0, <3>2
  <2>5. CASE loc[t].seq >= Start
    <3>1. t \in G1Waiters
      BY <1>0, <2>3, <2>4, <2>5 DEF G1Waiters
    <3>2. Cardinality(G1Waiters') = w - 1
      BY <1>4, <2>3, <3>1, FS_RemoveElement
    <3> HIDE DEF g, w, v, a
    <3> QED
      BY <1>4, <1>5, <1>6, <2>1, <3>2 DEF g
  <2>6. CASE loc[t].seq < Start
    <3>1. t \notin G1Waiters
      BY <1>0, <2>6 DEF G1Waiters
    <3>2. G1Waiters' = G1Waiters
      BY <2>3, <3>1
    <3>3. Undoing \cup {t} \subseteq Undoing' /\ t \notin Undoing
      BY <1>7, <2>1, <2>6, WaiterUndoes
    <3>4. Cardinality(Undoing \cup {t}) = v + 1
      BY <1>4, <3>3, FS_AddElement
    <3>5. v + 1 <= Cardinality(Undoing')
      BY <1>4, <3>3, <3>4, FS_Subset
    <3>6. Cardinality(G1Waiters') = w
      BY <3>2
    <3> HIDE DEF g, w, v, a
    <3> QED
      BY <1>4, <1>5, <2>1, <3>5, <3>6 DEF g
  <2> QED
    BY <1>0, <2>5, <2>6
<1>8. CASE ~TakeSignal(t)
  <2>1. G1Signals' = G1Signals
    BY <1>0, <1>2, <1>8 DEF WaiterEffect, KeepSignals, G1Signals
  <2>2. G1Waiters' = G1Waiters
    BY <1>8, WaiterWaits
  <2>3. Cardinality(G1Waiters') = w /\ G1Signals' \div 2 = a
    BY <2>1, <2>2
  <2> HIDE DEF g, w, v, a
  <2> QED
    BY <1>4, <1>5, <1>6, <2>3 DEF g
<1> QED
  BY <1>7, <1>8

\* Nothing is left to give to a G1 that is being closed or is gone.
LEMMA ClosingGivesNothing ==
  ASSUME Types, GroupInv, Flipping \/ Closing PROVE cond.g_size[G1] = 0
<1>1. CASE Flipping
  <2>1. PICK s \in Signalers : pc[s] \in {"q_reopen", "q_flip"}
    BY <1>1 DEF GroupInv
  <2>2. /\ cond.g_size[G(s)] = 0 /\ cond.g_size[_GAnother(G(s))] = 0 /\ G(s) = _G2(cond.g1_start)
    BY <2>1 DEF GroupInv, HolderInv
  <2>3. G1 = G(s)
    BY <1>1, <2>2, GroupTypes DEF Flipping, G1, _GAnother
  <2> QED
    BY <2>2, <2>3
<1>2. CASE Closing
  <2>1. PICK s \in Signalers : pc[s] \in ClosingPCs
    BY <1>2 DEF Closing
  <2> QED
    BY <2>1 DEF ClosingPCs, GroupInv, HolderInv
<1> QED
  BY <1>1, <1>2

\* What is not given yet is counted in signals.
LEMMA UngivenBounds ==
  ASSUME Types
  PROVE  /\ Ungiven \in Nat /\ Ungiven <= cond.g_size[G1]
         /\ (\E s \in Signalers : Posting(s)) => Ungiven = 0
<1>1. cond.g_size[G1] \in Nat
  BY GroupTypes, Width DEF Word32
<1> QED
  BY <1>1 DEF Ungiven

\* A waiter that ends its wait takes one wakeup off what is owed; with nothing owed,
\* the waiters that remain are still as many as G1 is to be given.
LEMMA OwedWaiter ==
  ASSUME Known, StayInv, OwedInv, GivenInv',
         NEW t \in Waiters, ClientLock(t) \/ WaitSeq(t) \/ WaitStep(t)
  PROVE  OwedInv'
<1>0. /\ WaiterEffect(t) /\ Types /\ GroupInv /\ Signalers \subseteq Threads
      /\ t \notin Signalers /\ credit \in Nat
  BY WaiterSteps, CondAssumption DEF Known, Types
<1>1. /\ pc[t] \in EarlyPCs \cup OutPCs => loc[t].ctl # "done"
      /\ WaiterLeaves(t) \/ WaiterRemains(t)
  BY <1>0, WaiterStays DEF StayInv, Known, MemberInv
<1>2. /\ G1' = G1 /\ Flipping' = Flipping /\ cond'.g_size = cond.g_size /\ End' = End
  BY <1>0, WaiterGroups
<1>3. \A s \in Signalers : pc'[s] = pc[s] /\ loc'[s] = loc[s]
  BY <1>0 DEF WaiterEffect, KeepOthers
<1>4. /\ Closing' = Closing /\ Signaling' = Signaling /\ Ungiven' = Ungiven
      /\ \A s \in Signalers : Coming(s)' = Coming(s)
  <2>1. \A s \in Signalers : Coming(s)' = Coming(s) /\ Posting(s)' = Posting(s)
    BY <1>2, <1>3 DEF Coming, Posting
  <2>2. Closing' = Closing
    BY <1>3 DEF Closing
  <2>3. Signaling' = Signaling
    BY <1>3, <2>1 DEF Signaling, Owes
  <2>4. Ungiven' = Ungiven
    BY <1>2, <2>1 DEF Ungiven
  <2> QED
    BY <2>1, <2>2, <2>3, <2>4
<1> SUFFICES ASSUME \A s \in Signalers : ~(loc[s].ctl = "broadcast" /\ Coming(s))
             PROVE  credit' + Ungiven <= Cardinality(Reached') + Cardinality(Signaling)
  BY <1>3, <1>4 DEF OwedInv
<1> DEFINE r == Cardinality(Reached)
           q == Cardinality(Signaling)
           e == Ungiven
<1>5. r \in Nat /\ q \in Nat /\ e \in Nat /\ Cardinality(Reached') \in Nat /\ IsFiniteSet(Reached)
  BY <1>0, StayFinite, StayFiniteNext, UngivenBounds
<1>6. credit + e <= r + q
  BY DEF OwedInv
<1>7. CASE WaiterRemains(t)
  <2>1. credit' = credit /\ Reached' = Reached
    BY <1>0, <1>1, <1>7, WaiterCounts DEF WaiterRemains
  <2> QED
    BY <1>6, <2>1
<1>8. CASE WaiterLeaves(t)
  <2>1. /\ credit' = IF credit > 0 THEN credit - 1 ELSE 0
        /\ Reached' = Reached \ {t}
    BY <1>0, <1>1, <1>8, WaiterCounts DEF WaiterLeaves, Released
  <2>2. CASE credit > 0
    <3>1. Cardinality(Reached') >= r - 1
      <4>1. t \in Reached => Cardinality(Reached') = r - 1
        BY <1>5, <2>1, FS_RemoveElement
      <4>2. t \notin Reached => Reached' = Reached
        BY <2>1
      <4>3. t \notin Reached => Cardinality(Reached') = r
        BY <4>2
      <4> HIDE DEF r
      <4> QED
        BY <1>5, <4>1, <4>3
    <3> HIDE DEF r, q, e
    <3> QED
      BY <1>0, <1>5, <1>6, <2>1, <2>2, <3>1 DEF e, q
  <2>3. CASE ~(credit > 0)
    <3>1. e <= cond.g_size[G1] /\ cond.g_size[G1] \in Nat
      BY <1>0, UngivenBounds, GroupTypes, Width DEF Word32
    <3>2. e <= Cardinality(Reached')
      <4>1. CASE Flipping \/ Closing
        BY <1>0, <1>5, <3>1, <4>1, ClosingGivesNothing
      <4>2. CASE ~Flipping /\ ~Closing
        <5>1. G1Signals' \div 2 \in Nat
          <6>1. Types' => G1 \in {0, 1} /\ cond'.g_signals[G1] \in Word32
            BY <1>0, <1>2, GroupTypes, CondFields DEF WaiterEffect, Types, Word32
          <6> QED
            BY <1>0, <1>2, <6>1, SignalArithmetic DEF WaiterEffect, G1Signals
        <5>2. G1Signals' \div 2 + cond.g_size[G1] <= Cardinality(G1Waiters')
          BY <1>2, <1>4, <4>2 DEF GivenInv
        <5>3. Cardinality(G1Waiters') \in Nat /\ Cardinality(G1Waiters') <= Cardinality(Reached')
          <6>1. G1Waiters' \subseteq Reached'
            <7>1. Start \in Nat /\ End \in Nat /\ Start' = Start
              BY <1>0, GroupTypes, WaiterGroups
            <7> QED
              BY <1>2, <7>1 DEF G1Waiters, Reached
          <6> QED
            BY <6>1, StayFiniteNext, FS_Subset
        <5> QED
          BY <1>5, <3>1, <5>1, <5>2, <5>3
      <4> QED
        BY <4>1, <4>2
    <3>3. credit' = 0
      BY <2>1, <2>3
    <3> HIDE DEF r, q, e
    <3> QED
      BY <1>5, <3>2, <3>3 DEF e, q
  <2> QED
    BY <2>2, <2>3
<1> QED
  BY <1>1, <1>7, <1>8

\* A waiter that goes to sleep found no signal; one that takes a signal leaves one
\* fewer to be taken.
LEMMA WakeWaiter ==
  ASSUME Known, StayInv, FlagInv, CleanInv, WakeInv,
         NEW t \in Waiters, ClientLock(t) \/ WaitSeq(t) \/ WaitStep(t), ~UndoAdd(t)
  PROVE  WakeInv'
<1>0. /\ WaiterEffect(t) /\ Types /\ GroupInv /\ PositionInv /\ BlockInv
      /\ Signalers \subseteq Threads /\ Waiters \subseteq Threads
      /\ t \notin Signalers /\ G1 \in {0, 1} /\ G(t) \in {0, 1} /\ t \in Threads
      /\ asleep \in [Threads -> Words \cup {NoWord}] /\ pc \in [Threads -> Places]
  BY WaiterSteps, CondAssumption, GroupTypes, LocFields DEF Known, Types, G
<1>1. /\ \A s \in Signalers : pc'[s] = pc[s] /\ loc'[s] = loc[s] /\ G(s)' = G(s)
      /\ \A u \in Waiters : u # t => asleep'[u] \in {asleep[u], NoWord}
  BY <1>0 DEF WaiterEffect, KeepOthers, BlockOnGroup, FutexWait, G
<1>2. G1' = G1 /\ Flipping' = Flipping
  BY <1>0, WaiterGroups
<1>3. /\ Closing' = Closing /\ Wakers' = Wakers
      /\ \A s \in Signalers : WillWake(s)' = WillWake(s)
  BY <1>1, <1>2 DEF Closing, Wakers, WillWake
<1> SUFFICES ASSUME ~Flipping, ~Closing, NEW u \in Waiters, asleep'[u] = sig(G1),
                    \A s \in Signalers : ~(loc[s].ctl = "broadcast" /\ WillWake(s))
             PROVE  G1Signals' \div 2 <= Cardinality(Wakers) + Cardinality(AwakeG1')
  BY <1>1, <1>2, <1>3 DEF WakeInv
<1> DEFINE k == Cardinality(Wakers)
           w == Cardinality(AwakeG1)
           a == G1Signals \div 2
<1>4. /\ k \in Nat /\ w \in Nat /\ a \in Nat /\ Cardinality(AwakeG1') \in Nat
      /\ IsFiniteSet(AwakeG1) /\ IsFiniteSet(AwakeG1')
  <2>1. G1Signals \in Word32
    BY <1>0, CondFields DEF Types, Word32, G1Signals
  <2>2. a \in Nat
    BY <2>1, SignalArithmetic
  <2> QED
    BY <2>2, StayFinite, StayFiniteNext
<1>5. sig(0) # sig(1) /\ sig(G1) # NoWord
  BY <1>0, CondAssumption, FutexAssumption DEF sig
\* A waiter that falls asleep on G1 finds no signal there.
<1>6. CASE asleep'[t] = sig(G1) /\ asleep[t] # sig(G1)
  <2>1. BlockOnGroup(t)
    BY <1>0, <1>5, <1>6 DEF WaiterEffect
  <2>2. Signals(t) = 0 /\ asleep'[t] = sig(G(t)) /\ ~TakeSignal(t) /\ KeepSignals
    <3>1. Signals(t) = 0 /\ asleep'[t] = sig(G(t))
      BY <1>0, <1>6, <2>1 DEF BlockOnGroup, FutexWait
    <3>2. KeepSignals
      BY <2>1 DEF BlockOnGroup, OnlyFutex, KeepSignals
    <3> QED
      BY <2>1, <3>1, <3>2 DEF BlockOnGroup, TakeSignal, Goto
  <2>3. G(t) = G1
    BY <1>0, <1>5, <1>6, <2>2 DEF sig
  <2>4. G1Signals' = 0
    BY <1>2, <2>2, <2>3 DEF G1Signals, Signals, KeepSignals
  <2>5. G1Signals' \div 2 = 0
    BY <2>4
  <2> QED
    BY <1>4, <2>5
<1>7. CASE ~(asleep'[t] = sig(G1) /\ asleep[t] # sig(G1))
  <2>1. \E x \in Waiters : asleep[x] = sig(G1)
    BY <1>1, <1>5, <1>7
  <2>2. a <= k + w
    BY <2>1 DEF WakeInv
  <2>3. CASE TakeSignal(t)
    <3>1. G1Signals' \div 2 = a - 1 /\ G1Waiters' = G1Waiters \ {t}
      BY <2>3, WaiterTakes, WaiterWaits
    <3>2. AwakeG1 \ {t} \subseteq AwakeG1'
      BY <1>0, <1>1, <3>1 DEF AwakeG1, Awake, G1Waiters, Staying
    <3>3. Cardinality(AwakeG1 \ {t}) <= Cardinality(AwakeG1')
      BY <1>4, <3>2, FS_Subset
    <3>4. Cardinality(AwakeG1 \ {t}) \in Nat /\ Cardinality(AwakeG1 \ {t}) >= w - 1
      <4>1. t \in AwakeG1 => Cardinality(AwakeG1 \ {t}) = w - 1
        BY <1>4, FS_RemoveElement
      <4>2. t \notin AwakeG1 => AwakeG1 \ {t} = AwakeG1
        OBVIOUS
      <4>3. t \notin AwakeG1 => Cardinality(AwakeG1 \ {t}) = w
        BY <4>2
      <4>4. IsFiniteSet(AwakeG1 \ {t})
        BY <1>4, FS_Subset
      <4>5. Cardinality(AwakeG1 \ {t}) \in Nat
        BY <4>4, FS_CardinalityType
      <4> HIDE DEF w
      <4> QED
        BY <1>4, <4>1, <4>3, <4>5
    <3> HIDE DEF k, w, a
    <3> QED
      BY <1>4, <2>2, <3>1, <3>3, <3>4 DEF k
  <2>4. CASE ~TakeSignal(t)
    <3>1. G1Signals' = G1Signals /\ G1Waiters' = G1Waiters
      BY <1>0, <1>2, <2>4, WaiterWaits DEF WaiterEffect, KeepSignals, G1Signals
    <3>2. t \in G1Waiters /\ Awake(t) => asleep'[t] = NoWord
      <4> SUFFICES ASSUME t \in G1Waiters, asleep[t] = NoWord, asleep'[t] # NoWord PROVE FALSE
        BY DEF Awake
      <4>1. BlockOnGroup(t)
        BY <1>0 DEF WaiterEffect
      <4>2. /\ Signals(t) = 0 /\ asleep'[t] = sig(G(t)) /\ pc[t] = "futex"
        BY <1>0, <4>1 DEF BlockOnGroup, FutexWait, Goto
      <4>3. G(t) = G1
        BY <1>0, <4>2 DEF G1Waiters, PositionInv, WaitingPCs
      <4> QED
        BY <1>5, <1>7, <4>2, <4>3
    <3>3. CASE AwakeG1 \subseteq AwakeG1'
      <4>1. w <= Cardinality(AwakeG1')
        BY <1>4, <3>3, FS_Subset
      <4>2. G1Signals' \div 2 = a
        BY <3>1
      <4> HIDE DEF k, w, a
      <4> QED
        BY <1>4, <2>2, <4>1, <4>2 DEF k
    <3> QED
      BY <1>0, <1>1, <3>1, <3>2, <3>3 DEF AwakeG1, Awake, G1Waiters, Staying
  <2> QED
    BY <2>3, <2>4
<1> QED
  BY <1>6, <1>7

-----------------------------------------------------------------------------
\* The switch makes the members of G2 the waiters of the new G1, which has no
\* signal yet and is owed one for each.
LEMMA SwitchCounts ==
  ASSUME Known, CleanInv, NEW s \in Signalers, SwitchGroups(s)
  PROVE  /\ G1Waiters' = Members /\ Reached' = Staying /\ Staying = Reached \cup Members
         /\ Reached \cap Members = {} /\ G1Signals' = 0
         /\ cond'.g_size[G1'] = Cardinality(Members) /\ pc'[s] = "post" /\ ~Flipping'
<1>0. /\ Types /\ PlaceInv /\ GroupInv /\ SmallGroups /\ PositionInv /\ MemberInv
      /\ Start \in Nat /\ End \in Nat /\ Position \in Nat /\ End <= Position /\ cond \in CondType
      /\ Waiters \subseteq Threads /\ \A t \in Waiters : loc[t].seq \in Nat
  BY CondAssumption, GroupTypes, EndBound, LocFields DEF Known, Types
<1>1. /\ End' = Position /\ Start' = Start /\ G1' = _G2(cond.wseq) /\ End = Start
      /\ cond'.g_size[G1'] = Position - End /\ pc'[s] = "post" /\ ~Flipping'
  BY <1>0, GroupSwitch
<1>2. \A t \in Waiters : pc'[t] = pc[t] /\ loc'[t] = loc[t]
  <2>1. SignalStep(s)
    BY DEF SignalStep
  <2> QED
    BY <1>0, <2>1, SignalerSpares
<1>3. Staying' = Staying
  BY <1>2 DEF Staying
<1>4. \A t \in Waiters : pc[t] \in MemberPCs => loc[t].seq < Position
  BY <1>0 DEF PositionInv, WaitingPCs, MemberPCs
<1>5. Staying = Reached \cup Members /\ Reached \cap Members = {}
  <2>1. \A t \in Waiters : loc[t].seq < End \/ loc[t].seq >= End
    BY <1>0
  <2>2. \A t \in Waiters : ~(loc[t].seq < End /\ loc[t].seq >= End)
    BY <1>0
  <2> QED
    BY <1>0, <2>1, <2>2 DEF Staying, Reached, Members, MemberInv
<1>6. Reached' = Staying
  BY <1>1, <1>2, <1>3, <1>4 DEF Reached, Staying
<1>7. G1Waiters' = Members
  <2>1. \A t \in Waiters : pc[t] \in MemberPCs =>
          (loc[t].seq \in Start..(Position - 1) <=> loc[t].seq >= End)
    BY <1>0, <1>1, <1>4
  <2>2. \A t \in Waiters : t \in Members => loc[t].ctl # "done"
    BY <1>0 DEF MemberInv
  <2>3. G1Waiters' = {t \in Staying : loc[t].seq \in Start..(Position - 1)}
    BY <1>1, <1>2, <1>3 DEF G1Waiters, Staying
  <2> QED
    BY <2>1, <2>2, <2>3 DEF Staying, Members
<1>8. G1Signals' = 0
  <2>1. KeepSignals
    BY <1>0 DEF SwitchGroups, KeepSignals, CondType
  <2> QED
    BY <1>1, <2>1 DEF G1Signals, G2Signals, CleanInv, KeepSignals
<1> QED
  BY <1>1, <1>5, <1>6, <1>7, <1>8 DEF CleanInv

\* No signal given to G1 is lost in the width of its word.
LEMMA GiveSum ==
  ASSUME FewThreads, Known, FlagInv, GivenInv, NEW s \in Signalers, BroadcastG1(s) \/ Post(s)
  PROVE  \E k \in Nat :
           /\ G1Signals \div 2 \in Nat /\ G1Signals' \div 2 = G1Signals \div 2 + k
           /\ cond'.g_size[G1] = cond.g_size[G1] - k
           /\ IF pc[s] = "post" /\ loc[s].ctl = "signal" THEN k = 1
              ELSE k = cond.g_size[G1]
<1>0. /\ Types /\ GroupInv /\ G1 \in {0, 1} /\ cond'.g_size[G1] \in Nat /\ cond.g_size[G1] \in Nat
      /\ G1Signals \in Word32
  <2>1. SignalStep(s) /\ Types
    BY DEF SignalStep, Known
  <2>2. Types' /\ G1 \in {0, 1}
    BY <2>1, SignalerSteps, GroupTypes DEF SignalerEffect
  <2>3. \A i \in {0, 1} : cond'.g_size[i] \in Nat
    BY <2>2, CondFields, Width DEF Types
  <2> QED
    BY <2>1, <2>2, <2>3, CondFields, Width DEF Known, Types, Word32, G1Signals
<1>1. ~Flipping /\ ~Closing
  BY GiveStep
<1>2. PICK k \in Word32 : /\ G1Signals' = (G1Signals + 2 * k) % U32
                         /\ cond'.g_size[G1] = cond.g_size[G1] - k
                         /\ IF pc[s] = "post" /\ loc[s].ctl = "signal" THEN k = 1
                            ELSE k = cond.g_size[G1]
  BY GiveStep
<1>3. PICK w \in Word32 : w = G1Signals
  BY <1>0
<1> DEFINE n == Cardinality(Waiters)
<1>4. w \div 2 + k <= n /\ n \in Nat /\ w \div 2 \in Nat
  <2>1. k \in Nat /\ k <= cond.g_size[G1]
    BY <1>0, <1>2, Width DEF Word32
  <2>2. w \div 2 \in Nat
    BY <1>3, SignalArithmetic
  <2>3. w \div 2 + cond.g_size[G1] <= Cardinality(G1Waiters)
    BY <1>1, <1>3 DEF GivenInv
  <2>4. Cardinality(G1Waiters) <= n /\ n \in Nat /\ Cardinality(G1Waiters) \in Nat
    <3>1. G1Waiters \subseteq Waiters
      BY DEF G1Waiters, Staying
    <3> QED
      BY <3>1, CountsFinite, StayFinite, FS_Subset
  <2> HIDE DEF n
  <2> QED
    BY <1>0, <2>1, <2>2, <2>3, <2>4
<1>5. w + 2 * k < U32
  <2>1. w % 2 = 0
    <3>1. ~Closed(w)
      BY <1>1, <1>3 DEF FlagInv
    <3> QED
      BY <3>1, Width DEF Closed, Word32
  <2>2. 24 * n < U32
    BY DEF FewThreads
  <2> HIDE DEF n
  <2>3. w = 2 * (w \div 2)
    BY <2>1, Width DEF Word32
  <2> QED
    BY <1>4, <2>2, <2>3, Width DEF Word32
<1>6. ((w + 2 * k) % U32) \div 2 = w \div 2 + k
  BY <1>5, EvenSum
<1>7. k \in Nat
  BY Width DEF Word32
<1> QED
  BY <1>2, <1>3, <1>4, <1>6, <1>7

\* Signals move from the size of G1 to its word, and only the switch adds waiters.
LEMMA GivenSignaler ==
  ASSUME FewThreads, Known, FlagInv, CleanInv, GivenInv,
         NEW s \in Signalers, SignalerCall(s) \/ SignalStep(s) \/ DestroyStep(s)
  PROVE  GivenInv'
<1>0. /\ s \in Threads /\ pc \in [Threads -> Places] /\ Types /\ PlaceInv /\ GroupInv
      /\ SignalerEffect(s) /\ SmallGroups /\ G(s) \in {0, 1} /\ cond \in CondType
      /\ Start \in Nat /\ End \in Nat /\ G1 \in {0, 1} /\ 0 \in Word32
  BY SignalerValues, SignalerSteps, GroupTypes DEF Known, Types
<1>1. /\ \A t \in Waiters : pc'[t] = pc[t] /\ loc'[t] = loc[t] /\ G(t)' = G(t)
      /\ Staying' = Staying
  BY <1>0, SignalerSpares
<1>2. ASSUME Start' = Start, End' = End, G1' = G1, cond'.g1_start = cond.g1_start
      PROVE  G1Waiters' = G1Waiters /\ Undoing' = Undoing
  BY <1>1, <1>2 DEF G1Waiters, Staying, Undoing
<1>3. CASE KeepGroups /\ KeepSignals /\ ~AdvanceG1Start(s)
  <2>1. /\ Start' = Start /\ End' = End /\ G1' = G1 /\ cond'.g1_start = cond.g1_start
        /\ Flipping' = Flipping /\ cond'.g_size = cond.g_size /\ G1Signals' = G1Signals
    BY <1>3, GroupsKept DEF KeepGroups, KeepSignals, G1Signals
  <2>2. Closing => Closing'
    BY <1>0, <1>3, ClosingKept
  <2>3. G1Waiters' = G1Waiters /\ Undoing' = Undoing
    BY <1>2, <2>1
  <2> QED
    BY <2>1, <2>2, <2>3 DEF GivenInv
<1>4. CASE BroadcastG1(s) \/ Post(s)
  <2>1. /\ ~Flipping /\ ~Closing /\ Start' = Start /\ End' = End /\ G1' = G1
        /\ cond'.g1_start = cond.g1_start
    BY <1>4, GiveStep
  <2>2. G1Waiters' = G1Waiters /\ Undoing' = Undoing
    BY <1>2, <2>1
  <2>3. PICK k \in Nat : /\ G1Signals \div 2 \in Nat /\ G1Signals' \div 2 = G1Signals \div 2 + k
                         /\ cond'.g_size[G1] = cond.g_size[G1] - k
    BY <1>4, GiveSum
  <2>4. cond.g_size[G1] \in Nat
    BY <1>0, GroupTypes, Width DEF Word32
  <2>5. G1Signals' \div 2 + cond'.g_size[G1] = G1Signals \div 2 + cond.g_size[G1]
    BY <2>3, <2>4
  <2> QED
    BY <2>1, <2>2, <2>5 DEF GivenInv
<1>5. CASE CloseG1(s)
  <2>1. pc'[s] = "q_refs"
    BY <1>0, <1>5 DEF CloseG1, Goto
  <2> QED
    BY <2>1 DEF GivenInv, Closing, ClosingPCs
<1>6. CASE ReopenSlot(s)
  <2>1. pc[s] = "q_reopen" /\ cond' = [cond EXCEPT !.g_signals[G(s)] = 0]
    BY <1>0, <1>6 DEF ReopenSlot, Goto, OnlyCond
  <2>2. KeepGroups
    BY <1>0, <2>1, SetSignals
  <2>3. Flipping'
    BY <1>0, <2>1, <2>2, GroupsKept DEF GroupInv
  <2> QED
    BY <2>3 DEF GivenInv
<1>7. CASE AdvanceG1Start(s)
  <2>1. GroupInv' /\ pc'[s] = "q_reopen"
    BY <1>0, <1>7, GroupAdvance DEF AdvanceG1Start, Goto
  <2> QED
    BY <2>1 DEF GroupInv, GivenInv
<1>8. CASE SwitchGroups(s)
  <2>1. /\ G1Waiters' = Members /\ G1Signals' = 0 /\ cond'.g_size[G1'] = Cardinality(Members)
    BY <1>8, SwitchCounts
  <2>2. Cardinality(Members) \in Nat /\ Cardinality(Undoing') \in Nat
    BY CountsFinite, StayFiniteNext
  <2>3. G1Signals' \div 2 = 0
    BY <2>1
  <2> QED
    BY <2>1, <2>2, <2>3 DEF GivenInv
<1> QED
  BY <1>0, <1>3, <1>4, <1>5, <1>6, <1>7, <1>8 DEF SignalerEffect

-----------------------------------------------------------------------------
\* One more or one less that owes a signal.
LEMMA SignalingStep ==
  ASSUME NEW s \in Signalers, \A u \in Signalers : u # s => (Owes(u)' <=> Owes(u))
  PROVE  Cardinality(Signaling') = Cardinality(Signaling) + (IF Owes(s)' THEN 1 ELSE 0)
                                                          - (IF Owes(s) THEN 1 ELSE 0)
<1>1. /\ IsFiniteSet(Signaling) /\ IsFiniteSet(Signaling') /\ Cardinality(Signaling) \in Nat
      /\ Cardinality(Signaling') \in Nat
  BY StayFinite, StayFiniteNext
<1>2. CASE Owes(s) <=> Owes(s)'
  <2>1. Signaling' = Signaling
    BY <1>2 DEF Signaling
  <2> QED
    BY <1>1, <1>2, <2>1
<1>3. CASE Owes(s) /\ ~Owes(s)'
  <2>1. Signaling' = Signaling \ {s} /\ s \in Signaling
    BY <1>3 DEF Signaling
  <2>2. Cardinality(Signaling') = Cardinality(Signaling) - 1
    BY <1>1, <2>1, FS_RemoveElement
  <2> QED
    BY <1>1, <1>3, <2>2
<1>4. CASE ~Owes(s) /\ Owes(s)'
  <2>1. Signaling' = Signaling \cup {s} /\ s \notin Signaling
    BY <1>4 DEF Signaling
  <2>2. Cardinality(Signaling') = Cardinality(Signaling) + 1
    BY <1>1, <2>1, FS_AddElement
  <2> QED
    BY <1>1, <1>4, <2>2
<1> QED
  BY <1>2, <1>3, <1>4

\* A step after which the calls owe as much as before, to as many waiters.
LEMMA OwedStands ==
  ASSUME Types, Types', OwedInv, NEW s \in Signalers,
         SignalerCall(s) \/ SignalStep(s) \/ DestroyStep(s),
         End' = End, G1' = G1, cond'.g_size[G1] <= cond.g_size[G1], credit' <= credit,
         Owes(s)' <=> Owes(s), Posting(s) => Posting(s)' \/ Ungiven' = 0,
         loc[s].ctl = "broadcast" /\ Coming(s) => loc'[s].ctl = "broadcast" /\ Coming(s)'
  PROVE  OwedInv'
<1>1. /\ \A t \in Waiters : pc'[t] = pc[t] /\ loc'[t] = loc[t]
      /\ \A u \in Signalers : u # s => pc'[u] = pc[u] /\ loc'[u] = loc[u]
      /\ Staying' = Staying
  BY SignalerSpares
<1>2. \A u \in Signalers : u # s => /\ Coming(u)' <=> Coming(u)
                                    /\ Owes(u)' <=> Owes(u)
                                    /\ Posting(u)' <=> Posting(u)
  BY <1>1 DEF Coming, Owes, Posting
<1>3. Signaling' = Signaling
  BY <1>2 DEF Signaling
<1>4. Reached' = Reached
  BY <1>1 DEF Reached, Staying
<1>5. Ungiven' <= Ungiven /\ Ungiven \in Nat /\ Ungiven' \in Nat
  <2>1. Ungiven \in Nat /\ Ungiven' \in Nat
    <3>1. G1 \in {0, 1} /\ G1' \in {0, 1}
      BY GroupTypes
    <3>2. cond.g_size[G1] \in Nat /\ cond'.g_size[G1'] \in Nat
      BY <3>1, CondFields, Width DEF Types
    <3> QED
      BY <3>2 DEF Ungiven
  <2>2. CASE Ungiven' = 0
    BY <2>1, <2>2
  <2>3. CASE Ungiven' # 0
    <3>1. ~\E u \in Signalers : Posting(u)'
      BY <2>3 DEF Ungiven
    <3>2. ~\E u \in Signalers : Posting(u)
      BY <1>2, <2>3, <3>1
    <3>3. Ungiven' = cond'.g_size[G1'] /\ Ungiven = cond.g_size[G1]
      BY <3>1, <3>2 DEF Ungiven
    <3> QED
      BY <2>1, <3>3
  <2> QED
    BY <2>2, <2>3
<1>6. ASSUME \A u \in Signalers : ~(loc'[u].ctl = "broadcast" /\ Coming(u)')
      PROVE  credit' + Ungiven' <= Cardinality(Reached') + Cardinality(Signaling')
  <2>1. \A u \in Signalers : ~(loc[u].ctl = "broadcast" /\ Coming(u))
    BY <1>1, <1>2, <1>6
  <2>2. credit + Ungiven <= Cardinality(Reached) + Cardinality(Signaling)
    BY <2>1 DEF OwedInv
  <2>3. credit \in Nat /\ credit' \in Nat
    BY DEF Types
  <2> QED
    BY <1>3, <1>4, <1>5, <2>2, <2>3, StayFinite
<1> QED
  BY <1>6 DEF OwedInv

\* A call of broadcast that has reached every waiter there is.
LEMMA OwedAll ==
  ASSUME StayInv', Reached' = Staying', Ungiven' = 0, credit' \in Nat
  PROVE  OwedInv'
<1>1. Cardinality(Blocked') <= Cardinality(Staying')
  <2>1. Blocked' \subseteq Staying'
    BY DEF Blocked, BlockedPCs, Staying, MemberPCs
  <2> QED
    BY <2>1, StayFiniteNext, FS_Subset
<1>2. credit' <= Cardinality(Blocked')
  BY DEF StayInv
<1> QED
  BY <1>1, <1>2, StayFiniteNext DEF OwedInv

\* The steps that neither begin nor fulfil what a call owes.
LEMMA OwedQuiet ==
  ASSUME Known, CallInv, OwedInv, NEW s \in Signalers,
         SignalStep(s) \/ DestroyStep(s) \/ CallDestroy(s),
         ~(LoadSeq(s) \/ BroadcastG1(s) \/ CheckG2(s) \/ SwitchGroups(s) \/ Post(s)),
         CallDestroy(s) => SignalerCall(s)
  PROVE  OwedInv'
<1>0. /\ s \in Threads /\ pc \in [Threads -> Places] /\ Types /\ GroupInv /\ SignalerEffect(s)
      /\ PlaceInv /\ SmallGroups /\ G1 \in {0, 1} /\ cond \in CondType
      /\ SignalerCall(s) \/ SignalStep(s) \/ DestroyStep(s)
  BY SignalerValues, SignalerSteps, GroupTypes DEF Known, Types
<1>1. End' = End /\ G1' = G1 /\ cond'.g_size = cond.g_size
  <2>1. CASE KeepGroups
    BY <2>1, GroupsKept DEF KeepGroups
  <2>2. CASE AdvanceG1Start(s)
    <3>1. End' = End /\ _G2(cond.wseq)' = _G2(cond.wseq)
      BY <1>0, <2>2, GroupAdvance
    <3>2. cond'.g_size = cond.g_size
      BY <1>0, <2>2 DEF AdvanceG1Start, CondType
    <3> QED
      BY <3>1, <3>2 DEF G1
  <2> QED
    BY <1>0, <2>1, <2>2 DEF SignalerEffect
<1>2. credit' = credit
  <2>1. \A call : ~CallWake(s, call) /\ ~CallWakeNobody(s, call)
    <3>1. SignalStep(s) \/ DestroyStep(s) => pc[s] # "user"
      BY DEF SignalStep, DestroyStep, InnerLock, LoadSeq, BroadcastG1, BroadcastWakeG1, CheckG2,
         CloseG1, LoadRefs, RequestWake, WaitRefs, AdvanceG1Start, ReopenSlot, SwitchGroups,
         Post, InnerUnlock, WakeG1, DestroyWait, DestroyReload, DestroyReturn, Goto
    <3>2. CallDestroy(s) => credit' = credit /\ pc'[s] = "d_test"
      BY <1>0 DEF CallDestroy, history, Goto
    <3> QED
      BY <1>0, <3>1, <3>2 DEF CallWake, CallWakeNobody, Goto
  <2> QED
    BY <1>0, <2>1, SignalerCredit
<1> DEFINE early == {"s_lock", "s_seq"} \cup SwitchPCs
<1>3. \/ pc[s] \in early /\ pc'[s] \in early
      \/ pc[s] = "b_wake" /\ pc'[s] = "q_check" /\ loc' = loc
      \/ /\ pc[s] \in {"user", "s_unlock", "s_wake", "d_test", "d_load"}
         /\ pc'[s] \in {"user", "s_unlock", "s_wake", "d_test", "d_load"}
  <2> USE DEF Goto, SwitchPCs, ClosingPCs
  <2>1. CASE CallDestroy(s)
    BY <1>0, <2>1 DEF CallDestroy
  <2>2. CASE DestroyStep(s)
    BY <1>0, <2>2 DEF DestroyStep, DestroyWait, DestroyReload, DestroyReturn
  <2>3. CASE InnerLock(s) \/ LoadRefs(s) \/ InnerUnlock(s) \/ WakeG1(s)
    BY <1>0, <2>3 DEF InnerLock, LoadRefs, InnerUnlock, WakeG1
  <2>4. CASE BroadcastWakeG1(s) \/ CloseG1(s) \/ WaitRefs(s) \/ AdvanceG1Start(s) \/ ReopenSlot(s)
    BY <1>0, <2>4 DEF BroadcastWakeG1, CloseG1, WaitRefs, AdvanceG1Start, ReopenSlot, OnlyFutex
  <2>5. CASE RequestWake(s)
    <3>1. \E p \in {"q_refs", "q_wait"} : Goto(s, "q_flag", p)
      BY <2>5 DEF RequestWake
    <3> QED
      BY <1>0, <3>1
  <2> QED
    BY <2>1, <2>2, <2>3, <2>4, <2>5 DEF SignalStep
<1>4. /\ Coming(s)' <=> Coming(s)
      /\ Owes(s)' <=> Owes(s)
      /\ ~Posting(s) /\ (Coming(s) => loc'[s].ctl = loc[s].ctl)
  <2> USE DEF SwitchPCs, ClosingPCs
  <2>1. CASE pc[s] \in early /\ pc'[s] \in early
    <3>1. SignalStep(s) \/ DestroyStep(s)
      BY <1>0, <2>1 DEF CallDestroy, Goto
    <3>2. loc'[s].ctl = loc[s].ctl
      BY <1>0, <2>1, <3>1, CallName
    <3> QED
      BY <2>1, <3>2 DEF Coming, Owes, Posting
  <2>2. CASE pc[s] = "b_wake" /\ pc'[s] = "q_check" /\ loc' = loc
    BY <1>1, <2>2 DEF Coming, Owes, Posting
  <2>3. CASE /\ pc[s] \in {"user", "s_unlock", "s_wake", "d_test", "d_load"}
             /\ pc'[s] \in {"user", "s_unlock", "s_wake", "d_test", "d_load"}
    BY <2>3 DEF Coming, Owes, Posting
  <2> QED
    BY <1>3, <2>1, <2>2, <2>3
<1>5. Types' /\ cond.g_size[G1] \in Nat /\ credit \in Nat
  BY <1>0, CondFields, Width DEF SignalerEffect, Types
<1>6. cond'.g_size[G1] <= cond.g_size[G1] /\ credit' <= credit
  BY <1>1, <1>2, <1>5
<1> QED
  BY <1>0, <1>1, <1>4, <1>5, <1>6, OwedStands

\* The first look at the groups: nothing comes after the waiters of G1, or the
\* call goes on to G1 or to G2.
LEMMA OwedLoad ==
  ASSUME Known, CallInv, OwedInv, StayInv', NEW s \in Signalers, LoadSeq(s)
  PROVE  OwedInv'
<1>0. /\ s \in Threads /\ pc \in [Threads -> Places] /\ Types /\ GroupInv /\ SignalerEffect(s)
      /\ PlaceInv /\ PositionInv /\ G1 \in {0, 1} /\ cond \in CondType
      /\ loc \in [Threads -> LocType] /\ loc[s] \in LocType /\ SignalStep(s)
      /\ \A i \in {0, 1} : cond.g_size[i] \in Nat
  <2>1. SignalStep(s) /\ Types
    BY DEF SignalStep, Known
  <2> QED
    BY <2>1, SignalerValues, SignalerSteps, GroupTypes, CondFields, Width DEF Known, Types
<1>1. /\ pc[s] = "s_seq" /\ cond' = cond /\ credit' = credit
      /\ loc' = [loc EXCEPT ![s].seq = Position, ![s].g = G1]
      /\ \/ pc'[s] = "q_check" /\ cond.g_size[G1] = 0
         \/ pc'[s] = "post" /\ loc[s].ctl = "signal"
         \/ pc'[s] = "b_post" /\ loc[s].ctl # "signal"
  BY <1>0 DEF LoadSeq, Goto, OnlyLocals, Position, G1, history
<1>2. loc'[s].seq = Position /\ loc'[s].ctl = loc[s].ctl
  <2>1. loc'[s] = [loc[s] EXCEPT !.seq = Position, !.g = G1]
    BY <1>0, <1>1
  <2> QED
    BY <1>0, <2>1 DEF LocType
<1>3. End' = End /\ Position' = Position /\ G1' = G1 /\ cond'.g_size = cond.g_size /\ Types'
      /\ End \in Nat /\ Position \in Nat /\ credit \in Nat
  <2>1. KeepGroups
    BY <1>1 DEF KeepGroups
  <2> QED
    BY <1>0, <1>1, <2>1, GroupsKept, GroupTypes DEF SignalerEffect, Types
<1>4. Coming(s) /\ ~Posting(s) /\ (Owes(s) <=> loc[s].ctl = "signal")
  BY <1>1 DEF Coming, Posting, Owes
<1>5. CASE pc'[s] = "post" \/ Position # End
  <2>1. /\ Owes(s)' <=> Owes(s)
        /\ loc[s].ctl = "broadcast" => loc'[s].ctl = "broadcast" /\ Coming(s)'
    BY <1>1, <1>2, <1>3, <1>4, <1>5 DEF Coming, Owes
  <2>2. cond'.g_size[G1] <= cond.g_size[G1] /\ credit' <= credit
    BY <1>0, <1>1, <1>3
  <2> QED
    BY <1>0, <1>3, <1>4, <2>1, <2>2, OwedStands
<1>6. CASE pc'[s] # "post" /\ Position = End
  <2>1. \A t \in Waiters : /\ pc'[t] = pc[t] /\ loc'[t] = loc[t]
                           /\ pc[t] \in MemberPCs => loc[t].seq < End
    BY <1>0, <1>6, SignalerSpares DEF PositionInv, MemberPCs, WaitingPCs
  <2>2. Reached' = Staying'
    BY <1>3, <2>1 DEF Reached, Staying
  <2>3. Ungiven' = 0
    <3>1. CASE pc'[s] = "b_post" /\ loc[s].ctl = "broadcast"
      BY <1>2, <3>1 DEF Ungiven, Posting
    <3>2. CASE cond.g_size[G1] = 0
      BY <1>3, <3>2 DEF Ungiven
    <3>3. loc[s].ctl \in {"signal", "broadcast"}
      BY <1>1 DEF CallInv, SignalPCs, DestroyPCs
    <3> QED
      BY <1>1, <1>6, <3>1, <3>2, <3>3
  <2>4. credit' \in Nat
    BY <1>1, <1>3
  <2> QED
    BY <2>2, <2>3, <2>4, OwedAll
<1> QED
  BY <1>5, <1>6

\* A signal given fulfils what its call owes, and all of them what a broadcast does.
LEMMA OwedGive ==
  ASSUME Known, CallInv, OwedInv, NEW s \in Signalers, BroadcastG1(s) \/ Post(s)
  PROVE  OwedInv'
<1>0. /\ s \in Threads /\ pc \in [Threads -> Places] /\ Types /\ GroupInv /\ PlaceInv /\ Types'
      /\ G1 \in {0, 1} /\ SignalStep(s) /\ credit \in Nat
      /\ cond.g_size[G1] \in Nat
  <2>1. SignalStep(s) /\ Types
    BY DEF SignalStep, Known
  <2>2. G1 \in {0, 1} /\ Types'
    BY <2>1, GroupTypes, SignalerSteps DEF SignalerEffect
  <2> QED
    BY <2>1, <2>2, SignalerValues, CondFields, Width DEF Known, Types
<1>1. /\ pc[s] \in {"b_post", "post"} /\ End' = End /\ G1' = G1
      /\ pc[s] = "post" => pc'[s] = "s_unlock"
      /\ pc[s] = "b_post" => pc'[s] = "b_wake" /\ loc' = loc
  BY GiveStep
<1>2. PICK k \in Word32 : /\ cond'.g_size[G1] = cond.g_size[G1] - k
                         /\ IF pc[s] = "post" /\ loc[s].ctl = "signal" THEN k = 1
                            ELSE k = cond.g_size[G1]
  BY GiveStep
<1>3. credit' = credit
  BY DEF BroadcastG1, Post, OnlyCond, history
<1>4. loc[s].ctl \in {"signal", "broadcast"} /\ (pc[s] = "b_post" => loc[s].ctl = "broadcast")
  BY <1>1 DEF CallInv, SignalPCs, DestroyPCs
<1>5. \A u \in Signalers : u # s => /\ pc'[u] = pc[u] /\ loc'[u] = loc[u]
                                    /\ pc[u] \notin {"b_post", "post"}
  <2>1. \A u \in Signalers : u # s => pc[u] \notin InnerPCs
    BY <1>0, <1>1, HolderAlone DEF InnerPCs
  <2> QED
    BY <1>0, <2>1, SignalerSpares DEF InnerPCs
<1>6. CASE loc[s].ctl = "broadcast"
  <2>1. cond'.g_size[G1'] = 0
    BY <1>0, <1>1, <1>2, <1>6
  <2>2. Ungiven' = 0
    BY <2>1 DEF Ungiven
  <2>3. Owes(s)' <=> Owes(s)
    <3>1. ~Owes(s)
      BY <1>6 DEF Owes
    <3>2. ~Owes(s)'
      BY <1>1, <1>6 DEF Owes, Coming, SwitchPCs, ClosingPCs
    <3> QED
      BY <3>1, <3>2
  <2>4. Coming(s) => loc'[s].ctl = "broadcast" /\ Coming(s)'
    BY <1>1, <1>6 DEF Coming, SwitchPCs, ClosingPCs
  <2>5. cond'.g_size[G1] <= cond.g_size[G1] /\ credit' <= credit
    BY <1>0, <1>1, <1>3, <2>1
  <2> QED
    BY <1>0, <1>1, <2>2, <2>3, <2>4, <2>5, OwedStands
<1>7. CASE loc[s].ctl = "signal"
  <2>1. pc[s] = "post" /\ pc'[s] = "s_unlock" /\ cond'.g_size[G1'] = cond.g_size[G1] - 1
    BY <1>1, <1>2, <1>4, <1>7
  <2>2. Owes(s) /\ ~Owes(s)' /\ ~Coming(s) /\ ~Coming(s)'
    BY <1>7, <2>1 DEF Owes, Coming, SwitchPCs, ClosingPCs
  <2>3. \A u \in Signalers : u # s => /\ Owes(u)' <=> Owes(u)
                                      /\ Coming(u)' <=> Coming(u)
    BY <1>1, <1>5 DEF Owes, Coming
  <2>4. Cardinality(Signaling') = Cardinality(Signaling) - 1
    <3>1. Cardinality(Signaling') = Cardinality(Signaling) + 0 - 1
      BY <2>2, <2>3, SignalingStep
    <3> QED
      BY <3>1, StayFinite
  <2>5. Ungiven = cond.g_size[G1] /\ Ungiven' = Ungiven - 1
    <3>1. \A u \in Signalers : ~Posting(u) /\ ~Posting(u)'
      <4>1. ~Posting(s) /\ ~Posting(s)'
        BY <1>7, <2>1 DEF Posting
      <4>2. \A u \in Signalers : u # s => ~Posting(u) /\ ~Posting(u)'
        BY <1>5 DEF Posting
      <4> QED
        BY <4>1, <4>2
    <3> QED
      BY <2>1, <3>1 DEF Ungiven
  <2>6. Reached' = Reached
    BY <1>0, <1>1, SignalerSpares DEF Reached, Staying
  <2>7. ASSUME \A u \in Signalers : ~(loc'[u].ctl = "broadcast" /\ Coming(u)')
        PROVE  credit' + Ungiven' <= Cardinality(Reached') + Cardinality(Signaling')
    <3>1. \A u \in Signalers : ~(loc[u].ctl = "broadcast" /\ Coming(u))
      BY <1>5, <2>2, <2>3, <2>7
    <3>2. credit + Ungiven <= Cardinality(Reached) + Cardinality(Signaling)
      BY <3>1 DEF OwedInv
    <3> QED
      BY <1>0, <1>3, <2>4, <2>5, <2>6, <3>2, StayFinite
  <2> QED
    BY <2>7 DEF OwedInv
<1> QED
  BY <1>4, <1>6, <1>7

\* The second look at the groups: G2 is empty exactly when no position was taken
\* since the first.
LEMMA OwedCheck ==
  ASSUME Known, OwedInv, NEW s \in Signalers, CheckG2(s)
  PROVE  OwedInv'
<1>0. /\ s \in Threads /\ pc \in [Threads -> Places] /\ Types /\ GroupInv /\ PlaceInv
      /\ G1 \in {0, 1} /\ SignalStep(s) /\ SmallGroups /\ credit \in Nat /\ Types'
      /\ cond.g_size[G1] \in Nat /\ loc[s].seq \in Nat /\ End \in Nat /\ Position \in Nat
      /\ Start \in Nat /\ Start <= End
  <2>1. SignalStep(s) /\ Types
    BY DEF SignalStep, Known
  <2>2. G1 \in {0, 1} /\ Types'
    BY <2>1, GroupTypes, SignalerSteps DEF SignalerEffect
  <2> QED
    BY <2>1, <2>2, SignalerValues, CondFields, LocFields, GroupTypes, EndBound, Width
       DEF Known, Types
<1>1. pc[s] = "q_check" /\ cond' = cond /\ credit' = credit
  BY DEF CheckG2, Goto, OnlyLocals, history
<1>2. ~Flipping /\ SteadyGroups /\ HolderInv(s)
  BY <1>0, <1>1, HolderFinds DEF InnerPCs
<1>3. /\ G(s) = G1 /\ cond.g_size[_GAnother(G(s))] = 0 /\ loc[s].seq \in End..Position
      /\ _Seq(cond.g1_start) + cond.orig_size = End
  BY <1>1, <1>2 DEF HolderInv, SteadyGroups, End, Start
<1>4. (loc[s].seq - End + 0) % U32 = 0 <=> loc[s].seq = End
  <2> DEFINE d == loc[s].seq - End
  <2>1. d \in 0..(U32 - 1) /\ (d = 0 <=> loc[s].seq = End)
    BY <1>0, <1>3, Width DEF SmallGroups
  <2>2. d % U32 = d /\ d + 0 = d
    BY <2>1, Mod32
  <2> HIDE DEF d
  <2>3. (d + 0) % U32 = d
    BY <2>2
  <2> QED
    BY <2>1, <2>3 DEF d
<1>5. pc'[s] = IF loc[s].seq = End THEN "s_unlock" ELSE "q_close"
  BY <1>0, <1>3, <1>4 DEF CheckG2, Goto
<1>6. loc'[s].ctl = loc[s].ctl
  BY <1>0, <1>5, CallName
<1>7. End' = End /\ G1' = G1 /\ cond'.g_size = cond.g_size
  <2>1. KeepGroups
    BY <1>1 DEF KeepGroups
  <2> QED
    BY <1>1, <2>1, GroupsKept
<1>8. /\ Owes(s)' <=> Owes(s)
      /\ Coming(s) => Coming(s)'
      /\ ~Posting(s)
  BY <1>1, <1>5, <1>6 DEF Owes, Coming, Posting, SwitchPCs, ClosingPCs
<1>9. cond'.g_size[G1] <= cond.g_size[G1] /\ credit' <= credit
  BY <1>0, <1>1, <1>7
<1> QED
  BY <1>0, <1>6, <1>7, <1>8, <1>9, OwedStands

\* The switch reaches every waiter there is: a signal has one to take, and a
\* broadcast gives to all.
LEMMA OwedSwitch ==
  ASSUME Known, CallInv, CleanInv, OwedInv, StayInv', NEW s \in Signalers, SwitchGroups(s)
  PROVE  OwedInv'
<1>0. /\ s \in Threads /\ pc \in [Threads -> Places] /\ Types /\ PlaceInv /\ Types'
      /\ SignalStep(s) /\ credit \in Nat
  <2>1. SignalStep(s) /\ Types
    BY DEF SignalStep, Known
  <2> QED
    BY <2>1, SignalerValues, SignalerSteps DEF Known, Types, SignalerEffect
<1>1. /\ Reached' = Staying /\ Staying = Reached \cup Members /\ Reached \cap Members = {}
      /\ cond'.g_size[G1'] = Cardinality(Members) /\ pc'[s] = "post" /\ pc[s] = "q_flip"
      /\ credit' = credit
  BY SwitchCounts DEF SwitchGroups, Goto, history
<1>2. loc'[s].ctl = loc[s].ctl /\ loc[s].ctl \in {"signal", "broadcast"}
  <2>1. loc'[s].ctl = loc[s].ctl
    BY <1>0, <1>1, CallName
  <2> QED
    BY <1>1, <2>1 DEF CallInv, SignalPCs, DestroyPCs
<1>3. \A u \in Signalers : u # s => /\ pc'[u] = pc[u] /\ loc'[u] = loc[u]
                                    /\ pc[u] \notin InnerPCs
  BY <1>0, <1>1, HolderAlone, SignalerSpares DEF InnerPCs
<1>4. Cardinality(Staying) = Cardinality(Reached) + Cardinality(Members)
  <2>1. Cardinality(Reached \cap Members) = 0
    BY <1>1, FS_EmptySet
  <2>2. Cardinality(Reached \cup Members)
          = Cardinality(Reached) + Cardinality(Members) - Cardinality(Reached \cap Members)
    BY StayFinite, CountsFinite, FS_Union
  <2> QED
    BY <1>1, <2>1, <2>2, StayFinite, CountsFinite
<1>5. Staying' = Staying
  BY <1>0, SignalerSpares
<1>6. CASE loc[s].ctl = "broadcast"
  <2>1. Ungiven' = 0
    BY <1>1, <1>2, <1>6 DEF Ungiven, Posting
  <2>2. Reached' = Staying' /\ credit' \in Nat
    BY <1>0, <1>1, <1>5
  <2> QED
    BY <2>1, <2>2, OwedAll
<1>7. CASE loc[s].ctl = "signal"
  <2>1. Owes(s) /\ Owes(s)'
    BY <1>1, <1>2, <1>7 DEF Owes, Coming, SwitchPCs
  <2>2. \A u \in Signalers : u # s => /\ Owes(u)' <=> Owes(u)
                                      /\ Coming(u)' <=> Coming(u)
    BY <1>3 DEF Owes, Coming, InnerPCs
  <2>3. Cardinality(Signaling') = Cardinality(Signaling)
    <3>1. Signaling' = Signaling
      BY <2>1, <2>2 DEF Signaling
    <3> QED
      BY <3>1
  <2>4. Ungiven \in Nat /\ Ungiven' <= Cardinality(Members) /\ Ungiven' \in Nat
    BY <1>0, <1>1, UngivenBounds, CountsFinite DEF Ungiven
  <2>5. ASSUME \A u \in Signalers : ~(loc'[u].ctl = "broadcast" /\ Coming(u)')
        PROVE  credit' + Ungiven' <= Cardinality(Reached') + Cardinality(Signaling')
    <3>1. \A u \in Signalers : ~(loc[u].ctl = "broadcast" /\ Coming(u))
      BY <1>3, <1>7, <2>2, <2>5
    <3>2. credit + Ungiven <= Cardinality(Reached) + Cardinality(Signaling)
      BY <3>1 DEF OwedInv
    <3>3. Cardinality(Reached') = Cardinality(Reached) + Cardinality(Members)
      BY <1>1, <1>4
    <3> QED
      BY <1>0, <1>1, <2>3, <2>4, <3>2, <3>3, StayFinite, CountsFinite
  <2> QED
    BY <2>5 DEF OwedInv
<1> QED
  BY <1>2, <1>6, <1>7

\* A call takes on what it owes as it enters; one that finds no waiter counted owes
\* nothing.
LEMMA OwedCall ==
  ASSUME Known, DestroyInv, StayInv', OwedInv, NEW s \in Signalers, NEW call \in Calls \ {"destroy"},
         CallWake(s, call) \/ CallWakeNobody(s, call)
  PROVE  OwedInv'
<1>0. /\ s \in Threads /\ pc \in [Threads -> Places] /\ Types /\ Types' /\ SignalerCall(s)
      /\ credit \in Nat /\ credit' \in Nat /\ call \in {"signal", "broadcast"}
      /\ G1 \in {0, 1} /\ cond.g_size[G1] \in Nat /\ loc \in [Threads -> LocType]
  <2>1. SignalerCall(s) /\ Types /\ call \in {"signal", "broadcast"}
    BY CondAssumption DEF SignalerCall, Known
  <2>2. G1 \in {0, 1} /\ Types'
    BY <2>1, GroupTypes, SignalerSteps DEF SignalerEffect
  <2> QED
    BY <2>1, <2>2, SignalerValues, CondFields, Width DEF Known, Types
<1>1. /\ cond' = cond /\ pc[s] = "user" /\ credit' = Owed(call)
  BY DEF CallWake, CallWakeNobody, Goto
<1>2. End' = End /\ G1' = G1 /\ cond'.g_size = cond.g_size
  <2>1. KeepGroups
    BY <1>1 DEF KeepGroups
  <2> QED
    BY <1>1, <2>1, GroupsKept
<1>3. ~Coming(s) /\ ~Owes(s) /\ ~Posting(s)
  BY <1>1 DEF Coming, Owes, Posting, SwitchPCs, ClosingPCs
<1>4. CASE CallWakeNobody(s, call)
  <2>1. pc'[s] = "user" /\ dead = "live" /\ _WaitersRef(cond.wrefs) = 0
    BY <1>0, <1>4 DEF CallWakeNobody, Goto
  <2>2. Blocked = {}
    <3>1. Cardinality(Referenced) = 0
      <4>1. cond.wrefs = 8 * Cardinality(Referenced) + 0
        BY <2>1 DEF DestroyInv
      <4>2. Cardinality(Referenced) \in Nat
        BY ReferencedFinite
      <4> QED
        BY <2>1, <4>1, <4>2 DEF _WaitersRef
    <3>2. Referenced = {}
      BY <3>1, ReferencedFinite, FS_EmptySet
    <3> QED
      BY <3>2 DEF Referenced, WaitingPCs, Blocked, BlockedPCs
  <2>3. credit' = 0
    BY <1>0, <1>1, <2>2, OwedBounds, FS_EmptySet
  <2>4. ~Coming(s)' /\ ~Owes(s)' /\ ~Posting(s)'
    BY <2>1 DEF Coming, Owes, Posting, SwitchPCs, ClosingPCs
  <2>5. cond'.g_size[G1] <= cond.g_size[G1] /\ credit' <= credit
    BY <1>0, <1>2, <2>3
  <2> QED
    BY <1>0, <1>2, <1>3, <2>4, <2>5, OwedStands
<1>5. CASE CallWake(s, call)
  <2>1. pc'[s] = "s_lock" /\ loc'[s].ctl = call
    <3>1. pc'[s] = "s_lock" /\ loc' = [loc EXCEPT ![s].ctl = call]
      BY <1>0, <1>5 DEF CallWake, Goto
    <3> QED
      BY <1>0, <3>1 DEF LocType
  <2>2. Coming(s)' /\ ~Posting(s)'
    BY <2>1 DEF Coming, Posting
  <2>3. CASE call = "broadcast"
    BY <2>1, <2>2, <2>3 DEF OwedInv
  <2>4. CASE call = "signal"
    <3>1. \A u \in Signalers : u # s => /\ pc'[u] = pc[u] /\ loc'[u] = loc[u]
                                        /\ Owes(u)' <=> Owes(u)
                                        /\ Coming(u)' <=> Coming(u)
                                        /\ Posting(u)' <=> Posting(u)
      BY <1>0, <1>2, SignalerSpares DEF Owes, Coming, Posting
    <3>2. Owes(s)'
      BY <2>1, <2>2, <2>4 DEF Owes
    <3>3. Cardinality(Signaling') = Cardinality(Signaling) + 1
      <4>1. Cardinality(Signaling') = Cardinality(Signaling) + 1 - 0
        BY <1>3, <3>1, <3>2, SignalingStep
      <4> QED
        BY <4>1, StayFinite
    <3>4. Ungiven' = Ungiven /\ Ungiven \in Nat
      BY <1>0, <1>2, <1>3, <2>2, <3>1, UngivenBounds DEF Ungiven
    <3>5. Reached' = Reached
      BY <1>0, <1>2, SignalerSpares DEF Reached, Staying
    <3>6. credit' <= credit + 1
      BY <1>0, <1>1, <2>4, OwedBounds
    <3>7. ASSUME \A u \in Signalers : ~(loc'[u].ctl = "broadcast" /\ Coming(u)')
          PROVE  credit' + Ungiven' <= Cardinality(Reached') + Cardinality(Signaling')
      <4>1. \A u \in Signalers : ~(loc[u].ctl = "broadcast" /\ Coming(u))
        BY <1>3, <3>1, <3>7
      <4>2. credit + Ungiven <= Cardinality(Reached) + Cardinality(Signaling)
        BY <4>1 DEF OwedInv
      <4> QED
        BY <1>0, <3>3, <3>4, <3>5, <3>6, <4>2, StayFinite
    <3> QED
      BY <3>7 DEF OwedInv
  <2> QED
    BY <1>0, <2>3, <2>4
<1> QED
  BY <1>4, <1>5

\* What is owed stays covered through the steps of the calls, case by case.
LEMMA OwedSignaler ==
  ASSUME Known, DestroyInv, CallInv, StayInv, CleanInv, OwedInv,
         NEW s \in Signalers, SignalerCall(s) \/ SignalStep(s) \/ DestroyStep(s)
  PROVE  OwedInv'
<1>1. StayInv'
  BY StaySignaler DEF Known
<1>2. CASE SignalerCall(s)
  <2>1. CASE CallDestroy(s)
    <3>1. pc[s] = "user"
      BY <2>1 DEF CallDestroy, Goto
    <3>2. ~(LoadSeq(s) \/ BroadcastG1(s) \/ CheckG2(s) \/ SwitchGroups(s) \/ Post(s))
      BY <3>1 DEF LoadSeq, BroadcastG1, CheckG2, SwitchGroups, Post, Goto
    <3> QED
      BY <1>2, <2>1, <3>2, OwedQuiet
  <2> QED
    BY <1>1, <1>2, <2>1, OwedCall DEF SignalerCall
<1>3. CASE SignalStep(s) \/ DestroyStep(s)
  <2>1. ~CallDestroy(s)
    BY <1>3 DEF SignalStep, DestroyStep, CallDestroy, InnerLock, LoadSeq, BroadcastG1,
       BroadcastWakeG1, CheckG2, CloseG1, LoadRefs, RequestWake, WaitRefs, AdvanceG1Start,
       ReopenSlot, SwitchGroups, Post, InnerUnlock, WakeG1, DestroyWait, DestroyReload,
       DestroyReturn, Goto
  <2> QED
    BY <1>1, <1>3, <2>1, OwedLoad, OwedGive, OwedCheck, OwedSwitch, OwedQuiet
<1> QED
  BY <1>2, <1>3

-----------------------------------------------------------------------------
\* A step after which as many signals are on G1, and nobody who is to wake one of
\* its waiters has forgotten it.
LEMMA WakeKept ==
  ASSUME Types, WakeInv, NEW s \in Signalers, SignalerCall(s) \/ SignalStep(s) \/ DestroyStep(s),
         KeepGroups, KeepSignals, ~AdvanceG1Start(s),
         WillWake(s) => WillWake(s)' /\ loc'[s].ctl = loc[s].ctl
  PROVE  WakeInv'
<1>0. /\ Waiters \subseteq Threads /\ G1 \in {0, 1} /\ sig(G1) # NoWord
  BY GroupTypes, CondAssumption, FutexAssumption DEF sig
<1>1. /\ \A t \in Waiters : /\ pc'[t] = pc[t] /\ loc'[t] = loc[t]
                            /\ asleep'[t] \in {asleep[t], NoWord}
      /\ \A u \in Signalers : u # s => pc'[u] = pc[u] /\ loc'[u] = loc[u] /\ G(u)' = G(u)
      /\ Staying' = Staying
  BY SignalerSpares
<1>2. /\ Start' = Start /\ End' = End /\ G1' = G1 /\ Flipping' = Flipping
      /\ G1Signals' = G1Signals
  BY GroupsKept DEF KeepSignals, G1Signals
<1>3. Closing => Closing'
  BY ClosingKept
<1>4. \A u \in Signalers : /\ WillWake(u) => WillWake(u)' /\ loc'[u].ctl = loc[u].ctl
  BY <1>1, <1>2 DEF WillWake
<1>5. Wakers \subseteq Wakers' /\ AwakeG1 \subseteq AwakeG1'
  <2>1. Wakers \subseteq Wakers'
    BY <1>4 DEF Wakers
  <2>2. G1Waiters' = G1Waiters
    BY <1>1, <1>2 DEF G1Waiters, Staying
  <2>3. \A t \in G1Waiters : Awake(t) => Awake(t)'
    BY <1>1 DEF G1Waiters, Staying, Awake
  <2> QED
    BY <2>1, <2>2, <2>3 DEF AwakeG1
<1>6. Cardinality(Wakers) <= Cardinality(Wakers') /\ Cardinality(AwakeG1) <= Cardinality(AwakeG1')
  BY <1>5, StayFiniteNext, FS_Subset
<1>7. G1Signals \div 2 \in Nat
  <2>1. G1Signals \in Word32
    BY <1>0, CondFields DEF Types, Word32, G1Signals
  <2> QED
    BY <2>1, SignalArithmetic
<1>8. ASSUME ~Flipping', ~Closing', NEW t \in Waiters, asleep'[t] = sig(G1'),
             \A u \in Signalers : ~(loc'[u].ctl = "broadcast" /\ WillWake(u)')
      PROVE  G1Signals' \div 2 <= Cardinality(Wakers') + Cardinality(AwakeG1')
  <2>1. asleep[t] = sig(G1)
    BY <1>0, <1>1, <1>2, <1>8
  <2>2. \A u \in Signalers : ~(loc[u].ctl = "broadcast" /\ WillWake(u))
    BY <1>4, <1>8
  <2>3. G1Signals \div 2 <= Cardinality(Wakers) + Cardinality(AwakeG1)
    BY <1>2, <1>3, <1>8, <2>1, <2>2 DEF WakeInv
  <2>4. G1Signals' \div 2 = G1Signals \div 2
    BY <1>2
  <2> QED
    BY <1>6, <1>7, <2>3, <2>4, StayFinite, StayFiniteNext
<1> QED
  BY <1>8 DEF WakeInv

\* A signal given to G1 brings the one who wakes a waiter for it.
LEMMA WakeGive ==
  ASSUME FewThreads, Known, CallInv, FlagInv, GivenInv, WakeInv, NEW s \in Signalers,
         BroadcastG1(s) \/ Post(s)
  PROVE  WakeInv'
<1>0. /\ s \in Threads /\ Types /\ PlaceInv /\ SignalStep(s) /\ Waiters \subseteq Threads
  <2>1. SignalStep(s)
    BY DEF SignalStep
  <2> QED
    BY <2>1, CondAssumption DEF Known
<1>1. /\ pc[s] \in {"b_post", "post"} /\ G(s) = G1 /\ G(s)' = G(s) /\ ~Flipping /\ ~Closing
      /\ pc[s] = "post" => pc'[s] = "s_unlock" /\ loc'[s].val = 1
      /\ pc[s] = "b_post" => pc'[s] = "b_wake" /\ loc' = loc
      /\ Start' = Start /\ End' = End /\ G1' = G1
  BY GiveStep
<1>2. WillWake(s)' /\ ~WillWake(s)
  BY <1>1 DEF WillWake
<1>3. /\ loc[s].ctl \in {"signal", "broadcast"} /\ loc'[s].ctl = loc[s].ctl
      /\ pc[s] = "b_post" => loc[s].ctl = "broadcast"
  <2>1. loc'[s].ctl = loc[s].ctl
    BY <1>0, <1>1, CallName
  <2> QED
    BY <1>1, <2>1 DEF CallInv, SignalPCs, DestroyPCs
<1>4. CASE loc[s].ctl = "broadcast"
  BY <1>2, <1>3, <1>4 DEF WakeInv
<1>5. CASE loc[s].ctl = "signal"
  <2>1. PICK k \in Nat : /\ G1Signals \div 2 \in Nat /\ G1Signals' \div 2 = G1Signals \div 2 + k
                         /\ IF pc[s] = "post" /\ loc[s].ctl = "signal" THEN k = 1
                            ELSE k = cond.g_size[G1]
    BY GiveSum
  <2>2. G1Signals' \div 2 = G1Signals \div 2 + 1
    BY <1>1, <1>3, <1>5, <2>1
  <2>3. asleep' = asleep
    BY DEF BroadcastG1, Post, OnlyCond
  <2>4. \A u \in Signalers : u # s => /\ WillWake(u)' <=> WillWake(u)
                                      /\ loc'[u] = loc[u]
    BY <1>0, <1>1, SignalerSpares DEF WillWake
  <2>5. Wakers' = Wakers \cup {s} /\ s \notin Wakers
    BY <1>2, <1>3, <1>5, <2>4 DEF Wakers
  <2>6. Cardinality(Wakers') = Cardinality(Wakers) + 1
    BY <2>5, StayFinite, FS_AddElement
  <2>7. AwakeG1' = AwakeG1
    <3>1. \A t \in Waiters : pc'[t] = pc[t] /\ loc'[t] = loc[t]
      BY <1>0, SignalerSpares
    <3>2. G1Waiters' = G1Waiters
      BY <1>1, <3>1 DEF G1Waiters, Staying
    <3> QED
      BY <2>3, <3>2 DEF AwakeG1, Awake
  <2>8. ASSUME NEW t \in Waiters, asleep'[t] = sig(G1'),
               \A u \in Signalers : ~(loc'[u].ctl = "broadcast" /\ WillWake(u)')
        PROVE  G1Signals' \div 2 <= Cardinality(Wakers') + Cardinality(AwakeG1')
    <3>1. \A u \in Signalers : ~(loc[u].ctl = "broadcast" /\ WillWake(u))
      BY <1>2, <2>4, <2>8
    <3>2. asleep[t] = sig(G1)
      BY <1>1, <2>3, <2>8
    <3>3. G1Signals \div 2 <= Cardinality(Wakers) + Cardinality(AwakeG1)
      BY <1>1, <3>1, <3>2 DEF WakeInv
    <3> QED
      BY <2>1, <2>2, <2>6, <2>7, <3>3, StayFinite
  <2> QED
    BY <2>8 DEF WakeInv
<1> QED
  BY <1>3, <1>4, <1>5

\* The wakeup reaches a waiter of G1 that sleeps, if there is one.
LEMMA WakeDone ==
  ASSUME Known, CallInv, StayInv, WakeInv, NEW s \in Signalers,
         BroadcastWakeG1(s) \/ WakeG1(s), G(s) = G1
  PROVE  WakeInv'
<1>0. /\ s \in Threads /\ Types /\ PlaceInv /\ PositionInv /\ BlockInv /\ SignalStep(s)
      /\ Waiters \subseteq Threads /\ Threads = Waiters \cup Signalers /\ G1 \in {0, 1}
      /\ asleep \in [Threads -> Words \cup {NoWord}] /\ pc \in [Threads -> Places]
      /\ loc \in [Threads -> LocType] /\ Start \in Nat /\ End \in Nat
      /\ sig(0) # sig(1) /\ sig(0) # NoWord /\ sig(1) # NoWord
  <2>1. SignalStep(s)
    BY DEF SignalStep
  <2> QED
    BY <2>1, CondAssumption, FutexAssumption, GroupTypes DEF Known, Types, sig
<1>1. cond' = cond
  BY DEF BroadcastWakeG1, WakeG1, OnlyFutex
<1>2. KeepGroups /\ KeepSignals
  BY <1>1 DEF KeepGroups, KeepSignals
<1>3. /\ Start' = Start /\ End' = End /\ G1' = G1 /\ Flipping' = Flipping
      /\ G1Signals' = G1Signals
  BY <1>2, GroupsKept DEF KeepSignals, G1Signals
<1>4. CASE FutexWakeAll(sig(G(s)))
  <2>1. \A t \in Threads : asleep'[t] # sig(G1)
    BY <1>0, <1>4 DEF FutexWakeAll
  <2> QED
    BY <1>0, <1>3, <2>1 DEF WakeInv
<1>5. CASE WakeG1(s) /\ loc[s].ctl = "signal" /\ FutexWakeOne(sig(G(s)))
  <2>1. /\ pc[s] = "s_wake" /\ pc'[s] = "user"
    BY <1>0, <1>5 DEF WakeG1, Goto
  <2>2. WillWake(s) /\ ~WillWake(s)'
    BY <2>1 DEF WillWake
  <2>3. \A u \in Signalers : u # s => /\ WillWake(u)' <=> WillWake(u)
                                      /\ loc'[u] = loc[u]
    BY <1>0, <1>3, SignalerSpares DEF WillWake
  <2>4. Wakers' = Wakers \ {s} /\ s \in Wakers
    BY <1>5, <2>2, <2>3 DEF Wakers
  <2>5. Cardinality(Wakers') = Cardinality(Wakers) - 1
    BY <2>4, StayFinite, FS_RemoveElement
  <2>6. ~AdvanceG1Start(s)
    BY <2>1 DEF AdvanceG1Start, Goto
  <2>7. Closing => Closing'
    BY <1>0, <2>6, ClosingKept
  <2>8. ASSUME ~Flipping', ~Closing', NEW t \in Waiters, asleep'[t] = sig(G1'),
               \A u \in Signalers : ~(loc'[u].ctl = "broadcast" /\ WillWake(u)')
        PROVE  G1Signals' \div 2 <= Cardinality(Wakers') + Cardinality(AwakeG1')
    <3>1. \A u \in Signalers : ~(loc[u].ctl = "broadcast" /\ WillWake(u))
      BY <1>5, <2>3, <2>8
    <3>2. asleep[t] = sig(G1)
      BY <1>0, <1>3, <2>8, SignalerSpares
    <3>3. G1Signals \div 2 <= Cardinality(Wakers) + Cardinality(AwakeG1)
      BY <1>3, <2>7, <2>8, <3>1, <3>2 DEF WakeInv
    <3>4. PICK x \in Sleepers(sig(G1)) : asleep' = [asleep EXCEPT ![x] = NoWord]
      BY <1>0, <1>5, <3>2 DEF FutexWakeOne, Sleepers
    <3>5. x \in Waiters /\ asleep[x] = sig(G1)
      BY <1>0, <3>4 DEF Sleepers, CallInv
    <3>6. ~Awake(x)
      BY <1>0, <3>5 DEF Awake
    <3>7. /\ pc[x] = "drop" /\ loc[x].seq >= Start /\ G(x) = G1 /\ loc[x].ctl # "done"
      <4>1. pc[x] = "drop" /\ asleep[x] = sig(G(x)) /\ loc[x].seq >= Start
        BY <1>0, <3>5, <3>6 DEF BlockInv
      <4>2. G(x) = G1
        BY <3>5, <4>1 DEF sig
      <4> QED
        BY <3>5, <3>6, <4>1, <4>2 DEF StayInv
    <3>8. x \in G1Waiters
      <4>1. loc[x].seq \in Nat
        BY <1>0, <3>5, LocFields
      <4>2. G1 # _G2(cond.wseq)
        BY <1>0, GroupTypes, Slots DEF G1
      <4>3. ~(loc[x].seq >= End)
        BY <1>0, <3>5, <3>7, <4>2 DEF PositionInv, WaitingPCs
      <4>4. loc[x].seq \in Start..(End - 1)
        BY <1>0, <3>7, <4>1, <4>3
      <4> QED
        BY <3>5, <3>7, <4>4 DEF G1Waiters, Staying, MemberPCs
    <3>9. x \notin AwakeG1 /\ AwakeG1 \cup {x} \subseteq AwakeG1'
      <4>1. \A u \in Waiters : pc'[u] = pc[u] /\ loc'[u] = loc[u]
        BY <1>0, SignalerSpares
      <4>2. G1Waiters' = G1Waiters /\ G1Waiters \subseteq Waiters
        BY <1>3, <4>1 DEF G1Waiters, Staying
      <4>3. \A u \in Waiters : (Awake(u) \/ u = x) => Awake(u)'
        BY <1>0, <3>4 DEF Awake
      <4> QED
        BY <3>6, <3>8, <4>2, <4>3 DEF AwakeG1
    <3>10. Cardinality(AwakeG1) + 1 <= Cardinality(AwakeG1')
      <4>1. Cardinality(AwakeG1 \cup {x}) = Cardinality(AwakeG1) + 1
        BY <3>9, StayFinite, FS_AddElement
      <4>2. Cardinality(AwakeG1 \cup {x}) <= Cardinality(AwakeG1')
        BY <3>9, StayFiniteNext, FS_Subset
      <4> QED
        BY <4>1, <4>2
    <3>11. G1Signals' \div 2 = G1Signals \div 2 /\ G1Signals \div 2 \in Nat
      <4>1. G1Signals \in Word32
        BY <1>0, CondFields DEF Types, Word32, G1Signals
      <4> QED
        BY <1>3, <4>1, SignalArithmetic
    <3> QED
      BY <2>5, <3>3, <3>10, <3>11, StayFinite, StayFiniteNext
  <2> QED
    BY <2>8 DEF WakeInv
<1> QED
  BY <1>4, <1>5 DEF BroadcastWakeG1, WakeG1

\* Each signal given is followed by a wakeup, and each wakeup finds its waiter.
LEMMA WakeSignaler ==
  ASSUME FewThreads, Known, CallInv, StayInv, FlagInv, CleanInv, GivenInv, WakeInv,
         NEW s \in Signalers, SignalerCall(s) \/ SignalStep(s) \/ DestroyStep(s)
  PROVE  WakeInv'
<1>0. /\ s \in Threads /\ pc \in [Threads -> Places] /\ Types /\ PlaceInv /\ GroupInv
      /\ SignalerEffect(s) /\ SmallGroups /\ G(s) \in {0, 1} /\ cond \in CondType /\ 0 \in Word32
  BY SignalerValues, SignalerSteps DEF Known, Types
<1>1. CASE BroadcastG1(s) \/ Post(s)
  BY <1>1, WakeGive
<1>2. CASE CloseG1(s)
  <2>1. pc'[s] = "q_refs"
    BY <1>0, <1>2 DEF CloseG1, Goto
  <2> QED
    BY <2>1 DEF WakeInv, Closing, ClosingPCs
<1>3. CASE ReopenSlot(s)
  <2>1. pc[s] = "q_reopen" /\ cond' = [cond EXCEPT !.g_signals[G(s)] = 0]
    BY <1>0, <1>3 DEF ReopenSlot, Goto, OnlyCond
  <2>2. KeepGroups
    BY <1>0, <2>1, SetSignals
  <2>3. Flipping'
    BY <1>0, <2>1, <2>2, GroupsKept DEF GroupInv
  <2> QED
    BY <2>3 DEF WakeInv
<1>4. CASE AdvanceG1Start(s)
  <2>1. GroupInv' /\ pc'[s] = "q_reopen"
    BY <1>0, <1>4, GroupAdvance DEF AdvanceG1Start, Goto
  <2> QED
    BY <2>1 DEF GroupInv, WakeInv
<1>5. CASE SwitchGroups(s)
  <2>1. G1Signals' = 0
    BY <1>5, SwitchCounts
  <2>2. G1Signals' \div 2 = 0
    BY <2>1
  <2> QED
    BY <2>2, StayFiniteNext DEF WakeInv
<1>6. CASE (BroadcastWakeG1(s) \/ WakeG1(s)) /\ G(s) = G1
  BY <1>6, WakeDone
<1>7. CASE (BroadcastWakeG1(s) \/ WakeG1(s)) /\ G(s) # G1
  <2>1. KeepGroups /\ KeepSignals
    BY <1>7 DEF BroadcastWakeG1, WakeG1, OnlyFutex, KeepGroups, KeepSignals
  <2>2. ~AdvanceG1Start(s) /\ ~WillWake(s)
    BY <1>7 DEF AdvanceG1Start, BroadcastWakeG1, WakeG1, Goto, WillWake
  <2> QED
    BY <1>0, <2>1, <2>2, WakeKept
<1>8. CASE /\ KeepGroups /\ KeepSignals /\ ~AdvanceG1Start(s)
           /\ ~(BroadcastWakeG1(s) \/ WakeG1(s))
  <2>1. ASSUME WillWake(s) PROVE WillWake(s)' /\ loc'[s].ctl = loc[s].ctl
    <3>1. InnerUnlock(s)
      BY <1>8, <2>1 DEF WillWake, SignalerCall, SignalStep, DestroyStep, CallWake,
         CallWakeNobody, CallDestroy, InnerLock, LoadSeq, BroadcastG1, CheckG2, CloseG1,
         LoadRefs, RequestWake, WaitRefs, AdvanceG1Start, ReopenSlot, SwitchGroups, Post,
         DestroyWait, DestroyReload, DestroyReturn, Goto
    <3>2. G(s) = G1 /\ loc[s].val = 1
      BY <2>1, <3>1 DEF WillWake, InnerUnlock, Goto
    <3>3. pc'[s] = "s_wake" /\ loc' = loc
      BY <1>0, <3>1, <3>2 DEF InnerUnlock, Goto
    <3>4. G1' = G1
      BY <1>8, GroupsKept
    <3> QED
      BY <3>2, <3>3, <3>4 DEF WillWake, G
  <2> QED
    BY <1>0, <1>8, <2>1, WakeKept
<1> QED
  BY <1>0, <1>1, <1>2, <1>3, <1>4, <1>5, <1>6, <1>7, <1>8 DEF SignalerEffect

-----------------------------------------------------------------------------
\* At first nobody waits and nothing is owed, ...
LEMMA LostInit == Init => LostInv
<1> SUFFICES ASSUME Init PROVE LostInv
  OBVIOUS
<1>1. /\ cond = pthread_cond_init /\ Waiters \subseteq Threads /\ Signalers \subseteq Threads
      /\ \A t \in Threads : pc[t] = "user" /\ loc[t] = NoLocals /\ asleep[t] = NoWord
      /\ credit = 0
  BY CondAssumption DEF Init, FutexInit
<1>2. /\ Position = 0 /\ End = 0 /\ Start = 0 /\ G1 = 1 /\ ~Flipping
      /\ G2Signals = 0 /\ G1Signals = 0 /\ cond.g_size[G1] = 0
  BY <1>1 DEF pthread_cond_init, Position, End, Start, Flipping, _Seq, _G2, _GAnother, G1,
     G2Signals, G1Signals
<1>3. Members = {} /\ G1Waiters = {}
  BY <1>1 DEF Members, G1Waiters, Staying, MemberPCs
<1>4. NoLocals.ctl = "" /\ sig(0) # NoWord /\ sig(1) # NoWord
  BY CondAssumption, FutexAssumption DEF NoLocals, sig
<1>5. CallInv
  BY <1>1, <1>4 DEF CallInv, SignalPCs
<1>6. StayInv
  <2>1. \A t \in Waiters : loc[t].ctl # "done"
    BY <1>1, <1>4
  <2> QED
    BY <1>1, <2>1, StayFinite DEF StayInv
<1>7. FlagInv
  BY <1>1, <1>2 DEF FlagInv, Closed, UndoPCs
<1>8. CleanInv
  BY <1>1, <1>2, <1>3, FS_EmptySet DEF CleanInv
<1>9. GivenInv
  BY <1>2, <1>3, FS_EmptySet, StayFinite DEF GivenInv
<1>10. OwedInv
  BY <1>1, <1>2, StayFinite DEF OwedInv, Ungiven
<1>11. WakeInv
  BY <1>2, StayFinite DEF WakeInv
<1> QED
  BY <1>5, <1>6, <1>7, <1>8, <1>9, <1>10, <1>11 DEF LostInv

\* ... a stutter changes nothing, ...
LEMMA LostUnchanged == ASSUME LostInv, UNCHANGED vars PROVE LostInv'
<1>1. /\ Staying' = Staying /\ Blocked' = Blocked /\ Members' = Members
      /\ Position' = Position /\ End' = End /\ Start' = Start /\ G1' = G1
      /\ Flipping' = Flipping /\ G1Signals' = G1Signals /\ G2Signals' = G2Signals
  BY DEF vars, Staying, Blocked, Members, Position, End, Start, G1, Flipping, G1Signals, G2Signals
<1>2. /\ Reached' = Reached /\ G1Waiters' = G1Waiters /\ Undoing' = Undoing
      /\ AwakeG1' = AwakeG1 /\ Closing' = Closing /\ Ungiven' = Ungiven
      /\ Signaling' = Signaling /\ Wakers' = Wakers
  BY <1>1 DEF vars, Reached, G1Waiters, Undoing, AwakeG1, Closing, Ungiven, Signaling, Wakers,
     Posting, Owes, Coming, WillWake, Awake, G
<1>3. CallInv' /\ StayInv' /\ FlagInv'
  BY <1>1, <1>2 DEF vars, LostInv, CallInv, StayInv, FlagInv, Awake, Signals, G
<1>4. ~repaired' => CleanInv' /\ GivenInv' /\ OwedInv' /\ WakeInv'
  BY <1>1, <1>2 DEF vars, LostInv, CleanInv, GivenInv, OwedInv, WakeInv, Signals, G, Coming,
     WillWake
<1> QED
  BY <1>3, <1>4 DEF LostInv

\* ... and every step keeps the whole: after a repair only its first three parts.
LEMMA LostStep ==
  ASSUME FewThreads, Known, DestroyInv, LostInv, [Next]_vars PROVE LostInv'
<1>0. Types /\ GroupInv /\ BlockInv /\ MemberInv
  BY DEF Known
<1>1. CASE UNCHANGED vars
  BY <1>1, LostUnchanged
<1>2. ASSUME NEW t \in Waiters, ClientLock(t) \/ WaitSeq(t) \/ WaitStep(t) PROVE LostInv'
  <2>1. CallInv' /\ StayInv' /\ FlagInv'
    BY <1>0, <1>2, CallWaiter, StayWaiter, FlagWaiter DEF LostInv
  <2>2. ASSUME ~repaired' PROVE ~repaired /\ ~UndoAdd(t)
    <3>1. UndoAdd(t) \/ repaired' = repaired
      BY <1>0, <1>2, WaiterStays DEF LostInv, StayInv, MemberInv
    <3>2. UndoAdd(t) => repaired'
      BY DEF UndoAdd
    <3> QED
      BY <2>2, <3>1, <3>2
  <2>3. ASSUME ~repaired' PROVE CleanInv' /\ GivenInv' /\ OwedInv' /\ WakeInv'
    <3>1. /\ ~UndoAdd(t) /\ CleanInv /\ GivenInv /\ OwedInv /\ WakeInv /\ StayInv /\ FlagInv
      BY <2>2, <2>3 DEF LostInv
    <3>2. GivenInv'
      BY <1>2, <3>1, GivenWaiter
    <3> QED
      BY <1>2, <3>1, <3>2, CleanWaiter, OwedWaiter, WakeWaiter
  <2> QED
    BY <2>1, <2>3 DEF LostInv
<1>3. ASSUME NEW s \in Signalers, SignalerCall(s) \/ SignalStep(s) \/ DestroyStep(s) PROVE LostInv'
  <2>1. CallInv' /\ StayInv' /\ FlagInv'
    BY <1>0, <1>3, CallKept, StaySignaler, FlagSignaler DEF LostInv
  <2>2. repaired' = repaired
    BY <1>0, <1>3, SignalerOwners
  <2>3. ASSUME ~repaired' PROVE CleanInv' /\ GivenInv' /\ OwedInv' /\ WakeInv'
    <3>1. /\ CleanInv /\ GivenInv /\ OwedInv /\ WakeInv /\ CallInv /\ StayInv /\ FlagInv
      BY <2>2, <2>3 DEF LostInv
    <3> QED
      BY <1>3, <3>1, CleanSignaler, GivenSignaler, OwedSignaler, WakeSignaler
  <2> QED
    BY <2>1, <2>3 DEF LostInv
<1> QED
  BY <1>1, <1>2, <1>3 DEF Next

\* At rest nothing is owed: all of G1 sleeps, so no signal is on G1, so its waiters
\* are still to be given theirs, and nobody else is owed one.
LEMMA NothingOwedAtRest ==
  ASSUME Known, LostInv, Quiescent, ~repaired PROVE credit = 0
<1>0. /\ Types /\ GroupInv /\ PositionInv /\ BlockInv /\ G1 \in {0, 1} /\ credit \in Nat
      /\ Start \in Nat /\ End \in Nat /\ Waiters \subseteq Threads /\ cond.g_size[G1] \in Nat
      /\ CleanInv /\ GivenInv /\ OwedInv /\ WakeInv /\ G1Signals \in Word32
  <2>1. Types /\ G1 \in {0, 1}
    BY GroupTypes DEF Known
  <2> QED
    BY <2>1, GroupTypes, CondFields, Width, CondAssumption DEF Known, LostInv, Types, Word32,
       G1Signals
<1>1. /\ \A s \in Signalers : pc[s] = "user"
      /\ \A t \in Waiters : pc[t] \in {"user", "held"} \/ ~Awake(t)
  BY DEF Quiescent
<1>2. ~Flipping /\ ~Closing
  BY <1>0, <1>1 DEF GroupInv, Closing, ClosingPCs
<1>3. \A s \in Signalers : ~Coming(s) /\ ~Owes(s) /\ ~Posting(s) /\ ~WillWake(s)
  BY <1>1 DEF Coming, Owes, Posting, WillWake, SwitchPCs, ClosingPCs
<1>4. \A t \in Waiters :
        pc[t] \notin {"user", "held"} =>
          pc[t] = "drop" /\ asleep[t] = sig(G(t)) /\ loc[t].seq >= Start /\ ~Awake(t)
  BY <1>0, <1>1 DEF BlockInv
<1>5. Signaling = {} /\ Wakers = {} /\ Undoing = {} /\ AwakeG1 = {}
  <2>1. Signaling = {} /\ Wakers = {}
    BY <1>3 DEF Signaling, Wakers
  <2>2. Undoing = {}
    BY <1>4 DEF Undoing, UndoPCs
  <2>3. AwakeG1 = {}
    BY <1>4 DEF AwakeG1, G1Waiters, Staying, MemberPCs
  <2> QED
    BY <2>1, <2>2, <2>3
<1>6. Reached = G1Waiters
  <2>1. \A t \in Staying : t \in Waiters /\ loc[t].seq \in Nat /\ loc[t].seq >= Start
    <3>1. \A t \in Staying : t \in Waiters /\ pc[t] \notin {"user", "held"}
      BY DEF Staying, MemberPCs
    <3> HIDE DEF Staying
    <3>2. \A t \in Threads : loc[t].seq \in Nat
      BY <1>0, LocFields DEF Types
    <3> QED
      BY <1>0, <1>4, <3>1, <3>2
  <2>2. \A t \in Staying : loc[t].seq < End <=> loc[t].seq \in Start..(End - 1)
    BY <1>0, <2>1
  <2> QED
    BY <2>2 DEF Reached, G1Waiters
<1>7. credit + cond.g_size[G1] <= Cardinality(G1Waiters)
  <2>1. credit + Ungiven <= Cardinality(Reached) + Cardinality(Signaling)
    BY <1>0, <1>3 DEF OwedInv
  <2>2. Ungiven = cond.g_size[G1]
    BY <1>3 DEF Ungiven
  <2>3. Cardinality(Signaling) = 0
    BY <1>5, FS_EmptySet
  <2> QED
    BY <1>0, <1>6, <2>1, <2>2, <2>3, StayFinite
<1>8. CASE G1Waiters = {}
  <2>1. Cardinality(G1Waiters) = 0
    BY <1>8, FS_EmptySet
  <2> QED
    BY <1>0, <1>7, <2>1
<1>9. CASE G1Waiters # {}
  <2>1. PICK t \in G1Waiters : TRUE
    BY <1>9
  <2>2. t \in Waiters /\ asleep[t] = sig(G(t)) /\ G(t) = G1
    <3>1. t \in Waiters /\ pc[t] \notin {"user", "held"} /\ loc[t].seq \in Start..(End - 1)
      BY <2>1 DEF G1Waiters, Staying, MemberPCs
    <3> QED
      BY <1>0, <1>4, <3>1 DEF PositionInv, WaitingPCs
  <2>3. G1Signals \div 2 <= Cardinality(Wakers) + Cardinality(AwakeG1)
    BY <1>0, <1>2, <1>3, <2>2 DEF WakeInv
  <2>4. G1Signals \div 2 \in Nat /\ G1Signals \div 2 <= 0
    <3>1. Cardinality(Wakers) = 0 /\ Cardinality(AwakeG1) = 0
      BY <1>5, FS_EmptySet
    <3> QED
      BY <1>0, <2>3, <3>1, SignalArithmetic
  <2>5. Cardinality(Undoing) = 0
    BY <1>5, FS_EmptySet
  <2>6. Cardinality(G1Waiters) <= G1Signals \div 2 + cond.g_size[G1] + Cardinality(Undoing)
    BY <1>0, <1>2 DEF GivenInv
  <2> QED
    BY <1>0, <1>7, <2>4, <2>5, <2>6, StayFinite
<1> QED
  BY <1>8, <1>9

\* A signal is lost only where a waiter has put one back: while none has, the
\* waiters that are still blocked when everything has come to rest are blocked
\* rightly, whatever the number of threads, waits and calls
\* (pthread_cond.h:131-143 for the repair, and the whole of :73-214 otherwise).
THEOREM SignalsAreOnlyLostByRepair ==
  ASSUME FewThreads PROVE Spec => []OnlyRepairLoses
<1>0. ASSUME CondInv PROVE Known /\ FewWaiters
  <2>1. FewWaiters
    BY CountsFinite, Width DEF FewThreads, FewWaiters
  <2>2. Types
    BY <1>0, TypesNamed DEF CondInv
  <2> QED
    BY <1>0, <2>1, <2>2, SizesBound DEF CondInv, Known
<1>1. Init => DestroyInv /\ LostInv
  BY DestroyInit, LostInit
<1>2. CondInv /\ DestroyInv /\ LostInv /\ [Next]_vars => DestroyInv' /\ LostInv'
  <2> SUFFICES ASSUME CondInv, DestroyInv, LostInv, [Next]_vars PROVE DestroyInv' /\ LostInv'
    OBVIOUS
  <2>1. Known /\ FewWaiters
    BY <1>0
  <2>2. DestroyInv'
    BY <2>1, WaiterDestroys, SignalerDestroys, DestroyUnchanged DEF Next, Known
  <2>3. LostInv'
    BY <2>1, LostStep
  <2> QED
    BY <2>2, <2>3
<1>3. CondInv /\ LostInv => OnlyRepairLoses
  <2> SUFFICES ASSUME CondInv, LostInv, Quiescent, credit > 0, ~repaired PROVE FALSE
    BY DEF OnlyRepairLoses
  <2>1. Known
    BY <1>0
  <2>2. credit = 0
    BY <2>1, NothingOwedAtRest
  <2> QED
    BY <2>2
<1> QED
  BY <1>1, <1>2, <1>3, CondInvHolds, PTL DEF Spec

-----------------------------------------------------------------------------
(* No count leaves its field *)

\* The group gets k more of its signals.
Gives(s, k) ==
  /\ cond'.g_signals[G(s)] = Signals(s) + k * _SignalsStep
  /\ cond'.g_size[G(s)] = cond.g_size[G(s)] - k

\* Each addition and subtraction that the code makes in a uint32_t, and the
\* shifted group size beside the bits of the inner lock, is the one of the
\* integers: nothing carries out of a word or borrows, and the emptiness of G2
\* is what it says (pthread_cond.h:74, 91, 109, 138, 149, 172, 192, 202-209, 230,
\* 257, 264).
CountsExact ==
  /\ \A t \in Waiters :
       /\ WaitRef(t) => cond'.wrefs = cond.wrefs + _WaitersRefStep
       /\ WaitUnref(t) => cond'.wrefs = cond.wrefs - _WaitersRefStep
       /\ TakeGroupRef(t) => cond'.g_refs[G(t)] = cond.g_refs[G(t)] + _GRefsStep
       /\ DropGroupRef(t) => cond'.g_refs[G(t)] = cond.g_refs[G(t)] - _GRefsStep
       /\ UndoAdd(t) => cond'.g_signals[G(t)] = Signals(t) + _SignalsStep
  /\ \A s \in Signalers :
       /\ BroadcastG1(s) => Gives(s, cond.g_size[G(s)])
       /\ Post(s) => Gives(s, IF loc[s].ctl = "signal" THEN 1 ELSE cond.g_size[G(s)])
       /\ CheckG2(s) =>
            (pc'[s] = "s_unlock" <=>
               loc[s].seq + cond.g_size[_GAnother(G(s))] = Start + cond.orig_size)
       /\ AdvanceG1Start(s) =>
            cond'.g1_start = cond.g1_start + 2 * cond.orig_size
                               + (IF G(s) = 1 THEN 1 ELSE -1)
       /\ SwitchGroups(s) =>
            LET positions == Position - loc[s].base
            IN  /\ cond'.orig_size = positions
                /\ cond'.g_size[G(s)'] = cond.g_size[_GAnother(G(s))] + positions

\* What G1's slot holds, what G1 is still to be given and what late waiters can
\* put back: a few signals per thread, after a repair as well. The switch starts
\* G1 with the positions of G2 and the signals on its slot, which SizeInv bounds
\* together.
G1Bound ==
  cond.g_signals[G1] \div 2 + cond.g_size[G1] + Cardinality(Adders)
    <= 4 * Cardinality(Waiters)

LEMMA G1BoundInit == Init => G1Bound
<1> SUFFICES ASSUME Init PROVE G1Bound
  OBVIOUS
<1>1. /\ cond = pthread_cond_init /\ Waiters \subseteq Threads
      /\ \A t \in Threads : pc[t] = "user"
  BY CondAssumption DEF Init
<1>2. Adders = {}
  BY <1>1 DEF Adders, AdderPCs, WaitingPCs
<1>3. G1 \in {0, 1} /\ cond.g_signals[G1] = 0 /\ cond.g_size[G1] = 0
  BY <1>1 DEF pthread_cond_init, G1, _GAnother, _G2
<1> QED
  BY <1>2, <1>3, CountsFinite, FS_EmptySet DEF G1Bound

\* The late waiters change only by the steps of waiters and by the switch.
LEMMA AddersKept ==
  ASSUME End' = End, \A t \in Waiters : pc'[t] = pc[t] /\ loc'[t] = loc[t]
  PROVE  Adders' = Adders
  BY DEF Adders

LEMMA G1BoundWaiter ==
  ASSUME Types, PlaceInv, GroupInv, PositionInv, ClosedInv, MemberInv, SizeInv, G1Bound,
         NEW t \in Waiters, ClientLock(t) \/ WaitSeq(t) \/ WaitStep(t)
  PROVE  G1Bound'
<1>0. /\ WaiterEffect(t) /\ Waiters \subseteq Threads /\ t \in Threads
      /\ loc \in [Threads -> LocType] /\ pc \in [Threads -> Places] /\ G1 \in {0, 1}
      /\ \A i \in {0, 1} : /\ cond.g_signals[i] \div 2 \in Nat /\ cond.g_size[i] \in Nat
                           /\ cond'.g_signals[i] \div 2 \in Nat
      /\ Cardinality(Waiters) \in Nat /\ Cardinality(Adders) \in Nat
  <2>1. WaiterEffect(t)
    BY WaiterSteps
  <2>2. cond \in CondType /\ cond' \in CondType
    BY <2>1 DEF WaiterEffect, Types
  <2>3. \A i \in {0, 1} : /\ cond.g_signals[i] \in Word32 /\ cond.g_size[i] \in Nat
                         /\ cond'.g_signals[i] \in Word32
    BY <2>1, <2>2, CondFields, Width DEF Types, Word32
  <2> QED
    BY <2>1, <2>3, SignalArithmetic, CountsFinite, CondAssumption, GroupTypes DEF Types
<1>1. Cardinality(Adders') \in Nat
  <2>1. Adders' \subseteq Waiters
    BY DEF Adders
  <2> QED
    BY <2>1, CountsFinite, FS_Subset, FS_CardinalityType
<1>2. CASE ~WaitSeq(t)
  <2>1. KeepGroups
    BY <1>0, <1>2, WaiterSets DEF SizeInv
  <2>2. G1' = G1 /\ cond'.g_size[G1] = cond.g_size[G1]
    BY <2>1, GroupsKept DEF KeepGroups
  <2>3. cond'.g_signals[G1] \div 2 + Cardinality(Adders')
          <= cond.g_signals[G1] \div 2 + Cardinality(Adders)
    BY <1>0, <1>2, WaiterTrades DEF SizeInv
  <2> QED
    BY <1>0, <1>1, <2>2, <2>3 DEF G1Bound
<1>3. CASE WaitSeq(t)
  <2>1. /\ pc[t] = "held" /\ pc'[t] = "wref" /\ cond' = [cond EXCEPT !.wseq = @ + 2]
        /\ loc' = [loc EXCEPT ![t].seq = Position, ![t].g = _G2(cond.wseq)]
    BY <1>0, <1>3 DEF WaitSeq, Goto, _SeqStep, Position
  <2>2. /\ cond'.wseq = cond.wseq + 2 /\ cond'.g_signals = cond.g_signals
        /\ cond'.g1_start = cond.g1_start /\ cond'.orig_size = cond.orig_size
        /\ cond'.g_size = cond.g_size
    BY <2>1, GroupTypes DEF CondType
  <2>3. _G2(cond.wseq)' = _G2(cond.wseq)
    BY <2>2, GroupTypes DEF _G2
  <2>4. Start' = Start /\ End' = End /\ End <= Position /\ G1' = G1
    BY <2>2, <2>3, EndBound DEF Start, Flipping, End, G1
  <2>5. loc'[t].seq = Position
    BY <1>0, <2>1 DEF LocType
  <2>6. \A u \in Waiters : u # t => pc'[u] = pc[u] /\ loc'[u] = loc[u]
    BY <1>0 DEF WaiterEffect, KeepOthers
  <2>7. Adders' = Adders
    <3>1. t \notin Adders /\ t \notin Adders'
      BY <2>1, <2>4, <2>5, GroupTypes DEF Adders, AdderPCs, WaitingPCs
    <3> QED
      BY <2>4, <2>6, <3>1 DEF Adders
  <2> QED
    BY <2>2, <2>4, <2>7 DEF G1Bound
<1> QED
  BY <1>2, <1>3

\* What G1 is given fits beside what its slot holds.
LEMMA GiveExact ==
  ASSUME FewThreads, Known, G1Bound, NEW s \in Signalers, BroadcastG1(s) \/ Post(s)
  PROVE  \E k \in Nat :
           /\ cond'.g_signals[G1] = cond.g_signals[G1] + 2 * k
           /\ cond'.g_signals[G1] \div 2 = cond.g_signals[G1] \div 2 + k
           /\ cond'.g_size[G1] = cond.g_size[G1] - k
           /\ IF pc[s] = "post" /\ loc[s].ctl = "signal" THEN k = 1
              ELSE k = cond.g_size[G1]
<1>0. /\ Types /\ G1 \in {0, 1} /\ cond'.g_size[G1] \in Nat /\ cond.g_size[G1] \in Nat
      /\ cond.g_signals[G1] \in Word32
  <2>1. SignalStep(s) /\ Types
    BY DEF SignalStep, Known
  <2>2. Types' /\ G1 \in {0, 1}
    BY <2>1, SignalerSteps, GroupTypes DEF SignalerEffect
  <2>3. \A i \in {0, 1} : cond'.g_size[i] \in Nat
    BY <2>2, CondFields, Width DEF Types
  <2> QED
    BY <2>1, <2>2, <2>3, CondFields, Width DEF Types, Word32
<1>1. G1' = G1
  BY GiveStep
<1>2. PICK k \in Word32 : /\ cond'.g_signals[G1] = (cond.g_signals[G1] + 2 * k) % U32
                         /\ cond'.g_size[G1] = cond.g_size[G1] - k
                         /\ IF pc[s] = "post" /\ loc[s].ctl = "signal" THEN k = 1
                            ELSE k = cond.g_size[G1]
  BY <1>1, GiveStep DEF G1Signals
<1>3. PICK w \in Word32 : w = cond.g_signals[G1]
  BY <1>0
<1> DEFINE n == Cardinality(Waiters)
<1>4. w \div 2 + k <= 4 * n /\ n \in Nat /\ w \div 2 \in Nat /\ k \in Nat
  <2>1. k \in Nat /\ k <= cond.g_size[G1]
    BY <1>0, <1>2, Width DEF Word32
  <2>2. w \div 2 \in Nat
    BY <1>3, SignalArithmetic
  <2>3. w \div 2 + cond.g_size[G1] + Cardinality(Adders) <= 4 * n
    BY <1>3 DEF G1Bound
  <2>4. n \in Nat /\ Cardinality(Adders) \in Nat
    BY CountsFinite
  <2> HIDE DEF n
  <2> QED
    BY <1>0, <2>1, <2>2, <2>3, <2>4
<1>5. w + 2 * k < U32
  <2>1. 24 * n < U32
    BY DEF FewThreads
  <2>2. w <= 2 * (w \div 2) + 1
    BY Width DEF Word32
  <2> HIDE DEF n
  <2> QED
    BY <1>4, <2>1, <2>2, Width DEF Word32
<1>6. (w + 2 * k) % U32 = w + 2 * k /\ (w + 2 * k) \div 2 = w \div 2 + k
  BY <1>5, EvenSum
<1> QED
  BY <1>2, <1>3, <1>4, <1>6

\* A signal given leaves the size of G1, and the switch starts G1 anew.
LEMMA G1BoundSignaler ==
  ASSUME FewThreads, Known, G1Bound,
         NEW s \in Signalers, SignalerCall(s) \/ SignalStep(s) \/ DestroyStep(s)
  PROVE  G1Bound'
<1>0. /\ SignalerEffect(s) /\ Types /\ PlaceInv /\ GroupInv /\ SmallGroups
      /\ s \in Threads /\ G(s) \in {0, 1} /\ cond \in CondType /\ G1 \in {0, 1}
      /\ pc \in [Threads -> Places] /\ 0 \in Word32
      /\ \A i \in {0, 1} : cond.g_signals[i] \in Word32 /\ cond.g_size[i] \in Nat
      /\ Cardinality(Waiters) \in Nat /\ Cardinality(Adders) \in Nat
      /\ \A i \in {0, 1} : cond.g_signals[i] \div 2 \in Nat
  <2>1. Types
    BY DEF Known
  <2>2. cond \in CondType /\ \A i \in {0, 1} : cond.g_signals[i] \in Word32 /\ cond.g_size[i] \in Nat
    BY <2>1, CondFields, Width DEF Types, Word32
  <2> QED
    BY <2>1, <2>2, SignalerSteps, SignalerValues, GroupTypes, CountsFinite, SignalArithmetic
       DEF Known, Types
<1>1. \A t \in Waiters : pc'[t] = pc[t] /\ loc'[t] = loc[t]
  BY <1>0, SignalerSpares
<1>2. CASE KeepGroups /\ KeepSignals
  <2>1. End' = End /\ G1' = G1 /\ cond'.g_size = cond.g_size /\ cond'.g_signals = cond.g_signals
    BY <1>2, GroupsKept DEF KeepGroups, KeepSignals
  <2>2. Adders' = Adders
    BY <1>1, <2>1, AddersKept
  <2> QED
    BY <2>1, <2>2 DEF G1Bound
<1>3. CASE AdvanceG1Start(s)
  <2>1. End' = End /\ G1' = G1
    BY <1>0, <1>3, GroupAdvance
  <2>2. cond'.g_size = cond.g_size /\ cond'.g_signals = cond.g_signals
    BY <1>0, <1>3 DEF AdvanceG1Start, CondType
  <2>3. Adders' = Adders
    BY <1>1, <2>1, AddersKept
  <2> QED
    BY <2>1, <2>2, <2>3 DEF G1Bound
<1>4. CASE ReopenSlot(s)
  <2>1. pc[s] = "q_reopen" /\ cond' = [cond EXCEPT !.g_signals[G(s)] = 0]
    BY <1>0, <1>4 DEF ReopenSlot, Goto
  <2>2. cond'.g_signals[G(s)] = 0 /\ KeepGroups
    BY <1>0, <2>1, SetSignals
  <2>3. G(s) = G1
    BY <1>0, <2>1, GroupTypes DEF GroupInv, HolderInv, Flipping, G1, _GAnother
  <2>4. End' = End /\ G1' = G1 /\ cond'.g_size = cond.g_size
    BY <2>2, GroupsKept DEF KeepGroups
  <2>5. Adders' = Adders
    BY <1>1, <2>4, AddersKept
  <2>6. cond'.g_signals[G1'] \div 2 = 0
    BY <2>2, <2>3, <2>4
  <2> QED
    BY <1>0, <2>4, <2>5, <2>6 DEF G1Bound
<1>5. CASE CloseG1(s)
  <2>1. pc[s] = "q_close" /\ cond' = [cond EXCEPT !.g_signals[G(s)] = SetLSB(cond.g_signals[G(s)])]
    BY <1>0, <1>5 DEF CloseG1, Goto
  <2>2. G(s) = G1
    BY <1>0, <2>1 DEF GroupInv, HolderInv
  <2>3. PICK w \in Word32 : w = cond.g_signals[G1]
    BY <1>0
  <2>4. SetLSB(w) \in Word32 /\ SetLSB(w) \div 2 = w \div 2
    BY Flag32 DEF Word32
  <2>5. cond'.g_signals[G1] \div 2 = cond.g_signals[G1] \div 2 /\ KeepGroups
    BY <1>0, <2>1, <2>2, <2>3, <2>4, SetSignals
  <2>6. End' = End /\ G1' = G1 /\ cond'.g_size = cond.g_size
    BY <2>5, GroupsKept DEF KeepGroups
  <2>7. Adders' = Adders
    BY <1>1, <2>6, AddersKept
  <2> QED
    BY <2>5, <2>6, <2>7 DEF G1Bound
<1>6. CASE BroadcastG1(s) \/ Post(s)
  <2>1. /\ End' = End /\ G1' = G1
        /\ \E k \in Nat : /\ cond'.g_signals[G1] \div 2 = cond.g_signals[G1] \div 2 + k
                          /\ cond'.g_size[G1] = cond.g_size[G1] - k
    BY <1>6, GiveStep, GiveExact
  <2>2. Adders' = Adders
    BY <1>1, <2>1, AddersKept
  <2>3. PICK k \in Nat : /\ cond'.g_signals[G1] \div 2 = cond.g_signals[G1] \div 2 + k
                         /\ cond'.g_size[G1] = cond.g_size[G1] - k
    BY <2>1
  <2> QED
    BY <1>0, <2>1, <2>2, <2>3 DEF G1Bound
<1>7. CASE SwitchGroups(s)
  <2>1. /\ G1' = _G2(cond.wseq) /\ cond'.g_size[G1'] = Position - End
        /\ cond'.g_signals = cond.g_signals
    BY <1>0, <1>7, GroupSwitch DEF SwitchGroups, CondType
  <2>2. cond'.g_signals[G1'] = G2Signals
    BY <2>1 DEF G2Signals
  <2>3. /\ Position - End + G2Signals \div 2 + Cardinality(Adders)
             <= Cardinality(Members) + 2 * Cardinality(Waiters)
        /\ Cardinality(Members) \in Nat /\ Cardinality(Members) <= Cardinality(Waiters)
    BY CountsFinite DEF Known, SizeInv
  <2>4. Cardinality(Adders') \in Nat /\ Cardinality(Adders') <= Cardinality(Waiters)
    <3>1. Adders' \subseteq Waiters
      BY DEF Adders
    <3> QED
      BY <3>1, CountsFinite, FS_Subset, FS_CardinalityType
  <2>5. Position \in Nat /\ End \in Nat /\ G2Signals \div 2 \in Nat
    BY <1>0, GroupTypes DEF G2Signals
  <2> QED
    BY <1>0, <2>1, <2>2, <2>3, <2>4, <2>5 DEF G1Bound
<1> QED
  BY <1>0, <1>2, <1>3, <1>4, <1>5, <1>6, <1>7 DEF SignalerEffect

\* The counts a waiter moves: its own reference is there when it leaves, room
\* for it when it comes, and a signal put back is one of the few that can be.
LEMMA WaiterExact ==
  ASSUME FewThreads, Known, RefsInv, DestroyInv, G1Bound, NEW t \in Waiters
  PROVE  /\ WaitRef(t) => cond'.wrefs = cond.wrefs + _WaitersRefStep
         /\ WaitUnref(t) => cond'.wrefs = cond.wrefs - _WaitersRefStep
         /\ TakeGroupRef(t) => cond'.g_refs[G(t)] = cond.g_refs[G(t)] + _GRefsStep
         /\ DropGroupRef(t) => cond'.g_refs[G(t)] = cond.g_refs[G(t)] - _GRefsStep
         /\ UndoAdd(t) => cond'.g_signals[G(t)] = Signals(t) + _SignalsStep
<1> DEFINE n == Cardinality(Waiters)
<1>0. /\ Types /\ GroupInv /\ cond \in CondType /\ G(t) \in {0, 1}
      /\ cond.wrefs \in Word32 /\ cond.g_refs[G(t)] \in Word32
      /\ \A i \in {0, 1} : cond.g_signals[i] \in Word32 /\ cond.g_size[i] \in Nat
      /\ loc[t].seq \in Nat
  BY CondAssumption, LocFields, CondFields, Width DEF Known, Types, G, Word32
<1>1. n \in Nat /\ n >= 1 /\ 24 * n < U32 /\ U32 \in Nat
  <2>1. {t} \subseteq Waiters /\ Cardinality({t}) = 1
    BY FS_Singleton
  <2>2. Cardinality({t}) <= Cardinality(Waiters)
    BY <2>1, CountsFinite, FS_Subset
  <2> QED
    BY <2>1, <2>2, CountsFinite, Width DEF FewThreads
<1>2. ASSUME NEW i \in Nat, i < U32 PROVE i % U32 = i /\ i \in Word32
  BY <1>1, <1>2, Mod32 DEF Word32
<1>3. ASSUME WaitRef(t) PROVE cond'.wrefs = cond.wrefs + 8
  <2>1. pc[t] = "wref" /\ cond' = [cond EXCEPT !.wrefs = (cond.wrefs + 8) % U32]
    BY <1>3 DEF WaitRef, Goto, _WaitersRefStep
  <2>2. dead = "live" /\ cond.wrefs = 8 * Cardinality(Referenced)
    BY <2>1, ReferencedFinite DEF DestroyInv
  <2>3. cond.wrefs + 8 \in Nat /\ cond.wrefs + 8 < U32
    <3> HIDE DEF n
    <3>1. Cardinality(Referenced) <= n /\ Cardinality(Referenced) \in Nat
      BY ReferencedFinite DEF n
    <3> QED
      BY <1>1, <2>2, <3>1
  <2>4. (cond.wrefs + 8) % U32 = cond.wrefs + 8 /\ cond.wrefs + 8 \in Word32
    BY <1>2, <2>3
  <2> QED
    BY <1>0, <2>1, <2>4, SetWrefs
<1>4. ASSUME WaitUnref(t) PROVE cond'.wrefs = cond.wrefs - 8
  <2>1. pc[t] = "done" /\ cond' = [cond EXCEPT !.wrefs = (cond.wrefs - 8) % U32]
    BY <1>4 DEF WaitUnref, Goto, _WaitersRefStep
  <2>2. Cardinality(Referenced) \in Nat /\ Cardinality(Referenced) # 0
    <3>1. t \in Referenced
      BY <2>1 DEF Referenced, WaitingPCs
    <3> QED
      BY <3>1, ReferencedFinite, FS_EmptySet
  <2>3. cond.wrefs - 8 \in Nat /\ cond.wrefs - 8 < U32
    BY <1>0, <1>1, <2>2 DEF DestroyInv, Word32
  <2>4. (cond.wrefs - 8) % U32 = cond.wrefs - 8 /\ cond.wrefs - 8 \in Word32
    BY <1>2, <2>3
  <2> QED
    BY <1>0, <2>1, <2>4, SetWrefs
<1>5. PICK r \in Word32 : r = cond.g_refs[G(t)]
  BY <1>0
<1>6. r \div 2 = Cardinality(Holders(G(t))) /\ r \div 2 \in Nat /\ r \div 2 <= n
  BY <1>0, <1>5, HoldersFinite DEF RefsInv
<1>7. ASSUME TakeGroupRef(t) PROVE cond'.g_refs[G(t)] = r + 2
  <2>1. cond' = [cond EXCEPT !.g_refs[G(t)] = (r + 2) % U32]
    BY <1>5, <1>7 DEF TakeGroupRef, _GRefsStep
  <2>2. r + 2 \in Nat /\ r + 2 < U32
    <3> HIDE DEF n
    <3> QED
      BY <1>1, <1>6 DEF Word32
  <2>3. (r + 2) % U32 = r + 2 /\ r + 2 \in Word32
    BY <1>2, <2>2
  <2> QED
    BY <1>0, <2>1, <2>3, SetRefs
<1>8. ASSUME DropGroupRef(t) PROVE cond'.g_refs[G(t)] = r - 2
  <2>1. pc[t] = "drop" /\ cond' = [cond EXCEPT !.g_refs[G(t)] = (r - 2) % U32]
    BY <1>5, <1>8 DEF DropGroupRef, Goto, _GRefsStep
  <2>2. r \div 2 # 0
    <3>1. t \in Holders(G(t))
      BY <2>1 DEF Holders, HoldPCs
    <3> QED
      BY <1>6, <3>1, HoldersFinite, FS_EmptySet
  <2>3. r - 2 \in Nat /\ r - 2 < U32
    BY <1>1, <1>6, <2>2 DEF Word32
  <2>4. (r - 2) % U32 = r - 2 /\ r - 2 \in Word32
    BY <1>2, <2>3
  <2> QED
    BY <1>0, <2>1, <2>4, SetRefs
<1>9. ASSUME UndoAdd(t) PROVE cond'.g_signals[G(t)] = Signals(t) + 2
  <2>1. PICK w \in Word32 : w = cond.g_signals[G(t)]
    BY <1>0
  <2>2. cond' = [cond EXCEPT !.g_signals[G(t)] = (w + 2) % U32] /\ Signals(t) = w
    BY <1>9, <2>1 DEF UndoAdd, _SignalsStep, Signals
  <2>3. w \div 2 \in Nat /\ w \div 2 <= 4 * n
    <3>1. /\ Cardinality(Adders) \in Nat /\ Cardinality(Members) \in Nat
          /\ Cardinality(Members) <= n /\ w \div 2 \in Nat
      BY <2>1, CountsFinite, SignalArithmetic
    <3>2. Position \in Nat /\ End \in Nat /\ End <= Position /\ G1 \in {0, 1}
      BY <1>0, EndBound, GroupTypes
    <3>3. CASE G(t) = G1
      <4>1. w \div 2 + cond.g_size[G1] + Cardinality(Adders) <= 4 * n
        BY <2>1, <3>3 DEF G1Bound
      <4> HIDE DEF n
      <4> QED
        BY <1>0, <1>1, <3>1, <3>2, <4>1
    <3>4. CASE G(t) # G1
      <4>1. G(t) = _G2(cond.wseq)
        BY <1>0, <3>4, GroupTypes DEF G1, _GAnother
      <4>2. Position - End + w \div 2 + Cardinality(Adders) <= Cardinality(Members) + 2 * n
        BY <2>1, <4>1 DEF Known, SizeInv, G2Signals
      <4> HIDE DEF n
      <4> QED
        BY <1>1, <3>1, <3>2, <4>2
    <3> QED
      BY <3>3, <3>4
  <2>4. w + 2 \in Nat /\ w + 2 < U32
    <3> HIDE DEF n
    <3> QED
      BY <1>1, <2>3 DEF Word32
  <2>5. (w + 2) % U32 = w + 2 /\ w + 2 \in Word32
    BY <1>2, <2>4
  <2> QED
    BY <1>0, <2>2, <2>5, SetSignals
<1> QED
  BY <1>3, <1>4, <1>5, <1>7, <1>8, <1>9 DEF _WaitersRefStep, _GRefsStep, _SignalsStep

\* The counts a signaler moves, under the inner lock.
LEMMA SignalerExact ==
  ASSUME FewThreads, Known, G1Bound, NEW s \in Signalers
  PROVE  /\ BroadcastG1(s) => Gives(s, cond.g_size[G(s)])
         /\ Post(s) => Gives(s, IF loc[s].ctl = "signal" THEN 1 ELSE cond.g_size[G(s)])
         /\ CheckG2(s) =>
              (pc'[s] = "s_unlock" <=>
                 loc[s].seq + cond.g_size[_GAnother(G(s))] = Start + cond.orig_size)
         /\ AdvanceG1Start(s) =>
              cond'.g1_start = cond.g1_start + 2 * cond.orig_size
                                 + (IF G(s) = 1 THEN 1 ELSE -1)
         /\ SwitchGroups(s) =>
              LET positions == Position - loc[s].base
              IN  /\ cond'.orig_size = positions
                  /\ cond'.g_size[G(s)'] = cond.g_size[_GAnother(G(s))] + positions
<1>0. /\ Types /\ PlaceInv /\ GroupInv /\ SmallGroups /\ cond \in CondType
      /\ s \in Threads /\ pc \in [Threads -> Places] /\ loc \in [Threads -> LocType]
      /\ loc[s] \in LocType /\ G(s) \in {0, 1} /\ G1 \in {0, 1}
      /\ Start \in Nat /\ End \in Nat /\ Position \in Nat /\ Start <= End /\ End <= Position
      /\ cond.orig_size \in 0..(U32 \div 4 - 1) /\ cond.orig_size \in Nat
      /\ cond.g1_start \in Nat /\ \A i \in {0, 1} : cond.g_signals[i] \in Word32
  <2>1. Types /\ GroupInv
    BY DEF Known
  <2>2. cond \in CondType /\ \A i \in {0, 1} : cond.g_signals[i] \in Word32
    BY <2>1, CondFields DEF Types, Word32
  <2> QED
    BY <2>1, <2>2, SignalerValues, GroupTypes, EndBound DEF Known, Types
<1>1. ASSUME BroadcastG1(s) \/ Post(s)
      PROVE  Gives(s, IF pc[s] = "post" /\ loc[s].ctl = "signal" THEN 1 ELSE cond.g_size[G(s)])
  <2>1. G(s) = G1
    BY <1>1, GiveStep
  <2>2. PICK k \in Nat : /\ cond'.g_signals[G1] = cond.g_signals[G1] + 2 * k
                         /\ cond'.g_size[G1] = cond.g_size[G1] - k
                         /\ IF pc[s] = "post" /\ loc[s].ctl = "signal" THEN k = 1
                            ELSE k = cond.g_size[G1]
    BY <1>1, GiveExact
  <2>3. Gives(s, k)
    BY <2>1, <2>2 DEF Gives, Signals, _SignalsStep
  <2> QED
    BY <2>1, <2>2, <2>3
<1>2. /\ BroadcastG1(s) => pc[s] = "b_post"
      /\ Post(s) => pc[s] = "post"
  BY DEF BroadcastG1, Post, Goto
<1>3. ASSUME CheckG2(s)
      PROVE  pc'[s] = "s_unlock" <=>
               loc[s].seq + cond.g_size[_GAnother(G(s))] = Start + cond.orig_size
  <2>1. pc[s] = "q_check" /\ pc[s] \in InnerPCs
    BY <1>3 DEF CheckG2, Goto, InnerPCs
  <2>2. ~Flipping /\ SteadyGroups /\ HolderInv(s)
    BY <1>0, <2>1, HolderFinds
  <2>3. /\ G(s) = G1 /\ loc[s].seq \in End..Position /\ End = Start + cond.orig_size
        /\ cond.g_size[_GAnother(G(s))] = 0
    BY <2>1, <2>2 DEF HolderInv, SteadyGroups, End
  <2> DEFINE d == loc[s].seq - End
  <2>4. d \in 0..(U32 - 1) /\ d + 0 = d
    BY <1>0, <2>3, Width DEF SmallGroups
  <2>5. pc'[s] = IF (d + 0) % U32 = 0 THEN "s_unlock" ELSE "q_close"
    BY <1>0, <1>3, <2>3 DEF CheckG2, Goto, Start
  <2>6. (d + 0) % U32 = d
    BY <2>4, Mod32
  <2>7. d = 0 <=> loc[s].seq + 0 = End
    BY <1>0, <2>3
  <2> HIDE DEF d
  <2> QED
    BY <2>3, <2>5, <2>6, <2>7
<1>4. ASSUME AdvanceG1Start(s)
      PROVE  cond'.g1_start = cond.g1_start + 2 * cond.orig_size
                                + (IF G(s) = 1 THEN 1 ELSE -1)
  <2>1. pc[s] = "q_advance" /\ pc[s] \in InnerPCs
    BY <1>4 DEF AdvanceG1Start, Goto, InnerPCs
  <2>2. ~Flipping /\ SteadyGroups /\ HolderInv(s)
    BY <1>0, <2>1, HolderFinds
  <2>3. G(s) = 1 - (cond.g1_start % 2)
    BY <2>1, <2>2 DEF HolderInv, Flipping, G1, _GAnother, _G2
  <2> DEFINE d == 2 * cond.orig_size + (IF G(s) = 1 THEN 1 ELSE -1)
  <2>4. d \in 0..(U32 - 1)
    <3>1. cond.g1_start % 2 = 1 => cond.orig_size > 0
      BY <2>2 DEF SteadyGroups
    <3>2. G(s) = 1 \/ (G(s) = 0 /\ cond.g1_start % 2 = 1)
      BY <1>0, <2>3
    <3> QED
      BY <1>0, <3>1, <3>2, Width
  <2>5. d % U32 = d /\ d \in Nat
    BY <2>4, Mod32
  <2>6. cond' = [cond EXCEPT !.g1_start = cond.g1_start + (d % U32)]
    BY <1>4 DEF AdvanceG1Start
  <2> HIDE DEF d
  <2>7. cond'.g1_start = cond.g1_start + d
    BY <1>0, <2>5, <2>6, SetStart
  <2> QED
    BY <1>0, <2>7 DEF d
<1>5. ASSUME SwitchGroups(s)
      PROVE  /\ cond'.orig_size = Position - loc[s].base
             /\ cond'.g_size[G(s)'] = cond.g_size[_GAnother(G(s))] + (Position - loc[s].base)
  <2>1. pc[s] = "q_flip"
    BY <1>5 DEF SwitchGroups, Goto
  <2>2. /\ Flipping /\ G(s) = _G2(cond.g1_start) /\ cond.g_size[_GAnother(G(s))] = 0
        /\ loc[s].base = End
    BY <1>0, <2>1 DEF GroupInv, HolderInv
  <2>3. /\ End' = Position /\ Start' = Start /\ G1' = _G2(cond.wseq) /\ End = Start
        /\ cond'.g_size[G1'] = Position - End /\ ~Flipping'
    BY <1>0, <1>5, GroupSwitch
  <2>4. G(s)' = G1'
    <3>1. loc' = [loc EXCEPT ![s].g = _GAnother(G(s)), ![s].base = 0]
      BY <1>5 DEF SwitchGroups
    <3>2. loc'[s].g = _GAnother(G(s))
      BY <1>0, <3>1 DEF LocType
    <3>3. _GAnother(G(s)) = _G2(cond.wseq)
      BY <1>0, <2>2, Slots, GroupTypes DEF Flipping
    <3> QED
      BY <2>3, <3>2, <3>3 DEF G
  <2>5. cond'.orig_size = Position - End
    <3>1. End' = Start' + cond'.orig_size
      BY <2>3 DEF End
    <3>2. cond'.orig_size \in Nat
      BY <1>0, <1>5, SignalerSteps, CondFields, Width DEF SignalStep, SignalerEffect, Types
    <3> QED
      BY <1>0, <2>3, <3>1, <3>2
  <2> QED
    BY <1>0, <2>2, <2>3, <2>4, <2>5
<1> QED
  BY <1>1, <1>2, <1>3, <1>4, <1>5

\* However long the threads wait, signal and put signals back, no count of the
\* condition variable wraps around its 32 bits or runs into a flag: wrefs and
\* g_refs count the threads there are (pthread_cond.h:74, 91, 109, 149), and
\* g_signals, g_size and the group sizes hold a few per thread (:138, 192-209,
\* 230-231, 257-265).
THEOREM CountsNeverWrap ==
  ASSUME FewThreads PROVE Spec => []TypeOK /\ [][CountsExact]_vars
<1>0. ASSUME CondInv PROVE Known /\ FewWaiters
  <2>1. FewWaiters
    BY CountsFinite, Width DEF FewThreads, FewWaiters
  <2>2. Types
    BY <1>0, TypesNamed DEF CondInv
  <2> QED
    BY <1>0, <2>1, <2>2, SizesBound DEF CondInv, Known
<1>1. Init => DestroyInv /\ G1Bound
  BY DestroyInit, G1BoundInit
<1>2. CondInv /\ DestroyInv /\ G1Bound /\ [Next]_vars => DestroyInv' /\ G1Bound'
  <2> SUFFICES ASSUME CondInv, DestroyInv, G1Bound, [Next]_vars PROVE DestroyInv' /\ G1Bound'
    OBVIOUS
  <2>1. Known /\ FewWaiters
    BY <1>0
  <2>2. DestroyInv'
    BY <2>1, WaiterDestroys, SignalerDestroys, DestroyUnchanged DEF Next, Known
  <2>3. UNCHANGED vars => G1Bound'
    <3> SUFFICES ASSUME UNCHANGED vars PROVE G1Bound'
      OBVIOUS
    <3>1. KeepGroups /\ cond' = cond /\ pc' = pc /\ loc' = loc
      BY DEF vars, KeepGroups
    <3>2. G1' = G1 /\ Adders' = Adders
      BY <3>1, GroupsKept, AddersKept
    <3> QED
      BY <3>1, <3>2 DEF G1Bound
  <2>4. G1Bound'
    BY <2>1, <2>3, G1BoundWaiter, G1BoundSignaler DEF Next, Known
  <2> QED
    BY <2>2, <2>4
<1>3. CondInv /\ DestroyInv /\ G1Bound /\ [Next]_vars => [CountsExact]_vars
  <2> SUFFICES ASSUME CondInv, DestroyInv, G1Bound PROVE CountsExact
    OBVIOUS
  <2>1. Known /\ RefsInv
    BY <1>0 DEF CondInv
  <2> QED
    BY <2>1, WaiterExact, SignalerExact DEF CountsExact
<1>4. CondInv => TypeOK
  BY DEF CondInv
<1> QED
  BY <1>1, <1>2, <1>3, <1>4, CondInvHolds, PTL DEF Spec

=============================================================================
