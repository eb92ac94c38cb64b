--------------------------- MODULE GeneratorProofs ---------------------------
(***************************************************************************)
(* Proofs about the generator program, for any number of consumers and of  *)
(* rounds, as long as the loop of make_generator yields one value for each *)
(* round of each consumer (Sizes).                                         *)
(***************************************************************************)
EXTENDS Generator, FiniteSetTheorems, TLAPS

-----------------------------------------------------------------------------
(* The inductive invariant *)

\* The rounds of the consumers in which the generator has been resumed.
AllRounds == Consumers \X (1..Rounds)
Yielded(c) == at[c] \in {"lookup", "unlock"}
Done == {p \in AllRounds : \/ p[2] <= round[p[1]]
                           \/ p[2] = round[p[1]] + 1 /\ Yielded(p[1])}

Types ==
  /\ co \in {"suspended", "running", "final", "destroyed"}
  /\ i \in Nat
  /\ mtx \in Consumers \cup {NoOne}
  /\ at \in [Consumers -> {"sleep", "resume", "inside", "lookup", "unlock"}]
  /\ round \in [Consumers -> 0..Rounds]
  /\ main \in {"join", "inside", "return", "end"}
  /\ seen \in Seq(Int)

\* A consumer is in its round exactly while it has the mutex, and main goes on
\* when all are done.
LockInv ==
  /\ \A c \in Consumers : /\ at[c] # "sleep" <=> mtx = c
                          /\ at[c] # "sleep" => round[c] < Rounds
  /\ main # "join" => \A c \in Consumers : at[c] = "sleep" /\ round[c] = Rounds

\* The coroutine runs while somebody is inside its resume(), and waits otherwise.
CoInv ==
  /\ \A c \in Consumers : at[c] = "inside" => co = "running"
  /\ main = "join" /\ (\A c \in Consumers : at[c] # "inside") => co = "suspended"
  /\ main = "inside" => co = "running"

\* The generator has yielded once for each round done, and the value of the
\* last yield is the one that the next lookup finds.
YieldInv ==
  /\ main \in {"join", "inside"} => i = Cardinality(Done) /\ val = 10 * i
  /\ main \in {"return", "end"} => i = Yields + 1 /\ val = 10 * Yields

SeenInv ==
  /\ \A n \in 1..Len(seen) : seen[n] = 10 * n
  /\ main = "join" =>
       /\ (\A c \in Consumers : at[c] # "lookup") => Len(seen) = i
       /\ \A c \in Consumers : at[c] = "lookup" => Len(seen) + 1 = i

GInv == Types /\ LockInv /\ CoInv /\ YieldInv /\ SeenInv

-----------------------------------------------------------------------------
(* Counting the rounds *)

\* There are as many rounds as the loop has values, and none is counted twice.
LEMMA RoundsCount ==
  ASSUME Sizes
  PROVE  /\ IsFiniteSet(AllRounds) /\ Cardinality(AllRounds) = Yields /\ Yields \in Nat
         /\ IsFiniteSet(Done) /\ Cardinality(Done) \in Nat /\ Cardinality(Done) <= Yields
         /\ Done # AllRounds => Cardinality(Done) < Yields
<1>1. IsFiniteSet(1..Rounds) /\ Cardinality(1..Rounds) = Rounds
  BY FS_Interval DEF Sizes
<1>2. /\ IsFiniteSet(AllRounds) /\ Cardinality(AllRounds) = Cardinality(Consumers) * Rounds
      /\ Cardinality(Consumers) \in Nat
  BY <1>1, FS_Product, FS_CardinalityType DEF AllRounds, Sizes
<1>3. Cardinality(AllRounds) = Yields /\ Yields \in Nat
  BY <1>2 DEF Sizes
<1>4. Done \in SUBSET AllRounds
  BY DEF Done
<1>5. /\ IsFiniteSet(Done) /\ Cardinality(Done) <= Cardinality(AllRounds)
      /\ Cardinality(AllRounds) = Cardinality(Done) => AllRounds = Done
  BY <1>2, <1>4, FS_Subset
<1>6. Cardinality(Done) \in Nat
  BY <1>5, FS_CardinalityType
<1> QED
  BY <1>2, <1>3, <1>5, <1>6

\* A consumer that is inside the resume() is in a round that is not counted yet;
\* when it comes back that round and no other is.
LEMMA RoundDone ==
  ASSUME Sizes, Types, NEW c \in Consumers, at[c] = "inside", round[c] < Rounds,
         at' = [at EXCEPT ![c] = "lookup"], round' = round
  PROVE  Cardinality(Done)' = Cardinality(Done) + 1 /\ Cardinality(Done) < Yields
<1> DEFINE p == <<c, round[c] + 1>>
<1>1. round[c] \in 0..Rounds /\ Rounds \in Nat /\ DOMAIN at = Consumers
  BY DEF Types, Sizes
<1>2. p \in AllRounds /\ p \notin Done
  BY <1>1 DEF AllRounds, Done, Yielded
<1>3. Done' = Done \cup {p}
  <2>1. ASSUME NEW q \in AllRounds PROVE q \in Done' <=> q \in Done \/ q = p
    <3>1. q[1] \in Consumers /\ q[2] \in 1..Rounds /\ q = <<q[1], q[2]>>
      BY DEF AllRounds
    <3>2. CASE q[1] # c
      <4>1. at'[q[1]] = at[q[1]] /\ q # p
        BY <1>1, <3>1, <3>2
      <4> QED
        BY <4>1 DEF Done, Yielded
    <3>3. CASE q[1] = c
      <4>1. at'[q[1]] = "lookup" /\ at[q[1]] = "inside"
        BY <1>1, <3>3
      <4>2. q = p <=> q[2] = round[q[1]] + 1
        BY <3>1, <3>3
      <4> QED
        BY <4>1, <4>2 DEF Done, Yielded
    <3> QED
      BY <3>2, <3>3
  <2>2. Done' \subseteq AllRounds /\ Done \cup {p} \subseteq AllRounds
    BY <1>2 DEF Done, AllRounds
  <2> QED
    BY <2>1, <2>2
<1>4. Cardinality(Done \cup {p}) = Cardinality(Done) + 1
  BY <1>2, RoundsCount, FS_AddElement
<1> QED
  BY <1>2, <1>3, <1>4, RoundsCount

\* A consumer's other steps count no round.
LEMMA DoneStays ==
  ASSUME Sizes, Types, NEW c \in Consumers,
         \/ /\ round' = round
            /\ \A d \in Consumers : Yielded(d)' <=> Yielded(d)
         \/ /\ at[c] = "unlock" /\ at' = [at EXCEPT ![c] = "sleep"]
            /\ round' = [round EXCEPT ![c] = round[c] + 1]
  PROVE  Done' = Done
<1>1. CASE round' = round /\ \A d \in Consumers : Yielded(d)' <=> Yielded(d)
  <2>1. ASSUME NEW q \in AllRounds PROVE q \in Done' <=> q \in Done
    <3>1. q[1] \in Consumers
      BY DEF AllRounds
    <3>2. Yielded(q[1])' <=> Yielded(q[1])
      BY <1>1, <3>1 DEF Yielded
    <3> QED
      BY <1>1, <3>2 DEF Done, Yielded
  <2> QED
    BY <2>1 DEF Done, AllRounds
<1>2. CASE /\ at[c] = "unlock" /\ at' = [at EXCEPT ![c] = "sleep"]
           /\ round' = [round EXCEPT ![c] = round[c] + 1]
  <2>1. ASSUME NEW q \in AllRounds PROVE q \in Done' <=> q \in Done
    <3>1. q[1] \in Consumers /\ q[2] \in 1..Rounds /\ round[q[1]] \in 0..Rounds
      BY DEF AllRounds, Types
    <3>2. CASE q[1] # c
      <4>1. at'[q[1]] = at[q[1]] /\ round'[q[1]] = round[q[1]]
        BY <1>2, <3>1, <3>2 DEF Types
      <4> QED
        BY <4>1 DEF Done, Yielded
    <3>3. CASE q[1] = c
      <4>1. at'[q[1]] = "sleep" /\ at[q[1]] = "unlock" /\ round'[q[1]] = round[q[1]] + 1
        BY <1>2, <3>1, <3>3 DEF Types
      <4>2. q[2] <= round[q[1]] + 1 <=> q[2] <= round[q[1]] \/ q[2] = round[q[1]] + 1
        BY <3>1
      <4> QED
        BY <4>1, <4>2 DEF Done, Yielded
    <3> QED
      BY <3>2, <3>3
  <2> QED
    BY <2>1 DEF Done, AllRounds
<1> QED
  BY <1>1, <1>2

-----------------------------------------------------------------------------
(* Each part of the invariant is kept by every step *)

\* Each variable stays in its range.
LEMMA TypesStep == Sizes /\ GInv /\ [Next]_vars => Types'
<1> SUFFICES ASSUME Sizes, GInv, [Next]_vars PROVE Types'
  OBVIOUS
<1> USE DEF Types
<1>0. Types /\ Rounds \in Nat
  BY DEF GInv, Sizes
<1>1. CASE UNCHANGED vars
  BY <1>0, <1>1 DEF vars
<1>2. ASSUME NEW c \in Consumers, Lock(c) \/ Resume(c) PROVE Types'
  BY <1>0, <1>2 DEF Lock, Resume, Goto
<1>3. ASSUME NEW c \in Consumers, ResumeReturns(c) PROVE Types'
  BY <1>0, <1>3 DEF ResumeReturns, Yield, Goto
<1>4. ASSUME NEW c \in Consumers, Lookup(c) PROVE Types'
  <2>1. i \in Nat /\ val \in Int
    <3>1. main = "join"
      BY <1>4 DEF GInv, LockInv, Lookup, Goto
    <3> QED
      BY <1>0, <3>1 DEF GInv, YieldInv
  <2> QED
    BY <1>0, <1>4, <2>1 DEF Lookup, Goto
<1>5. ASSUME NEW c \in Consumers, Unlock(c) PROVE Types'
  <2>1. round[c] + 1 \in 0..Rounds
    BY <1>0, <1>5 DEF GInv, LockInv, Unlock, Goto
  <2> QED
    BY <1>0, <1>5, <2>1 DEF Unlock, Goto
<1>6. CASE Join \/ LastResumeReturns \/ Destroy
  BY <1>0, <1>6 DEF Join, LastResumeReturns, Destroy, Yield
<1> QED
  BY <1>1, <1>2, <1>3, <1>4, <1>5, <1>6 DEF Next

\* The mutex gives the consumers their rounds one at a time, and what a resume()
\* yields is seen before the next one yields.
LEMMA GInvStep == Sizes /\ GInv /\ [Next]_vars => GInv'
<1> SUFFICES ASSUME Sizes, GInv, [Next]_vars PROVE GInv'
  OBVIOUS
<1>T. Types'
  BY TypesStep
<1>0. /\ Types /\ LockInv /\ CoInv /\ YieldInv /\ SeenInv
      /\ Rounds \in Nat /\ NoOne \notin Consumers
      /\ Yields \in Nat /\ Cardinality(Done) \in Nat /\ Cardinality(Done) <= Yields
  BY RoundsCount DEF GInv, Sizes
<1> SUFFICES LockInv' /\ CoInv' /\ YieldInv' /\ SeenInv'
  BY <1>T DEF GInv
<1>1. CASE UNCHANGED vars
  <2>1. Done' = Done
    BY <1>1 DEF Done, Yielded, vars
  <2> QED
    BY <1>0, <1>1, <2>1 DEF vars, LockInv, CoInv, YieldInv, SeenInv
<1>2. ASSUME NEW c \in Consumers, at[c] # "sleep"
      PROVE  /\ main = "join" /\ mtx = c /\ round[c] < Rounds
             /\ \A d \in Consumers : d # c => at[d] = "sleep"
  BY <1>0, <1>2 DEF LockInv
<1>3. ASSUME NEW c \in Consumers, Lock(c) PROVE LockInv' /\ CoInv' /\ YieldInv' /\ SeenInv'
  <2>1. /\ at[c] = "sleep" /\ at' = [at EXCEPT ![c] = "resume"] /\ round[c] < Rounds
        /\ mtx = NoOne /\ mtx' = c /\ UNCHANGED <<co, i, val, round, main, seen>>
    BY <1>3 DEF Lock, Goto
  <2>2. \A d \in Consumers : at[d] = "sleep"
    BY <1>0, <2>1 DEF LockInv
  <2>3. \A d \in Consumers : at'[d] = IF d = c THEN "resume" ELSE "sleep"
    BY <1>0, <2>1, <2>2 DEF Types
  <2>4. Done' = Done
    <3>1. \A d \in Consumers : Yielded(d)' <=> Yielded(d)
      BY <2>2, <2>3 DEF Yielded
    <3> QED
      BY <1>0, <2>1, <3>1, DoneStays
  <2>5. main = "join" /\ LockInv'
    BY <1>0, <2>1, <2>2, <2>3 DEF LockInv, Types
  <2> QED
    BY <1>0, <2>1, <2>2, <2>3, <2>4, <2>5 DEF CoInv, YieldInv, SeenInv
<1>4. ASSUME NEW c \in Consumers, Resume(c) PROVE LockInv' /\ CoInv' /\ YieldInv' /\ SeenInv'
  <2>1. /\ at[c] = "resume" /\ at' = [at EXCEPT ![c] = "inside"] /\ co' = "running"
        /\ UNCHANGED <<i, val, mtx, round, main, seen>>
    BY <1>4 DEF Resume, Goto
  <2>2. \A d \in Consumers : at'[d] = IF d = c THEN "inside" ELSE at[d]
    BY <1>0, <2>1 DEF Types
  <2>3. Done' = Done
    <3>1. \A d \in Consumers : Yielded(d)' <=> Yielded(d)
      BY <2>1, <2>2 DEF Yielded
    <3> QED
      BY <1>0, <2>1, <3>1, DoneStays
  <2> QED
    BY <1>0, <1>2, <2>1, <2>2, <2>3 DEF LockInv, CoInv, YieldInv, SeenInv
<1>5. ASSUME NEW c \in Consumers, ResumeReturns(c)
      PROVE  LockInv' /\ CoInv' /\ YieldInv' /\ SeenInv'
  <2>1. /\ at[c] = "inside" /\ at' = [at EXCEPT ![c] = "lookup"]
        /\ Yield /\ UNCHANGED <<mtx, round, main, seen>>
    BY <1>5 DEF ResumeReturns, Goto
  <2>2. /\ main = "join" /\ round[c] < Rounds
        /\ \A d \in Consumers : d # c => at[d] = "sleep"
    BY <1>2, <2>1
  <2>3. \A d \in Consumers : at'[d] = IF d = c THEN "lookup" ELSE "sleep"
    BY <1>0, <2>1, <2>2 DEF Types
  <2>4. Cardinality(Done)' = i + 1 /\ i < Yields
    BY <1>0, <2>1, <2>2, RoundDone DEF YieldInv
  <2>5. i' = i + 1 /\ i' <= Yields /\ i' \in Nat
    BY <1>0, <2>1, <2>4 DEF Yield, Types
  <2>6. val' = 10 * i' /\ co' = "suspended"
    BY <2>1, <2>5 DEF Yield
  <2>7. Len(seen) = i
    BY <1>0, <2>1, <2>2 DEF SeenInv
  <2> QED
    BY <1>0, <2>1, <2>2, <2>3, <2>4, <2>5, <2>6, <2>7
       DEF LockInv, CoInv, YieldInv, SeenInv
<1>6. ASSUME NEW c \in Consumers, Lookup(c) PROVE LockInv' /\ CoInv' /\ YieldInv' /\ SeenInv'
  <2>1. /\ at[c] = "lookup" /\ at' = [at EXCEPT ![c] = "unlock"]
        /\ seen' = Append(seen, val) /\ UNCHANGED <<co, i, val, mtx, round, main>>
    BY <1>6 DEF Lookup, Goto
  <2>2. main = "join" /\ \A d \in Consumers : d # c => at[d] = "sleep"
    BY <1>2, <2>1
  <2>3. \A d \in Consumers : at'[d] = IF d = c THEN "unlock" ELSE "sleep"
    BY <1>0, <2>1, <2>2 DEF Types
  <2>4. Done' = Done
    <3>1. \A d \in Consumers : Yielded(d)' <=> Yielded(d)
      BY <2>1, <2>2, <2>3 DEF Yielded
    <3> QED
      BY <1>0, <2>1, <3>1, DoneStays
  <2>5. val = 10 * i /\ Len(seen) + 1 = i /\ val \in Int
    BY <1>0, <2>1, <2>2 DEF YieldInv, SeenInv, Types
  <2>6. Len(seen') = i' /\ \A n \in 1..Len(seen') : seen'[n] = 10 * n
    <3>1. seen \in Seq(Int) /\ \A n \in 1..Len(seen) : seen[n] = 10 * n
      BY <1>0 DEF Types, SeenInv
    <3>2. /\ Len(seen') = Len(seen) + 1 /\ seen'[Len(seen) + 1] = val
          /\ \A n \in 1..Len(seen) : seen'[n] = seen[n]
      BY <2>1, <2>5, <3>1
    <3>3. val = 10 * (Len(seen) + 1) /\ Len(seen) \in Nat
      BY <2>5, <3>1
    <3> QED
      BY <2>1, <2>5, <3>1, <3>2, <3>3
  <2> QED
    BY <1>0, <2>1, <2>2, <2>3, <2>4, <2>6 DEF LockInv, CoInv, YieldInv, SeenInv
<1>7. ASSUME NEW c \in Consumers, Unlock(c) PROVE LockInv' /\ CoInv' /\ YieldInv' /\ SeenInv'
  <2>1. /\ at[c] = "unlock" /\ at' = [at EXCEPT ![c] = "sleep"] /\ mtx' = NoOne
        /\ round' = [round EXCEPT ![c] = round[c] + 1]
        /\ UNCHANGED <<co, i, val, main, seen>>
    BY <1>7 DEF Unlock, Goto
  <2>2. main = "join" /\ \A d \in Consumers : d # c => at[d] = "sleep"
    BY <1>2, <2>1
  <2>3. \A d \in Consumers : at'[d] = "sleep"
    BY <1>0, <2>1, <2>2 DEF Types
  <2>4. Done' = Done
    BY <1>0, <2>1, DoneStays
  <2>5. co = "suspended" /\ Len(seen) = i
    BY <1>0, <2>1, <2>2 DEF CoInv, SeenInv
  <2> QED
    BY <1>0, <2>1, <2>2, <2>3, <2>4, <2>5 DEF LockInv, CoInv, YieldInv, SeenInv
<1>8. ASSUME UNCHANGED <<at, round>> PROVE Done' = Done
  BY <1>8 DEF Done, Yielded
<1>9. CASE Join
  <2>1. \A c \in Consumers : at[c] = "sleep"
    BY <1>0, <1>9, <1>2 DEF Join
  <2>2. Done' = Done
    BY <1>8, <1>9 DEF Join
  <2> QED
    BY <1>0, <1>9, <2>1, <2>2 DEF Join, LockInv, CoInv, YieldInv, SeenInv
<1>10. CASE LastResumeReturns
  <2>1. Done = AllRounds
    <3>1. \A c \in Consumers : round[c] = Rounds
      BY <1>0, <1>10 DEF LastResumeReturns, LockInv
    <3>2. \A q \in AllRounds : q[1] \in Consumers /\ q[2] \in 1..Rounds
      BY DEF AllRounds
    <3> QED
      BY <3>1, <3>2 DEF Done
  <2>2. i = Yields /\ val = 10 * Yields
    BY <1>0, <1>10, <2>1, RoundsCount DEF LastResumeReturns, YieldInv
  <2>3. i' = Yields + 1 /\ val' = 10 * Yields
    BY <1>0, <1>10, <2>2 DEF LastResumeReturns, Yield
  <2> QED
    BY <1>0, <1>10, <2>3 DEF LastResumeReturns, LockInv, CoInv, YieldInv, SeenInv
<1>11. CASE Destroy
  BY <1>0, <1>11 DEF Destroy, LockInv, CoInv, YieldInv, SeenInv
<1> QED
  BY <1>1, <1>3, <1>4, <1>5, <1>6, <1>7, <1>9, <1>10, <1>11 DEF Next

\* The program starts with no round done.
LEMMA GInvInit == Sizes /\ Init => GInv
<1> SUFFICES ASSUME Sizes, Init PROVE GInv
  OBVIOUS
<1>1. /\ co = "suspended" /\ i = 0 /\ val = 0 /\ mtx = NoOne /\ main = "join" /\ seen = <<>>
      /\ at = [c \in Consumers |-> "sleep"] /\ round = [c \in Consumers |-> 0]
      /\ NoOne \notin Consumers /\ Rounds \in Nat
  BY DEF Init, Sizes
<1>2. Done = {}
  <2>1. \A q \in AllRounds : q[1] \in Consumers /\ q[2] \in 1..Rounds
    BY DEF AllRounds
  <2> QED
    BY <1>1, <2>1 DEF Done, Yielded
<1>3. Cardinality(Done) = 0
  BY <1>2, FS_EmptySet
<1>4. Len(seen) = 0 /\ seen \in Seq(Int)
  BY <1>1
<1> QED
  BY <1>1, <1>3, <1>4 DEF GInv, Types, LockInv, CoInv, YieldInv, SeenInv

-----------------------------------------------------------------------------
(* What follows *)

\* The loop variable and the value in the promise stay within the loop's bound:
\* the consumers resume the generator as often as it yields, and main once more.
THEOREM GeneratorTypeCorrect == ASSUME Sizes PROVE Spec => []TypeOK
<1>1. GInv => TypeOK
  <2> SUFFICES ASSUME GInv PROVE TypeOK
    OBVIOUS
  <2>1. Yields \in Nat /\ Cardinality(Done) \in Nat /\ Cardinality(Done) <= Yields
    BY RoundsCount
  <2>2. \E k \in 0..Yields : val = 10 * k
    BY <2>1 DEF GInv, Types, YieldInv
  <2>3. i \in 0..(Yields + 1)
    BY <2>1 DEF GInv, Types, YieldInv
  <2> QED
    BY <2>2, <2>3 DEF GInv, Types, TypeOK
<1>2. Init => GInv
  BY GInvInit
<1>3. GInv /\ [Next]_vars => GInv'
  BY GInvStep
<1> QED
  BY <1>1, <1>2, <1>3, PTL DEF Spec

\* Nobody resumes the generator while it runs on another thread, or once it has
\* come to its end: neither a consumer in its round nor main after the last one.
THEOREM GeneratorIsSuspended == ASSUME Sizes PROVE Spec => []ResumesSuspended
<1>1. GInv => ResumesSuspended
  <2> SUFFICES ASSUME GInv PROVE ResumesSuspended
    OBVIOUS
  <2>1. ASSUME NEW c \in Consumers, at[c] = "resume" PROVE co = "suspended"
    <3>1. main = "join" /\ \A d \in Consumers : at[d] # "inside"
      BY <2>1 DEF GInv, LockInv
    <3> QED
      BY <3>1 DEF GInv, CoInv
  <2>2. ASSUME main = "join", \A c \in Consumers : round[c] = Rounds
        PROVE  co = "suspended"
    <3>1. \A c \in Consumers : at[c] = "sleep"
      BY <2>2 DEF GInv, LockInv, Sizes
    <3> QED
      BY <2>2, <3>1 DEF GInv, CoInv
  <2> QED
    BY <2>1, <2>2 DEF ResumesSuspended
<1>2. Init => GInv
  BY GInvInit
<1>3. GInv /\ [Next]_vars => GInv'
  BY GInvStep
<1> QED
  BY <1>1, <1>2, <1>3, PTL DEF Spec

\* The consumers see 10, 20, ... without a gap or a repetition, however they
\* take turns.
THEOREM ValuesComeInOrder == ASSUME Sizes PROVE Spec => []ValuesInOrder
<1>1. GInv => ValuesInOrder
  BY DEF GInv, SeenInv, Types, ValuesInOrder
<1>2. Init => GInv
  BY GInvInit
<1>3. GInv /\ [Next]_vars => GInv'
  BY GInvStep
<1> QED
  BY <1>1, <1>2, <1>3, PTL DEF Spec

=============================================================================
