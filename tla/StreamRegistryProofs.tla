------------------------- MODULE StreamRegistryProofs -------------------------
(***************************************************************************)
(* Proof that the registry model is well typed for every number of sinks,  *)
(* samples and every channel capacity.  The WaitGroup counter stays in     *)
(* range because it counts the running run loops, which the proof carries  *)
(* as part of its inductive invariant.                                    *)
(***************************************************************************)
EXTENDS StreamRegistry, FiniteSetTheorems, TLAPS

USE RegistryAssumption

PcSet == {"unstarted", "running", "exited"}

(* The counter equals the number of run loops started and not returned.   *)
WaitGroupCountsRunning ==
    wg = Cardinality(RunningSlots)

(* Before main calls Start, no run loop has been started.                 *)
SetupUnstarted ==
    mainPc = "setup" => \A i \in Slots : sinkPc[i] = "unstarted"

IInv == TypeOK /\ WaitGroupCountsRunning /\ SetupUnstarted

----
(* The running slots of any control-point assignment form a finite set of *)
(* at most MaxSinks elements.                                             *)
LEMMA RunningBound ==
  ASSUME NEW f \in [Slots -> PcSet]
  PROVE  LET R == {i \in Slots : f[i] = "running"}
         IN  IsFiniteSet(R) /\ Cardinality(R) \in 0..MaxSinks
  <1> DEFINE R == {i \in Slots : f[i] = "running"}
  <1>1. IsFiniteSet(Slots) /\ Cardinality(Slots) = MaxSinks
    BY FS_Interval DEF Slots
  <1>2. IsFiniteSet(R) /\ Cardinality(R) <= Cardinality(Slots)
    BY <1>1, FS_Subset
  <1>3. Cardinality(R) \in Nat
    BY <1>2, FS_CardinalityType
  <1> QED
    BY <1>1, <1>2, <1>3

(* The interval 1..n has n elements.                                      *)
LEMMA IntervalCard ==
  ASSUME NEW n \in Nat
  PROVE  Cardinality(1..n) = n
  <1>1. Cardinality(1..n) = IF 1 > n THEN 0 ELSE n - 1 + 1
    BY FS_Interval
  <1> QED
    BY <1>1

(* Initially nothing is registered or started.                            *)
LEMMA InitIInv == Init => IInv
  <1> SUFFICES ASSUME Init PROVE IInv
    OBVIOUS
  <1>1. RunningSlots = {}
    BY DEF Init, RunningSlots
  <1>2. TypeOK
    <2>1. streams \in Seq(Sinks) /\ ch \in Seq(Sample)
      BY DEF Init
    <2>2. got \in [Slots -> Seq(Sample)]
      BY DEF Init
    <2>3. sinkPc \in [Slots -> {"unstarted", "running", "exited"}]
      BY DEF Init
    <2>4. /\ Len(streams) <= MaxSinks /\ Len(ch) <= ChCap
          /\ wg \in 0..MaxSinks /\ produced \in 0..MaxSamples
      BY DEF Init
    <2>5. /\ closed \in BOOLEAN /\ cancelled \in BOOLEAN
          /\ prodPc \in {"sending", "stopped"}
          /\ mainPc \in {"setup", "running", "waiting", "done"}
      BY DEF Init
    <2> QED
      BY <2>1, <2>2, <2>3, <2>4, <2>5 DEF TypeOK
  <1>3. WaitGroupCountsRunning
    BY <1>1, FS_EmptySet DEF Init, WaitGroupCountsRunning
  <1>4. SetupUnstarted
    BY DEF Init, SetupUnstarted
  <1> QED
    BY <1>2, <1>3, <1>4 DEF IInv

(* Start begins exactly the registered run loops, all unstarted before,    *)
(* and adds their number to a WaitGroup that was zero.                     *)
LEMMA StartCount ==
  ASSUME IInv, RegistryStart
  PROVE  WaitGroupCountsRunning'
  <1>1. RunningSlots = {}
    BY DEF RegistryStart, IInv, SetupUnstarted, RunningSlots
  <1>2. wg = 0
    BY <1>1, FS_EmptySet DEF IInv, WaitGroupCountsRunning
  <1>3. Len(streams) \in 0..MaxSinks
    BY DEF IInv, TypeOK
  <1>4. RunningSlots' = 1..Len(streams)
    BY <1>3 DEF RegistryStart, IInv, SetupUnstarted, RunningSlots, Slots
  <1>5. Cardinality(1..Len(streams)) = Len(streams)
    BY <1>3, IntervalCard
  <1> QED
    BY <1>2, <1>4, <1>5 DEF RegistryStart, WaitGroupCountsRunning

(* A run loop that returns leaves the running set and calls Done once.    *)
LEMMA DoneCount ==
  ASSUME IInv, NEW i \in Slots, sinkPc[i] = "running",
         sinkPc' = [sinkPc EXCEPT ![i] = "exited"], wg' = wg - 1
  PROVE  WaitGroupCountsRunning'
  <1>1. sinkPc \in [Slots -> PcSet]
    BY DEF IInv, TypeOK, PcSet
  <1>2. IsFiniteSet(RunningSlots)
    BY <1>1, RunningBound DEF RunningSlots
  <1>3. RunningSlots' = RunningSlots \ {i}
    BY <1>1 DEF RunningSlots
  <1>4. i \in RunningSlots
    BY DEF RunningSlots
  <1>5. Cardinality(RunningSlots') = Cardinality(RunningSlots) - 1
    BY <1>2, <1>3, <1>4, FS_RemoveElement
  <1> QED
    BY <1>5 DEF IInv, WaitGroupCountsRunning

(* The counter stays within 0..MaxSinks because it equals the number of   *)
(* running slots.                                                         *)
LEMMA WgBound ==
  ASSUME NEW f \in [Slots -> PcSet], NEW w,
         w = Cardinality({i \in Slots : f[i] = "running"})
  PROVE  w \in 0..MaxSinks
  BY RunningBound

(* Every step keeps the counter and the setup fact.                       *)
LEMMA NextCount ==
  ASSUME IInv, [Next]_vars
  PROVE  WaitGroupCountsRunning' /\ SetupUnstarted'
  <1>1. CASE UNCHANGED <<sinkPc, wg, mainPc>>
    BY <1>1 DEF IInv, WaitGroupCountsRunning, SetupUnstarted, RunningSlots
  <1>2. CASE RegistryStart
    BY <1>2, StartCount DEF RegistryStart, SetupUnstarted
  <1>3. ASSUME NEW i \in Slots, SinkClosed(i) \/ SinkCancel(i)
        PROVE  WaitGroupCountsRunning' /\ SetupUnstarted'
    <2>1. /\ sinkPc[i] = "running"
          /\ sinkPc' = [sinkPc EXCEPT ![i] = "exited"]
          /\ wg' = wg - 1
          /\ mainPc' = mainPc
      BY <1>3 DEF SinkClosed, SinkCancel
    <2>2. WaitGroupCountsRunning'
      BY <2>1, DoneCount
    <2>3. mainPc # "setup"
      BY <2>1 DEF IInv, SetupUnstarted
    <2> QED
      BY <2>1, <2>2, <2>3 DEF SetupUnstarted
  <1>4. CASE Cancel \/ MainWait
    <2>1. UNCHANGED <<sinkPc, wg>> /\ mainPc' # "setup"
      BY <1>4 DEF Cancel, MainWait
    <2> QED
      BY <2>1 DEF IInv, WaitGroupCountsRunning, SetupUnstarted, RunningSlots
  <1> QED
    <2>1. CASE \E s \in Sinks : Register(s)
      BY <2>1, <1>1 DEF Register
    <2>2. CASE Produce \/ ProducerClose \/ ProducerCancel \/ Terminating
      BY <2>2, <1>1 DEF Produce, ProducerClose, ProducerCancel, Terminating,
                        vars
    <2>3. CASE \E i \in Slots : SinkReceive(i)
      BY <2>3, <1>1 DEF SinkReceive
    <2>4. CASE UNCHANGED vars
      BY <2>4, <1>1 DEF vars
    <2> QED
      BY <2>1, <2>2, <2>3, <2>4, <1>2, <1>3, <1>4 DEF Next

(* Every step keeps the model well typed.                                 *)
LEMMA NextTypeOK ==
  ASSUME IInv, [Next]_vars, WaitGroupCountsRunning'
  PROVE  TypeOK'
  <1> USE DEF IInv, TypeOK
  <1>1. sinkPc' \in [Slots -> PcSet]
    <2>1. CASE RegistryStart
      BY <2>1 DEF RegistryStart, PcSet
    <2>2. ASSUME NEW i \in Slots, SinkClosed(i) \/ SinkCancel(i) PROVE
          sinkPc' \in [Slots -> PcSet]
      BY <2>2 DEF SinkClosed, SinkCancel, PcSet
    <2>3. CASE UNCHANGED sinkPc
      BY <2>3 DEF PcSet
    <2> QED
      BY <2>1, <2>2, <2>3 DEF Next, vars, Register, Produce, ProducerClose,
         ProducerCancel, SinkReceive, Cancel, MainWait, Terminating
  <1>2. wg' \in 0..MaxSinks
    BY <1>1, WgBound DEF WaitGroupCountsRunning, RunningSlots
  <1>3. streams' \in Seq(Sinks) /\ Len(streams') <= MaxSinks
    <2>1. ASSUME NEW s \in Sinks, Register(s) PROVE
          streams' \in Seq(Sinks) /\ Len(streams') <= MaxSinks
      BY <2>1 DEF Register
    <2>2. CASE UNCHANGED streams
      BY <2>2
    <2> QED
      BY <2>1, <2>2 DEF Next, vars, RegistryStart, Produce, ProducerClose,
         ProducerCancel, SinkReceive, SinkClosed, SinkCancel, Cancel,
         MainWait, Terminating
  <1>4. /\ ch' \in Seq(Sample) /\ Len(ch') <= ChCap
        /\ got' \in [Slots -> Seq(Sample)]
        /\ produced' \in 0..MaxSamples
    <2>1. CASE Produce
      BY <2>1 DEF Produce, Sample
    <2>2. ASSUME NEW i \in Slots, SinkReceive(i) PROVE
          /\ ch' \in Seq(Sample) /\ Len(ch') <= ChCap
          /\ got' \in [Slots -> Seq(Sample)]
          /\ produced' \in 0..MaxSamples
      BY <2>2 DEF SinkReceive
    <2>3. CASE UNCHANGED <<ch, got, produced>>
      BY <2>3
    <2> QED
      BY <2>1, <2>2, <2>3 DEF Next, vars, Register, RegistryStart,
         ProducerClose, ProducerCancel, SinkClosed, SinkCancel, Cancel,
         MainWait, Terminating
  <1>5. /\ closed' \in BOOLEAN /\ cancelled' \in BOOLEAN
        /\ prodPc' \in {"sending", "stopped"}
        /\ mainPc' \in {"setup", "running", "waiting", "done"}
    BY DEF Next, vars, Register, RegistryStart, Produce, ProducerClose,
       ProducerCancel, SinkReceive, SinkClosed, SinkCancel, Cancel,
       MainWait, Terminating
  <1> QED
    BY <1>1, <1>2, <1>3, <1>4, <1>5 DEF PcSet

(* A step of Register, Start, the producer, a run loop or main keeps IInv. *)
LEMMA StepIInv == IInv /\ [Next]_vars => IInv'
  <1> SUFFICES ASSUME IInv, [Next]_vars PROVE IInv'
    OBVIOUS
  <1>1. WaitGroupCountsRunning' /\ SetupUnstarted'
    BY NextCount
  <1>2. TypeOK'
    BY <1>1, NextTypeOK
  <1> QED
    BY <1>1, <1>2 DEF IInv

(* The registry model's strengthening holds in every reachable state.     *)
LEMMA RegistryIInv == Spec => []IInv
  BY InitIInv, StepIInv, PTL DEF Spec

(* Register, Start, the producer, the run loops and main: every reachable *)
(* state of the registry model is well typed, the WaitGroup counter within *)
(* 0..MaxSinks and the shared channel within its capacity.                *)
THEOREM RegistryTypeCorrect == Spec => []TypeOK
  BY RegistryIInv, PTL DEF IInv

====
