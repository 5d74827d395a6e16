-------------------------- MODULE TimerWatchProofs --------------------------
(***************************************************************************)
(* Proofs about TimerWatch for every value of the constants.              *)
(***************************************************************************)
EXTENDS TimerWatch, TLAPS

(* The shape of an Emit: the ranged prefix of the listeners slice is       *)
(* exactly the slots subscribed before the current tick fired, the handlers *)
(* before idx have been sent the current tick, and every sent message names *)
(* an existing slot and a tick that has fired.                            *)
SnapInSlice == snapLen <= Len(listeners) /\ idx \in 1..(snapLen + 1)
EmitAfterFire == loop = "emit" => ticks >= 1
SubscribedBefore == \A i \in 1..Len(listeners) : listeners[i].at <= ticks
SnapIsEarlier ==
    \A i \in 1..Len(listeners) : listeners[i].at < ticks <=> i <= snapLen
PrefixSent ==
    loop = "emit" => \A i \in 1..(idx - 1) : [tick |-> ticks, slot |-> i] \in sent
SentWellFormed == \A m \in sent : m.slot <= Len(listeners) /\ m.tick <= ticks
NotStarted == ~started => loop = "idle" /\ ticks = 0

EmitShape ==
    /\ SnapInSlice
    /\ EmitAfterFire
    /\ SubscribedBefore
    /\ SnapIsEarlier
    /\ PrefixSent
    /\ SentWellFormed
    /\ NotStarted

(* The inductive invariant.                                               *)
IInv == TypeOK /\ EmitShape /\ NoReplay /\ EmitReachesAll

USE ConstantsAssumption

(* The parts of IInv about the Emit in progress and the ghost history.    *)
EmitInv == EmitShape /\ NoReplay /\ EmitReachesAll

(* Initially nothing has fired, nothing is subscribed and nothing is sent. *)
LEMMA InitIInv == Init => IInv
  <1> SUFFICES ASSUME Init PROVE IInv
    OBVIOUS
  <1>1. TypeOK
    <2>1. inbox \in [Listeners -> Seq(Msg)]
      BY DEF Init
    <2>2. stopPc \in [Stoppers -> {"idle", "racing", "noop", "send", "done"}]
      BY DEF Init
    <2>3. listeners \in Seq(Slot) /\ sent \subseteq Msg
      BY DEF Init
    <2>4. /\ running \in BOOLEAN /\ started \in BOOLEAN /\ loop = "idle"
          /\ ticks = 0 /\ snapLen = 0 /\ idx = 1 /\ Len(listeners) = 0
          /\ stopKey = 0 /\ teardowns = 0
      BY DEF Init
    <2>5. QED
      BY <2>1, <2>2, <2>3, <2>4 DEF TypeOK
  <1>2. EmitShape
    BY DEF Init, EmitShape, SnapInSlice, EmitAfterFire, SubscribedBefore,
           SnapIsEarlier, PrefixSent, SentWellFormed, NotStarted
  <1>3. NoReplay /\ EmitReachesAll
    BY DEF Init, NoReplay, EmitReachesAll
  <1>4. QED
    BY <1>1, <1>2, <1>3 DEF IInv

(* Every step preserves the type invariant, given the shape of the Emit.  *)
LEMMA NextTypeOK == TypeOK /\ EmitShape /\ [Next]_vars => TypeOK'
  <1> SUFFICES ASSUME TypeOK, EmitShape, [Next]_vars PROVE TypeOK'
    OBVIOUS
  <1>1. CASE Start
    BY <1>1 DEF Start, TypeOK
  <1>2. CASE Tick
    BY <1>2 DEF Tick, TypeOK
  <1>3. CASE EmitSend
    <2> DEFINE l == listeners[idx].ch
               m == [tick |-> ticks, slot |-> idx]
    <2>1. idx \in 1..Len(listeners) /\ idx \in 1..MaxSubs
      BY <1>3 DEF EmitSend, EmitShape, SnapInSlice, EmitAfterFire, TypeOK
    <2>2. l \in Listeners /\ m \in Msg
      <3>1. listeners[idx] \in Slot
        BY <2>1 DEF TypeOK
      <3>2. ticks \in 1..MaxTicks
        BY <1>3 DEF EmitSend, EmitShape, SnapInSlice, EmitAfterFire, TypeOK
      <3>3. QED
        BY <2>1, <3>1, <3>2 DEF Slot, Msg
    <2>3. inbox' = [inbox EXCEPT ![l] = Append(@, m)] /\ sent' = sent \cup {m}
      BY <1>3 DEF EmitSend
    <2>4. idx' \in 1..(MaxSubs + 1)
      BY <2>1, <1>3 DEF EmitSend
    <2>5. inbox' \in [Listeners -> Seq(Msg)]
      BY <2>2, <2>3 DEF TypeOK
    <2>6. sent' \subseteq Msg
      BY <2>2, <2>3 DEF TypeOK
    <2>7. QED
      BY <2>4, <2>5, <2>6, <1>3 DEF EmitSend, TypeOK
  <1>4. CASE EmitDone
    BY <1>4 DEF EmitDone, TypeOK
  <1>5. CASE LoopExit
    BY <1>5 DEF LoopExit, TypeOK
  <1>6. ASSUME NEW s \in Stoppers, StopCheck(s) PROVE TypeOK'
    <2>1. stopPc' \in [Stoppers -> {"idle", "racing", "noop", "send", "done"}]
      BY <1>6 DEF StopCheck, TypeOK
    <2>2. QED
      BY <2>1, <1>6 DEF StopCheck, TypeOK
  <1>7. ASSUME NEW s \in Stoppers, StopFlip(s) PROVE TypeOK'
    <2>1. stopPc' \in [Stoppers -> {"idle", "racing", "noop", "send", "done"}]
      BY <1>7 DEF StopFlip, TypeOK
    <2>2. teardowns' \in Nat
      BY <1>7 DEF StopFlip, TypeOK
    <2>3. QED
      BY <2>1, <2>2, <1>7 DEF StopFlip, TypeOK
  <1>8. ASSUME NEW s \in Stoppers, StopSend(s) PROVE TypeOK'
    <2>1. stopPc' \in [Stoppers -> {"idle", "racing", "noop", "send", "done"}]
      BY <1>8 DEF StopSend, TypeOK
    <2>2. stopKey' \in 0..1
      BY <1>8 DEF StopSend, TypeOK
    <2>3. QED
      BY <2>1, <2>2, <1>8 DEF StopSend, TypeOK
  <1>9. ASSUME NEW l \in Listeners, Subscribe(l) PROVE TypeOK'
    BY <1>9 DEF Subscribe, TypeOK, Slot
  <1>10. ASSUME NEW l \in Listeners, Receive(l) PROVE TypeOK'
    <2>1. inbox' \in [Listeners -> Seq(Msg)]
      BY <1>10 DEF Receive, TypeOK
    <2>2. QED
      BY <2>1, <1>10 DEF Receive, TypeOK
  <1>11. CASE Terminating
    BY <1>11 DEF Terminating, vars, TypeOK
  <1>12. CASE UNCHANGED vars
    BY <1>12 DEF vars, TypeOK
  <1>13. QED
    BY <1>1, <1>2, <1>3, <1>4, <1>5, <1>6, <1>7, <1>8, <1>9, <1>10, <1>11,
       <1>12 DEF Next

(* Every step preserves the Emit invariants.                              *)
LEMMA NextEmitInv == TypeOK /\ EmitInv /\ [Next]_vars => EmitInv'
  <1> SUFFICES ASSUME TypeOK, EmitInv, [Next]_vars PROVE EmitInv'
    OBVIOUS
  <1> DEFINE Parts == <<loop, ticks, snapLen, idx, listeners, sent>>
  <1>0. EmitShape /\ NoReplay /\ EmitReachesAll
    BY DEF EmitInv
  <1> USE <1>0 DEF EmitInv, EmitShape
  <1>1. CASE UNCHANGED <<started, loop, ticks, snapLen, idx, listeners, sent>>
    BY <1>1 DEF SnapInSlice, EmitAfterFire, SubscribedBefore,
                SnapIsEarlier, PrefixSent, SentWellFormed, NotStarted,
                NoReplay, EmitReachesAll
  <1>2. CASE Start
    <2>1. loop = "idle" /\ ticks = 0 /\ loop' = "select" /\ started'
      BY <1>2 DEF Start, NotStarted
    <2>2. UNCHANGED <<ticks, snapLen, idx, listeners, sent>>
      BY <1>2 DEF Start
    <2>3. QED
      BY <2>1, <2>2 DEF SnapInSlice, EmitAfterFire, SubscribedBefore,
                SnapIsEarlier, PrefixSent, SentWellFormed, NotStarted,
                NoReplay, EmitReachesAll
  <1>3. CASE Tick
    <2>1. /\ loop = "select" /\ loop' = "emit" /\ started
          /\ ticks' = ticks + 1 /\ snapLen' = Len(listeners) /\ idx' = 1
          /\ UNCHANGED <<started, listeners, sent>>
      BY <1>3 DEF Tick, NotStarted
    <2>2. SnapInSlice' /\ EmitAfterFire' /\ PrefixSent' /\ NotStarted'
      BY <2>1 DEF TypeOK, SnapInSlice, EmitAfterFire, PrefixSent, NotStarted
    <2>3. SubscribedBefore' /\ SnapIsEarlier'
      <3>1. \A i \in 1..Len(listeners) : listeners[i].at \in Nat
        <4>1. \A i \in 1..Len(listeners) : listeners[i] \in Slot
          BY DEF TypeOK
        <4>2. QED
          BY <4>1 DEF Slot
      <3>2. QED
        BY <2>1, <3>1 DEF TypeOK, SubscribedBefore, SnapIsEarlier
    <2>4. SentWellFormed' /\ NoReplay'
      BY <2>1 DEF TypeOK, Msg, SentWellFormed, NoReplay
    <2>5. EmitReachesAll'
      BY <2>1 DEF TypeOK, EmitReachesAll
    <2>6. QED
      BY <2>2, <2>3, <2>4, <2>5
  <1>4. CASE EmitSend
    <2> DEFINE m == [tick |-> ticks, slot |-> idx]
    <2>1. /\ loop = "emit" /\ idx <= snapLen /\ idx' = idx + 1
          /\ sent' = sent \cup {m}
          /\ UNCHANGED <<started, loop, ticks, snapLen, listeners>>
      BY <1>4 DEF EmitSend
    <2>2. SnapInSlice' /\ EmitAfterFire' /\ NotStarted' /\ SubscribedBefore'
          /\ SnapIsEarlier'
      BY <2>1 DEF TypeOK, SnapInSlice, EmitAfterFire, NotStarted,
                  SubscribedBefore, SnapIsEarlier
    <2>3. PrefixSent'
      BY <2>1 DEF TypeOK, PrefixSent, SnapInSlice
    <2>4. SentWellFormed'
      BY <2>1 DEF TypeOK, SentWellFormed, SnapInSlice
    <2>5. listeners[idx].at < ticks
      BY <2>1 DEF TypeOK, SnapInSlice, SnapIsEarlier
    <2>6. NoReplay'
      BY <2>1, <2>5 DEF NoReplay
    <2>7. EmitReachesAll'
      BY <2>1 DEF EmitReachesAll
    <2>8. QED
      BY <2>2, <2>3, <2>4, <2>6, <2>7
  <1>5. CASE EmitDone
    <2>1. /\ loop = "emit" /\ idx > snapLen /\ loop' = "select"
          /\ UNCHANGED <<started, ticks, snapLen, idx, listeners, sent>>
      BY <1>5 DEF EmitDone
    <2>2. SnapInSlice' /\ EmitAfterFire' /\ NotStarted' /\ SubscribedBefore'
          /\ SnapIsEarlier' /\ PrefixSent' /\ SentWellFormed' /\ NoReplay'
      BY <2>1 DEF SnapInSlice, EmitAfterFire, NotStarted, SubscribedBefore,
                  SnapIsEarlier, PrefixSent, SentWellFormed, NoReplay
    <2>3. \A i \in 1..Len(listeners) :
            listeners[i].at < ticks => [tick |-> ticks, slot |-> i] \in sent
      BY <2>1 DEF TypeOK, SnapInSlice, SnapIsEarlier, PrefixSent
    <2>4. EmitReachesAll'
      BY <2>1, <2>3 DEF TypeOK, EmitReachesAll
    <2>5. QED
      BY <2>2, <2>4
  <1>6. CASE LoopExit
    <2>1. /\ loop = "select" /\ loop' = "exited"
          /\ UNCHANGED <<started, ticks, snapLen, idx, listeners, sent>>
      BY <1>6 DEF LoopExit
    <2>2. QED
      BY <2>1 DEF SnapInSlice, EmitAfterFire, SubscribedBefore,
                SnapIsEarlier, PrefixSent, SentWellFormed, NotStarted,
                NoReplay, EmitReachesAll
  <1>7. ASSUME NEW l \in Listeners, Subscribe(l) PROVE EmitInv'
    <2> DEFINE new == [ch |-> l, at |-> ticks]
    <2>1. /\ listeners' = Append(listeners, new)
          /\ UNCHANGED <<started, loop, ticks, snapLen, idx, sent>>
      BY <1>7 DEF Subscribe
    <2>2. /\ Len(listeners') = Len(listeners) + 1
          /\ listeners'[Len(listeners) + 1] = new
          /\ \A i \in 1..Len(listeners) : listeners'[i] = listeners[i]
      BY <2>1 DEF TypeOK
    <2>3. SnapInSlice' /\ EmitAfterFire' /\ NotStarted' /\ PrefixSent'
      BY <2>1, <2>2 DEF TypeOK, SnapInSlice, EmitAfterFire, NotStarted,
                        PrefixSent
    <2>4. SubscribedBefore' /\ SnapIsEarlier'
      BY <2>1, <2>2 DEF TypeOK, SnapInSlice, SubscribedBefore, SnapIsEarlier
    <2>5. SentWellFormed' /\ NoReplay'
      BY <2>1, <2>2 DEF TypeOK, Msg, SentWellFormed, NoReplay
    <2>6. EmitReachesAll'
      BY <2>1, <2>2 DEF TypeOK, Slot, EmitReachesAll
    <2>7. QED
      BY <2>3, <2>4, <2>5, <2>6
  <1>8. QED
    <2>1. ASSUME NEW s \in Stoppers, StopCheck(s) \/ StopFlip(s) \/ StopSend(s)
          PROVE UNCHANGED <<started, loop, ticks, snapLen, idx, listeners, sent>>
      BY <2>1 DEF StopCheck, StopFlip, StopSend
    <2>2. ASSUME NEW l \in Listeners, Receive(l)
          PROVE UNCHANGED <<started, loop, ticks, snapLen, idx, listeners, sent>>
      BY <2>2 DEF Receive
    <2>3. Terminating \/ UNCHANGED vars
          => UNCHANGED <<started, loop, ticks, snapLen, idx, listeners, sent>>
      BY DEF Terminating, vars
    <2>4. QED
      BY <1>1, <1>2, <1>3, <1>4, <1>5, <1>6, <1>7, <2>1, <2>2, <2>3 DEF Next

(* One step of the watcher, of a Stop caller, of a subscriber or of a     *)
(* listener preserves IInv.                                               *)
LEMMA StepIInv == IInv /\ [Next]_vars => IInv'
  BY NextTypeOK, NextEmitInv DEF IInv, EmitInv

(* IInv holds in every reachable state.                                   *)
THEOREM IInvariant == Spec => []IInv
  BY InitIInv, StepIInv, PTL DEF Spec

(* Type correctness of the watcher, its Stop callers and its channels.    *)
THEOREM TypeCorrect == Spec => []TypeOK
  BY IInvariant, PTL DEF IInv

(* Emit never delivers a tick to a channel subscribed after the tick      *)
(* fired (no replay), for every number of listeners, Stop callers, ticks  *)
(* and every channel capacity.                                            *)
THEOREM NoReplayHolds == Spec => []NoReplay
  BY IInvariant, PTL DEF IInv

(* A completed Emit has reached every slot subscribed before its tick.    *)
THEOREM EmitReachesAllHolds == Spec => []EmitReachesAll
  BY IInvariant, PTL DEF IInv

(* Start and Stop: the watcher's Running flag and startOnce gate implement *)
(* the abstract lifecycle Created, Running, Stopped.  A Stop that read     *)
(* Running before another Stop cleared it is a stutter of Stopped.        *)
THEOREM LifecycleRefinement == Spec => LifecycleRefined
  <1>1. Init => Lifecycle!LInit
    BY DEF Init, Lifecycle!LInit, LifecycleState
  <1>2. [Next]_vars => [Lifecycle!LNext]_LifecycleState
    <2> SUFFICES ASSUME [Next]_vars PROVE [Lifecycle!LNext]_LifecycleState
      OBVIOUS
    <2>1. CASE Start
      BY <2>1 DEF Start, Lifecycle!LNext, Lifecycle!LStart, LifecycleState
    <2>2. ASSUME NEW s \in Stoppers, StopFlip(s)
          PROVE  [Lifecycle!LNext]_LifecycleState
      BY <2>2 DEF StopFlip, Lifecycle!LNext, Lifecycle!LStop, LifecycleState
    <2>3. CASE UNCHANGED <<started, running>>
      BY <2>3 DEF LifecycleState
    <2> QED
      BY <2>1, <2>2, <2>3 DEF Next, vars, Tick, EmitSend, EmitDone, LoopExit,
         StopCheck, StopSend, Subscribe, Receive, Terminating
  <1> QED
    BY <1>1, <1>2, PTL DEF Spec, LifecycleRefined, Lifecycle!LSpec

====
