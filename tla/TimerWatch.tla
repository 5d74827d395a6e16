----------------------------- MODULE TimerWatch -----------------------------
(***************************************************************************)
(* The watcher lifecycle primitive (Watch, internal/pkg/watch, part_003)   *)
(* together with the scheduled producer built on it (TimerWatch,           *)
(* part_002).  The actors are                                             *)
(*   - the goroutine that calls Start (once, through startOnce);          *)
(*   - the timerLoop goroutine spawned by TimerWatch.StartUnsafe, which    *)
(*     selects between a timer firing and the StopKey channel and, on a    *)
(*     fire, runs Emit: a blocking send to every listener in turn;        *)
(*   - the goroutines that call Stop, each at most once, racing on the     *)
(*     unsynchronised Running flag;                                        *)
(*   - the goroutines that Subscribe a channel;                           *)
(*   - the listeners, each draining its own buffered channel.             *)
(* Time is abstract: a timer may fire whenever the loop is selecting.     *)
(* The payload Emit sends is the constant 0; each message carries, as     *)
(* ghost fields, the number of the tick that produced it and the slot of   *)
(* the listeners slice it was sent to.                                    *)
(***************************************************************************)
EXTENDS Naturals, Sequences, FiniteSets

CONSTANTS
    Listeners,   \* the channels that may be subscribed (model values)
    Stoppers,    \* the goroutines that may call Stop, each at most once
    ChanCap,     \* the buffer capacity of a listener channel
    MaxTicks,    \* bound on the number of timer fires explored
    MaxSubs      \* bound on the length of the listeners slice

ASSUME ConstantsAssumption ==
    /\ Listeners # {}
    /\ IsFiniteSet(Stoppers)
    /\ ChanCap \in Nat \ {0}
    /\ MaxTicks \in Nat
    /\ MaxSubs \in Nat

VARIABLES
    running,    \* Watch.Running
    started,    \* startOnce has run its function
    loop,       \* control point of the timerLoop goroutine
    ticks,      \* number of timer fires so far (ghost tag of the samples)
    snapLen,    \* length of the listeners slice the running Emit ranges over
    idx,        \* index of the next handler the running Emit sends to
    listeners,  \* Watch.listeners, with the tick count at subscription (ghost)
    inbox,      \* contents of each listener channel's buffer
    stopKey,    \* number of values buffered in Watch.StopKey (capacity 1)
    stopPc,     \* control point of each Stop call
    teardowns,  \* number of times StopFn has run
    sent        \* every message Emit has put into a channel (ghost history)

vars == <<running, started, loop, ticks, snapLen, idx, listeners, inbox,
          stopKey, stopPc, teardowns, sent>>

Msg == [tick : 1..MaxTicks, slot : 1..MaxSubs]
Slot == [ch : Listeners, at : 0..MaxTicks]

----
(* NewWatch and NewTimerWatch: not running, no listeners, empty StopKey.  *)
Init ==
    /\ running = FALSE
    /\ started = FALSE
    /\ loop = "idle"
    /\ ticks = 0
    /\ snapLen = 0
    /\ idx = 1
    /\ listeners = <<>>
    /\ inbox = [l \in Listeners |-> <<>>]
    /\ stopKey = 0
    /\ stopPc = [s \in Stoppers |-> "idle"]
    /\ teardowns = 0
    /\ sent = {}

(* Mutant: Start calls StartUnsafe without the startOnce gate.            *)
StartNoOnce ==
    /\ started' = TRUE
    /\ running' = TRUE
    /\ loop' = "select"
    /\ UNCHANGED <<ticks, snapLen, idx, listeners, inbox, stopKey, stopPc,
                   teardowns, sent>>

(* Start(watcher): startOnce.Do(StartUnsafe).  TimerWatch.StartUnsafe     *)
(* sets Running through Watch.StartUnsafe and spawns timerLoop.  Later     *)
(* calls find the Once used and do nothing.                               *)
Start ==
    /\ ~started
    /\ started' = TRUE
    /\ running' = TRUE
    /\ loop' = "select"
    /\ UNCHANGED <<ticks, snapLen, idx, listeners, inbox, stopKey, stopPc,
                   teardowns, sent>>

(* timerLoop, case <-time.After(w.Interval): the timer fires and Emit(0)   *)
(* begins; `range w.listeners` evaluates the slice once, so the Emit      *)
(* ranges over the listeners subscribed so far.                           *)
Tick ==
    /\ loop = "select"
    /\ ticks < MaxTicks
    /\ ticks' = ticks + 1
    /\ snapLen' = Len(listeners)
    /\ idx' = 1
    /\ loop' = "emit"
    /\ UNCHANGED <<running, started, listeners, inbox, stopKey, stopPc,
                   teardowns, sent>>

(* Mutant: Emit indexes the live slice instead of the ranged copy.       *)
EmitSendLive ==
    /\ loop = "emit"
    /\ idx <= Len(listeners)
    /\ LET l == listeners[idx].ch
           m == [tick |-> ticks, slot |-> idx]
       IN  /\ Len(inbox[l]) < ChanCap
           /\ inbox' = [inbox EXCEPT ![l] = Append(@, m)]
           /\ sent' = sent \cup {m}
    /\ idx' = idx + 1
    /\ UNCHANGED <<running, started, loop, ticks, snapLen, listeners,
                   stopKey, stopPc, teardowns>>

(* Emit, `handler <- message`: a send that blocks while the handler's     *)
(* buffer is full.                                                        *)
EmitSend ==
    /\ loop = "emit"
    /\ idx <= snapLen
    /\ LET l == listeners[idx].ch
           m == [tick |-> ticks, slot |-> idx]
       IN  /\ Len(inbox[l]) < ChanCap
           /\ inbox' = [inbox EXCEPT ![l] = Append(@, m)]
           /\ sent' = sent \cup {m}
    /\ idx' = idx + 1
    /\ UNCHANGED <<running, started, loop, ticks, snapLen, listeners,
                   stopKey, stopPc, teardowns>>

(* Mutant: Emit stops one handler short.                                 *)
EmitDoneEarly ==
    /\ loop = "emit"
    /\ idx >= snapLen
    /\ loop' = "select"
    /\ UNCHANGED <<running, started, ticks, snapLen, idx, listeners, inbox,
                   stopKey, stopPc, teardowns, sent>>

(* Emit returns after the last handler; timerLoop selects again.          *)
EmitDone ==
    /\ loop = "emit"
    /\ idx > snapLen
    /\ loop' = "select"
    /\ UNCHANGED <<running, started, ticks, snapLen, idx, listeners, inbox,
                   stopKey, stopPc, teardowns, sent>>

(* timerLoop, case <-w.StopKey: return.  When the timer has fired too,    *)
(* select chooses either case.                                            *)
LoopExit ==
    /\ loop = "select"
    /\ stopKey = 1
    /\ stopKey' = 0
    /\ loop' = "exited"
    /\ UNCHANGED <<running, started, ticks, snapLen, idx, listeners, inbox,
                   stopPc, teardowns, sent>>

(* Stop, `if !w.Running { return }`: the unsynchronised read of Running.  *)
StopCheck(s) ==
    /\ stopPc[s] = "idle"
    /\ stopPc' = [stopPc EXCEPT ![s] = IF running THEN "racing" ELSE "noop"]
    /\ UNCHANGED <<running, started, loop, ticks, snapLen, idx, listeners,
                   inbox, stopKey, teardowns, sent>>

(* Mutant: Stop clears Running and tears down but never signals StopKey.  *)
StopFlipNoSignal(s) ==
    /\ stopPc[s] = "racing"
    /\ running' = FALSE
    /\ teardowns' = teardowns + 1
    /\ stopPc' = [stopPc EXCEPT ![s] = "done"]
    /\ UNCHANGED <<started, loop, ticks, snapLen, idx, listeners, inbox,
                   stopKey, sent>>

(* Stop, `w.Running = false; w.StopFn()`.                                 *)
StopFlip(s) ==
    /\ stopPc[s] = "racing"
    /\ running' = FALSE
    /\ teardowns' = teardowns + 1
    /\ stopPc' = [stopPc EXCEPT ![s] = "send"]
    /\ UNCHANGED <<started, loop, ticks, snapLen, idx, listeners, inbox,
                   stopKey, sent>>

(* Mutant: StopKey made with a buffer of two, make(chan bool, 2).        *)
StopSendWideKey(s) ==
    /\ stopPc[s] = "send"
    /\ stopKey < 2
    /\ stopKey' = stopKey + 1
    /\ stopPc' = [stopPc EXCEPT ![s] = "done"]
    /\ UNCHANGED <<running, started, loop, ticks, snapLen, idx, listeners,
                   inbox, teardowns, sent>>

(* Stop, `w.StopKey <- true`: blocks while the one-slot buffer is full.   *)
StopSend(s) ==
    /\ stopPc[s] = "send"
    /\ stopKey < 1
    /\ stopKey' = stopKey + 1
    /\ stopPc' = [stopPc EXCEPT ![s] = "done"]
    /\ UNCHANGED <<running, started, loop, ticks, snapLen, idx, listeners,
                   inbox, teardowns, sent>>

(* Subscribe(handler): append to the listeners slice, at any time.        *)
Subscribe(l) ==
    /\ Len(listeners) < MaxSubs
    /\ listeners' = Append(listeners, [ch |-> l, at |-> ticks])
    /\ UNCHANGED <<running, started, loop, ticks, snapLen, idx, inbox,
                   stopKey, stopPc, teardowns, sent>>

(* A listener goroutine receives the oldest value of its channel.         *)
Receive(l) ==
    /\ inbox[l] # <<>>
    /\ inbox' = [inbox EXCEPT ![l] = Tail(@)]
    /\ UNCHANGED <<running, started, loop, ticks, snapLen, idx, listeners,
                   stopKey, stopPc, teardowns, sent>>

(* The explored behaviour is over: every Stop call returned, every        *)
(* channel is drained, the slice is at its bound and the loop has exited   *)
(* or waits at the tick bound with nothing to stop it.                    *)
Finished ==
    /\ \A s \in Stoppers : stopPc[s] \in {"noop", "done"}
    /\ \A l \in Listeners : inbox[l] = <<>>
    /\ Len(listeners) = MaxSubs
    /\ \/ loop = "exited"
       \/ loop = "select" /\ ticks = MaxTicks /\ stopKey = 0

Terminating == Finished /\ UNCHANGED vars

Next ==
    \/ Start
    \/ Tick
    \/ EmitSend
    \/ EmitDone
    \/ LoopExit
    \/ \E s \in Stoppers : StopCheck(s) \/ StopFlip(s) \/ StopSend(s)
    \/ \E l \in Listeners : Subscribe(l) \/ Receive(l)
    \/ Terminating

(* The timerLoop and Stop goroutines are scheduled by the Go runtime and  *)
(* keep running while they can; select picks a ready case at random, so   *)
(* a StopKey value that stays available is received with probability 1    *)
(* (strong fairness).  Listeners are assumed to keep draining: a listener  *)
(* that never reads stalls the watcher, which the design leaves to the    *)
(* caller.  Start and Subscribe are calls the program may never make.     *)
Fairness ==
    /\ WF_vars(Tick)
    /\ WF_vars(EmitSend)
    /\ WF_vars(EmitDone)
    /\ SF_vars(LoopExit)
    /\ \A s \in Stoppers : WF_vars(StopCheck(s) \/ StopFlip(s) \/ StopSend(s))
    /\ \A l \in Listeners : WF_vars(Receive(l))

Spec == Init /\ [][Next]_vars

FairSpec == Spec /\ Fairness

----
(* The type invariant.                                                    *)
TypeOK ==
    /\ running \in BOOLEAN
    /\ started \in BOOLEAN
    /\ loop \in {"idle", "select", "emit", "exited"}
    /\ ticks \in 0..MaxTicks
    /\ snapLen \in 0..MaxSubs
    /\ idx \in 1..(MaxSubs + 1)
    /\ listeners \in Seq(Slot)
    /\ Len(listeners) <= MaxSubs
    /\ inbox \in [Listeners -> Seq(Msg)]
    /\ stopKey \in 0..1
    /\ stopPc \in [Stoppers -> {"idle", "racing", "noop", "send", "done"}]
    /\ teardowns \in Nat
    /\ sent \subseteq Msg

(* The lifecycle state the code's flags stand for: Created until the       *)
(* startOnce gate has run, then Running while Running is set, then Stopped. *)
LifecycleState ==
    IF ~started THEN "Created" ELSE IF running THEN "Running" ELSE "Stopped"

Lifecycle == INSTANCE WatchLifecycle WITH state <- LifecycleState

(* Start and Stop (spec 3, 4.1): the watcher implements the abstract       *)
(* lifecycle; Start through startOnce moves it to Running once, Stop moves *)
(* it to Stopped, and nothing moves it back, however the Stop calls race.  *)
LifecycleRefined == Lifecycle!LSpec

(* No replay (Subscribe/Emit): a channel subscribed while, or after, the  *)
(* timer fire of tick t started its Emit never receives that tick's       *)
(* sample.  Emit must range over the slice as it was when it began, even   *)
(* though Subscribe may append to it concurrently.                        *)
NoReplay ==
    \A m \in sent : listeners[m.slot].at < m.tick

(* No drops (Emit): once the Emit of a tick has returned, every slot that *)
(* was subscribed before the tick fired has been sent that tick's sample.  *)
EmitReachesAll ==
    \A t \in 1..ticks, i \in 1..Len(listeners) :
        /\ listeners[i].at < t
        /\ ~(loop = "emit" /\ t = ticks)
        => [tick |-> t, slot |-> i] \in sent

(* Stop (Watch.Stop, timerLoop): once a Stop call that found the watcher   *)
(* running has returned, the timer loop eventually exits.                 *)
StopEndsLoop ==
    (\E s \in Stoppers : stopPc[s] = "done") ~> (loop = "exited")

(* The spec (section 8): no trigger is emitted after Stop() returns.  In  *)
(* the code a fire already being emitted, or one select picks over a      *)
(* pending StopKey value, still sends after Stop has returned.            *)
NoEmitAfterStop ==
    [][(\E s \in Stoppers : stopPc[s] = "done") => sent' = sent]_vars

(* The spec (section 4.1): Stop is idempotent and every call returns.    *)
(* Calls that all read Running as true all send on StopKey, whose single   *)
(* slot the exited timer loop no longer drains.                           *)
StopReturns ==
    \A s \in Stoppers : (stopPc[s] = "send") ~> (stopPc[s] = "done")

(* The spec (sections 4.1, 8): Stop signals and tears down exactly once,  *)
(* a second call being a no-op.  Two concurrent Stop calls can both read   *)
(* Running as true before either clears it.                               *)
TeardownOnce ==
    teardowns <= 1

====
