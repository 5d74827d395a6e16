--------------------------- MODULE StreamRegistry ---------------------------
(***************************************************************************)
(* The stream registry (StreamRegisterer, internal/pkg/global, in          *)
(* src/internal/pkg/fingerprint/fingerprint.go lines 108-145) and the      *)
(* pipeline around it: one producer (the collector) pushing samples onto   *)
(* the single shared channel, the sinks' run loops reading from it, and    *)
(* the main routine that registers, starts, cancels and waits.  Only       *)
(* Register and Start are code of src/; the Stream implementations, the    *)
(* producer and main are described by the spec (sections 4.3, 5, 6).       *)
(* A registered stream is identified by its slot in r.streams.             *)
(***************************************************************************)
EXTENDS Naturals, Sequences, FiniteSets

CONSTANTS
    Sinks,       \* the Stream implementations (model values)
    ChCap,       \* buffer capacity of the shared channel
    MaxSinks,    \* bound on the number of Register calls
    MaxSamples   \* bound on the number of samples the producer sends

ASSUME RegistryAssumption ==
    /\ Sinks # {}
    /\ ChCap \in Nat \ {0}
    /\ MaxSinks \in Nat \ {0}
    /\ MaxSamples \in Nat

VARIABLES
    streams,    \* r.streams
    sinkPc,     \* control point of the run loop of each slot
    ch,         \* buffered contents of the shared channel
    closed,     \* the shared channel has been closed
    cancelled,  \* the shared context has been cancelled
    wg,         \* the WaitGroup counter
    produced,   \* number of samples the producer has sent
    prodPc,     \* control point of the producer
    mainPc,     \* control point of the main routine
    got         \* samples each slot's run loop has received (history)

vars == <<streams, sinkPc, ch, closed, cancelled, wg, produced, prodPc,
          mainPc, got>>

Slots == 1..MaxSinks

(* s is an initial part of t.                                             *)
IsInitial(s, t) == Len(s) <= Len(t) /\ s = SubSeq(t, 1, Len(s))
Sample == 1..MaxSamples

(* The slots whose run loop has been started and has not yet returned.    *)
RunningSlots == {i \in Slots : sinkPc[i] = "running"}

----
(* DefaultStreamRegisterer = new(StreamRegisterer): no streams.           *)
Init ==
    /\ streams = <<>>
    /\ sinkPc = [i \in Slots |-> "unstarted"]
    /\ ch = <<>>
    /\ closed = FALSE
    /\ cancelled = FALSE
    /\ wg = 0
    /\ produced = 0
    /\ prodPc = "sending"
    /\ mainPc = "setup"
    /\ got = [i \in Slots |-> <<>>]

(* Register(w...): append to r.streams and return nil, before or after    *)
(* Start alike.  A variadic call is a run of these appends by one          *)
(* goroutine.                                                             *)
Register(s) ==
    /\ Len(streams) < MaxSinks
    /\ streams' = Append(streams, s)
    /\ UNCHANGED <<sinkPc, ch, closed, cancelled, wg, produced, prodPc,
                   mainPc, got>>

(* Mutant: main calls Start a second time.  Start itself has no guard; the *)
(* setup condition of RegistryStart is main's rule of calling it once, and *)
(* a second call starts every registered stream again.                    *)
RegistryStartAgain ==
    /\ mainPc \in {"setup", "running"}
    /\ sinkPc' = [i \in Slots |-> IF i <= Len(streams) THEN "running"
                                                       ELSE sinkPc[i]]
    /\ wg' = wg + Len(streams)
    /\ mainPc' = "running"
    /\ UNCHANGED <<streams, ch, closed, cancelled, produced, prodPc, got>>

(* Start(ctx, wg, ch): s.Start(ctx, wg, ch) for every stream registered   *)
(* so far, in order.  Each Stream.Start adds its run loop to the          *)
(* WaitGroup and spawns it (spec 4.3, 6).  Main calls Start once, after    *)
(* setting up.                                                            *)
RegistryStart ==
    /\ mainPc = "setup"
    /\ sinkPc' = [i \in Slots |-> IF i <= Len(streams) THEN "running"
                                                       ELSE sinkPc[i]]
    /\ wg' = wg + Len(streams)
    /\ mainPc' = "running"
    /\ UNCHANGED <<streams, ch, closed, cancelled, produced, prodPc, got>>

(* The producer (spec 5): a select between sending the next sample and     *)
(* the context being done.                                                *)
Produce ==
    /\ prodPc = "sending"
    /\ produced < MaxSamples
    /\ Len(ch) < ChCap
    /\ produced' = produced + 1
    /\ ch' = Append(ch, produced + 1)
    /\ UNCHANGED <<streams, sinkPc, closed, cancelled, wg, prodPc, mainPc,
                   got>>

(* After its last sample the producer closes the channel.                 *)
ProducerClose ==
    /\ prodPc = "sending"
    /\ produced = MaxSamples
    /\ closed' = TRUE
    /\ prodPc' = "stopped"
    /\ UNCHANGED <<streams, sinkPc, ch, cancelled, wg, produced, mainPc, got>>

ProducerCancel ==
    /\ prodPc = "sending"
    /\ cancelled
    /\ prodPc' = "stopped"
    /\ UNCHANGED <<streams, sinkPc, ch, closed, cancelled, wg, produced,
                   mainPc, got>>

(* A sink's run loop (spec 4.3): receive the next sample from the shared   *)
(* channel; every run loop competes for the same channel.                 *)
SinkReceive(i) ==
    /\ sinkPc[i] = "running"
    /\ ch # <<>>
    /\ got' = [got EXCEPT ![i] = Append(@, Head(ch))]
    /\ ch' = Tail(ch)
    /\ UNCHANGED <<streams, sinkPc, closed, cancelled, wg, produced, prodPc,
                   mainPc>>

(* A closed and drained channel ends the run loop, which calls wg.Done.   *)
SinkClosed(i) ==
    /\ sinkPc[i] = "running"
    /\ closed
    /\ ch = <<>>
    /\ sinkPc' = [sinkPc EXCEPT ![i] = "exited"]
    /\ wg' = wg - 1
    /\ UNCHANGED <<streams, ch, closed, cancelled, produced, prodPc, mainPc,
                   got>>

(* ctx.Done ends the run loop, which calls wg.Done; samples still in the  *)
(* channel stay there.                                                    *)
SinkCancel(i) ==
    /\ sinkPc[i] = "running"
    /\ cancelled
    /\ sinkPc' = [sinkPc EXCEPT ![i] = "exited"]
    /\ wg' = wg - 1
    /\ UNCHANGED <<streams, ch, closed, cancelled, produced, prodPc, mainPc,
                   got>>

(* Main, on a termination signal: cancel the shared context.              *)
Cancel ==
    /\ mainPc = "running"
    /\ cancelled' = TRUE
    /\ mainPc' = "waiting"
    /\ UNCHANGED <<streams, sinkPc, ch, closed, wg, produced, prodPc, got>>

(* Main: wg.Wait returns once every run loop has called Done.             *)
MainWait ==
    /\ mainPc = "waiting"
    /\ wg = 0
    /\ mainPc' = "done"
    /\ UNCHANGED <<streams, sinkPc, ch, closed, cancelled, wg, produced,
                   prodPc, got>>

(* The explored behaviour is over: main has returned, or the pipeline     *)
(* has drained without a termination signal.                              *)
Finished ==
    /\ Len(streams) = MaxSinks
    /\ \/ mainPc = "done"
       \/ mainPc = "running" /\ RunningSlots = {} /\ prodPc = "stopped"

Terminating == Finished /\ UNCHANGED vars

Next ==
    \/ \E s \in Sinks : Register(s)
    \/ RegistryStart
    \/ Produce
    \/ ProducerClose
    \/ ProducerCancel
    \/ \E i \in Slots : SinkReceive(i) \/ SinkClosed(i) \/ SinkCancel(i)
    \/ Cancel
    \/ MainWait
    \/ Terminating

Spec == Init /\ [][Next]_vars

----
(* The type invariant.                                                    *)
TypeOK ==
    /\ streams \in Seq(Sinks)
    /\ Len(streams) <= MaxSinks
    /\ sinkPc \in [Slots -> {"unstarted", "running", "exited"}]
    /\ ch \in Seq(Sample)
    /\ Len(ch) <= ChCap
    /\ closed \in BOOLEAN
    /\ cancelled \in BOOLEAN
    /\ wg \in 0..MaxSinks
    /\ produced \in 0..MaxSamples
    /\ prodPc \in {"sending", "stopped"}
    /\ mainPc \in {"setup", "running", "waiting", "done"}
    /\ got \in [Slots -> Seq(Sample)]

(* The spec (sections 4.3, 8): every sink observes the same sequence of    *)
(* samples.  With one shared channel the run loops compete, and each       *)
(* sample reaches exactly one of them.                                    *)
AllSinksSeeSameSamples ==
    \A i, j \in Slots :
        sinkPc[i] # "unstarted" /\ sinkPc[j] # "unstarted"
        => IsInitial(got[i], got[j]) \/ IsInitial(got[j], got[i])

====
