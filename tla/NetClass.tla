------------------------------ MODULE NetClass ------------------------------
(***************************************************************************)
(* The netclass collector (package collector, fingerprint.go lines         *)
(* 145-469) against a changing /sys/class/net.  Registering the collector  *)
(* calls Describe once; every scrape calls Collect.  Both run              *)
(* getNetClassInfo, which lists the devices (in sorted order) and then      *)
(* reads each one, skipping the ignored ones and giving up with the error   *)
(* of the first device that cannot be read; then they send one descriptor *)
(* (Describe) or one metric (Collect) for "up", for "info" and for every   *)
(* optional attribute the device has.  The kernel adds and removes         *)
(* devices and changes their attributes between any two of these steps.   *)
(* A device is a number (its place in the sorted listing); an attribute is *)
(* the name of the metric it becomes; a descriptor is its metric name, the  *)
(* device being a variable label and not part of it.                      *)
(***************************************************************************)
EXTENDS Integers, FiniteSets, FiniteSetsExt

CONSTANTS
    NDev,            \* number of device names that may appear
    OptFields,       \* optional attributes ("carrier", "speed_bytes", ...)
    IgnoredDevices,  \* devices matching netclassIgnoredDevices
    InvalidSpeed,    \* netclassInvalidSpeed
    MaxScrapes,      \* bound on the number of Collect calls
    MaxChanges       \* bound on the number of sysfs changes

(* The bounds are natural numbers.                                        *)
ASSUME NetClassAssumption ==
    NDev \in Nat /\ MaxScrapes \in Nat /\ MaxChanges \in Nat

VARIABLES
    present,    \* devices in /sys/class/net
    sys,        \* attributes each device currently has
    phase,      \* "unregistered", "describe", "registered" or "collect"
    todo,       \* listed devices the running call has not read yet
    acc,        \* the netClass map the running call has built so far
    described,  \* descriptors Describe sent at registration
    emitted,    \* descriptors of the metrics the last Collect sent
    reported,   \* devices the last Collect sent metrics for
    stable,     \* devices present and not ignored since the call began
    kept,       \* the stable devices of the last Collect when it ended
    scrapes,    \* number of Collect calls begun
    changes     \* number of sysfs changes so far

vars == <<present, sys, phase, todo, acc, described, emitted, reported,
          stable, kept, scrapes, changes>>

Devices == 1..NDev
SpeedVals == {-1, 1000}   \* "Some devices return -1 if the speed is unknown"
Info == [fields : SUBSET OptFields, speed : SpeedVals]

(* The attributes recorded for a device that is not there.                *)
NoInfo == [fields |-> {}, speed |-> -1]

(* The devices of a netClass map.                                         *)
DevsOf(a) == {r.dev : r \in a}

(* The optional attributes a device's metrics are sent for: speed_bytes   *)
(* only when the speed is valid or invalid speeds are not ignored.         *)
Shown(i) ==
    IF "speed_bytes" \in i.fields /\ ~(i.speed >= 0 \/ ~InvalidSpeed)
    THEN i.fields \ {"speed_bytes"}
    ELSE i.fields

(* Collect's loop: the descriptors of the metrics it sends for a map.     *)
Collected(a) ==
    IF a = {} THEN {} ELSE {"up", "info"} \cup UNION {Shown(r.info) : r \in a}

(* Describe's loop: the descriptors it sends for a map.                   *)
Described(a) ==
    IF a = {} THEN {} ELSE {"up", "info"} \cup UNION {Shown(r.info) : r \in a}

----
(* var netclassIgnoredDevices, NewNetClassCollector: nothing registered,  *)
(* whatever devices the host has.                                         *)
Init ==
    /\ present \in SUBSET Devices
    /\ sys \in {f \in [Devices -> Info] :
                  \A d \in Devices \ present : f[d] = NoInfo}
    /\ phase = "unregistered"
    /\ todo = {}
    /\ acc = {}
    /\ described = {}
    /\ emitted = {}
    /\ reported = {}
    /\ stable = {}
    /\ kept = {}
    /\ scrapes = 0
    /\ changes = 0

(* The first step of getNetClassInfo: NetClassDevices lists the devices,   *)
(* or fails, in which case the call logs the error and sends nothing.     *)
BeginCall(kind) ==
    \/ /\ phase' = kind
       /\ todo' = present
       /\ stable' = present \ IgnoredDevices
    \/ /\ phase' = "registered"
       /\ todo' = {}
       /\ stable' = {}

(* Registering the collector calls Describe.                              *)
Register ==
    /\ phase = "unregistered"
    /\ BeginCall("describe")
    /\ UNCHANGED <<present, sys, acc, described, emitted, reported, kept,
                   scrapes, changes>>

(* A scrape calls Collect, which has sent nothing yet.                   *)
Scrape ==
    /\ phase = "registered"
    /\ scrapes < MaxScrapes
    /\ scrapes' = scrapes + 1
    /\ BeginCall("collect")
    /\ emitted' = {} /\ reported' = {} /\ kept' = {}
    /\ UNCHANGED <<present, sys, acc, described, changes>>

(* getNetClassInfo's loop, one device: an ignored device is skipped, a    *)
(* device still there is read into the map.                               *)
ReadDevice ==
    /\ phase \in {"describe", "collect"}
    /\ todo # {}
    /\ LET d == Min(todo) IN
         /\ d \in IgnoredDevices \/ d \in present
         /\ todo' = todo \ {d}
         /\ acc' = IF d \in IgnoredDevices THEN acc
                   ELSE acc \cup {[dev |-> d, info |-> sys[d]]}
    /\ UNCHANGED <<present, sys, phase, described, emitted, reported, stable,
                   kept, scrapes, changes>>

(* Mutant: Collect sends what it read before the error.                   *)
ReadFailPartial ==
    /\ phase \in {"describe", "collect"}
    /\ todo # {}
    /\ Min(todo) \notin IgnoredDevices \cup present
    /\ phase' = "registered"
    /\ described' = IF phase = "describe" THEN Described(acc) ELSE described
    /\ emitted' = IF phase = "collect" THEN Collected(acc) ELSE emitted
    /\ reported' = IF phase = "collect" THEN DevsOf(acc) ELSE reported
    /\ kept' = IF phase = "collect" THEN stable ELSE kept
    /\ todo' = {}
    /\ acc' = {}
    /\ UNCHANGED <<present, sys, stable, scrapes, changes>>

(* Mutant: a device that has gone is read again until it comes back.      *)
ReadFailRetry ==
    /\ phase \in {"describe", "collect"}
    /\ todo # {}
    /\ Min(todo) \notin IgnoredDevices \cup present
    /\ UNCHANGED vars

(* A listed device that has gone: NetClassByIface fails, getNetClassInfo   *)
(* returns the error and the caller logs it and sends nothing.            *)
ReadFail ==
    /\ phase \in {"describe", "collect"}
    /\ todo # {}
    /\ Min(todo) \notin IgnoredDevices \cup present
    /\ phase' = "registered"
    /\ kept' = IF phase = "collect" THEN stable ELSE kept
    /\ todo' = {}
    /\ acc' = {}
    /\ UNCHANGED <<present, sys, described, emitted, reported, stable,
                   scrapes, changes>>

(* Every device read: Describe sends the descriptors, Collect the metrics. *)
SendAll ==
    /\ phase \in {"describe", "collect"}
    /\ todo = {}
    /\ phase' = "registered"
    /\ described' = IF phase = "describe" THEN Described(acc) ELSE described
    /\ emitted' = IF phase = "collect" THEN Collected(acc) ELSE emitted
    /\ reported' = IF phase = "collect" THEN DevsOf(acc) ELSE reported
    /\ kept' = IF phase = "collect" THEN stable ELSE kept
    /\ acc' = {}
    /\ UNCHANGED <<present, sys, todo, stable, scrapes, changes>>

(* The kernel: a device appears, disappears or changes its attributes.   *)
DeviceAdd(d) ==
    /\ changes < MaxChanges /\ d \notin present
    /\ present' = present \cup {d}
    /\ \E i \in Info : sys' = [sys EXCEPT ![d] = i]
    /\ changes' = changes + 1
    /\ UNCHANGED <<phase, todo, acc, described, emitted, reported, stable,
                   kept, scrapes>>

DeviceRemove(d) ==
    /\ changes < MaxChanges /\ d \in present
    /\ present' = present \ {d}
    /\ sys' = [sys EXCEPT ![d] = NoInfo]
    /\ stable' = stable \ {d}
    /\ changes' = changes + 1
    /\ UNCHANGED <<phase, todo, acc, described, emitted, reported, kept,
                   scrapes>>

AttrChange(d) ==
    /\ changes < MaxChanges /\ d \in present
    /\ \E i \in Info \ {sys[d]} : sys' = [sys EXCEPT ![d] = i]
    /\ changes' = changes + 1
    /\ UNCHANGED <<present, phase, todo, acc, described, emitted, reported,
                   stable, kept, scrapes>>

(* The explored behaviour is over: every scrape has been served.          *)
Terminating ==
    /\ phase = "registered" /\ scrapes = MaxScrapes
    /\ UNCHANGED vars

Next ==
    \/ Register \/ Scrape \/ ReadDevice \/ ReadFail \/ SendAll
    \/ \E d \in Devices : DeviceAdd(d) \/ DeviceRemove(d) \/ AttrChange(d)
    \/ Terminating

Spec == Init /\ [][Next]_vars

(* Describe and Collect run getNetClassInfo to its end on the goroutine   *)
(* that called them; the kernel and the scrapes are not bound to act.     *)
FairSpec == Spec /\ WF_vars(ReadDevice \/ ReadFail \/ SendAll)

----
(* The type invariant.                                                    *)
TypeOK ==
    /\ present \subseteq Devices
    /\ sys \in [Devices -> Info]
    /\ phase \in {"unregistered", "describe", "registered", "collect"}
    /\ todo \subseteq Devices
    /\ acc \subseteq [dev : Devices, info : Info]
    /\ described \cup emitted \subseteq {"up", "info"} \cup OptFields
    /\ reported \cup stable \cup kept \subseteq Devices
    /\ scrapes \in 0..MaxScrapes
    /\ changes \in 0..MaxChanges

(* Collect and getNetClassInfo: a scrape reports either no device or every *)
(* device that stayed present and not ignored for the whole call; a device *)
(* vanishing under one of them never yields a partial interface list.     *)
AllOrNothing ==
    reported = {} \/ kept \subseteq reported

(* The prometheus.Collector contract: Describe sends a superset of the     *)
(* descriptors of the metrics Collect sends, unless it sent none (an       *)
(* unchecked collector).  Describe reads sysfs once, at registration.     *)
CollectedWereDescribed ==
    described # {} => emitted \subseteq described

(* Describe and getNetClassInfo, Collect: every call returns, whatever     *)
(* the kernel does to the devices it listed; a device removed between the  *)
(* listing and its read ends the call with an error instead of a wait.     *)
CallsReturn ==
    phase \in {"describe", "collect"} ~> phase = "registered"

====
