---------------------------- MODULE NetClassProofs ----------------------------
(***************************************************************************)
(* Proofs that the netclass model is well typed and that a scrape never    *)
(* reports a partial interface list, for any number of devices, any set of *)
(* attributes and ignored devices, and any number of scrapes and sysfs     *)
(* changes.                                                               *)
(***************************************************************************)
EXTENDS NetClass, TLAPS

USE NetClassAssumption

(* Only a finished Collect has reported devices.                          *)
ReportedOnlyAfterCollect ==
    phase \in {"unregistered", "describe", "collect"} => reported = {}

(* The netClass map exists only while a call runs.                        *)
AccOnlyInCall ==
    phase \in {"unregistered", "registered"} => acc = {}

(* While a call runs, every device that stayed present is in the map or    *)
(* still to be read.                                                      *)
StableCovered ==
    phase \in {"describe", "collect"} => stable \subseteq DevsOf(acc) \cup todo

(* An ignored device is never counted as one the call must report.        *)
StableNotIgnored ==
    stable \cap IgnoredDevices = {}

IInv ==
    /\ TypeOK
    /\ AllOrNothing
    /\ ReportedOnlyAfterCollect
    /\ AccOnlyInCall
    /\ StableCovered
    /\ StableNotIgnored

----
(* Initially no call has run.                                             *)
LEMMA InitIInv == Init => IInv
  BY DEF Init, IInv, TypeOK, Info, NoInfo, AllOrNothing,
         ReportedOnlyAfterCollect, AccOnlyInCall, StableCovered,
         StableNotIgnored

(* A map's descriptors are metric names of the collector.                 *)
LEMMA SentNames ==
  ASSUME NEW a \in SUBSET [dev : Devices, info : Info]
  PROVE  /\ Described(a) \subseteq {"up", "info"} \cup OptFields
         /\ Collected(a) \subseteq {"up", "info"} \cup OptFields
         /\ DevsOf(a) \subseteq Devices
  BY DEF Described, Collected, Shown, DevsOf, Info

(* Each step keeps the model well typed.                                  *)
LEMMA StepTypeOK ==
  ASSUME IInv, [Next]_vars
  PROVE  TypeOK'
  <1> USE DEF IInv, TypeOK
  <1>1. CASE Register
    BY <1>1 DEF Register, BeginCall
  <1>2. CASE Scrape
    BY <1>2 DEF Scrape, BeginCall
  <1>3. CASE ReadDevice
    BY <1>3 DEF ReadDevice
  <1>4. CASE ReadFail
    BY <1>4 DEF ReadFail
  <1>5. CASE SendAll
    BY <1>5, SentNames DEF SendAll
  <1>6. ASSUME NEW d \in Devices, DeviceAdd(d) PROVE TypeOK'
    BY <1>6 DEF DeviceAdd
  <1>7. ASSUME NEW d \in Devices, DeviceRemove(d) PROVE TypeOK'
    BY <1>7 DEF DeviceRemove, NoInfo, Info, SpeedVals
  <1>8. ASSUME NEW d \in Devices, AttrChange(d) PROVE TypeOK'
    BY <1>8 DEF AttrChange
  <1>9. CASE Terminating \/ UNCHANGED vars
    BY <1>9 DEF Terminating, vars
  <1> QED
    BY <1>1, <1>2, <1>3, <1>4, <1>5, <1>6, <1>7, <1>8, <1>9 DEF Next
CallInv ==
    /\ AllOrNothing
    /\ ReportedOnlyAfterCollect
    /\ AccOnlyInCall
    /\ StableCovered
    /\ StableNotIgnored

(* Each step keeps what a running call has read, and what a finished      *)
(* Collect reported, in step with the devices that stayed present.        *)
LEMMA StepCallInv ==
  ASSUME IInv, [Next]_vars
  PROVE  CallInv'
  <1> USE DEF IInv, CallInv, AllOrNothing, ReportedOnlyAfterCollect,
              AccOnlyInCall, StableCovered, StableNotIgnored
  <1>1. CASE Register \/ Scrape
    BY <1>1 DEF Register, Scrape, BeginCall
  <1>2. CASE ReadDevice
    <2> DEFINE d == Min(todo)
    <2>1. /\ d \in IgnoredDevices \/ d \in present
          /\ todo' = todo \ {d}
          /\ acc' = IF d \in IgnoredDevices THEN acc
                    ELSE acc \cup {[dev |-> d, info |-> sys[d]]}
          /\ phase \in {"describe", "collect"}
          /\ UNCHANGED <<phase, reported, stable, kept>>
      BY <1>2 DEF ReadDevice
    <2>2. d \in stable => d \in DevsOf(acc')
      <3> SUFFICES ASSUME d \in stable PROVE d \in DevsOf(acc')
        OBVIOUS
      <3>1. d \notin IgnoredDevices
        OBVIOUS
      <3>2. [dev |-> d, info |-> sys[d]] \in acc'
        BY <2>1, <3>1
      <3> QED
        BY <3>2 DEF DevsOf
    <2>3. DevsOf(acc) \subseteq DevsOf(acc')
      BY <2>1 DEF DevsOf
    <2> QED
      BY <2>1, <2>2, <2>3
  <1>3. CASE ReadFail
    BY <1>3 DEF ReadFail
  <1>4. CASE SendAll
    BY <1>4 DEF SendAll
  <1>5. ASSUME NEW d \in Devices,
               DeviceAdd(d) \/ DeviceRemove(d) \/ AttrChange(d)
        PROVE  CallInv'
    BY <1>5 DEF DeviceAdd, DeviceRemove, AttrChange
  <1>6. CASE Terminating \/ UNCHANGED vars
    BY <1>6 DEF Terminating, vars
  <1> QED
    BY <1>1, <1>2, <1>3, <1>4, <1>5, <1>6 DEF Next

(* A step of Describe, Collect or the kernel keeps IInv.                  *)
LEMMA StepIInv == IInv /\ [Next]_vars => IInv'
  BY StepTypeOK, StepCallInv DEF IInv, CallInv

(* The netclass model's strengthening holds in every reachable state.     *)
THEOREM NetClassIInv == Spec => []IInv
  BY InitIInv, StepIInv, PTL DEF Spec

(* getNetClassInfo and Collect: for any number of devices and any kernel  *)
(* changes between listing and reading, a scrape reports no device or     *)
(* every device that stayed present and not ignored throughout.           *)
THEOREM AllOrNothingHolds == Spec => []AllOrNothing
  BY NetClassIInv, PTL DEF IInv

(* Type correctness of the collector, its calls and the changing sysfs.   *)
THEOREM NetClassTypeCorrect == Spec => []TypeOK
  BY NetClassIInv, PTL DEF IInv

====
