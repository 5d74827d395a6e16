--------------------------- MODULE WatchLifecycle ---------------------------
(***************************************************************************)
(* What a watcher promises about its lifecycle (spec 3, 4.1): it is        *)
(* created, goes to Running exactly once, goes to Stopped on an explicit   *)
(* stop and never returns to Running.                                     *)
(***************************************************************************)
VARIABLE state

States == {"Created", "Running", "Stopped"}

LInit == state = "Created"

(* StartOnce: Created to Running.                                         *)
LStart == state = "Created" /\ state' = "Running"

(* Stop while Running: Running to Stopped.                                *)
LStop == state = "Running" /\ state' = "Stopped"

LNext == LStart \/ LStop

LSpec == LInit /\ [][LNext]_state

====
