------------------------- MODULE MCStreamRegistry --------------------------
(* Small instances of StreamRegistry for TLC.                             *)
EXTENDS StreamRegistry, TLC

CONSTANTS k1, k2

MCSinks == {k1, k2}

====
