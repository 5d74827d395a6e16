---------------------------- MODULE MCTimerWatch ----------------------------
(* Small instances of TimerWatch for TLC.                                 *)
EXTENDS TimerWatch, TLC

CONSTANTS l1, l2, s1, s2, s3

MCListeners == {l1, l2}
MCTwoStoppers == {s1, s2}
MCOneStopper == {s1}
MCThreeStoppers == {s1, s2, s3}

(* Listener channels are interchangeable, and so are the Stop callers.    *)
MCSymmetry == Permutations(MCListeners) \cup Permutations(MCTwoStoppers)

====
