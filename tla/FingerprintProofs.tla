--------------------------- MODULE FingerprintProofs ---------------------------
(***************************************************************************)
(* Proofs about the fingerprint validator across restarts: for any number  *)
(* of identities, crashes and short writes, the model is well typed, and   *)
(* New never fails, so every error at a start comes from ReadAll or         *)
(* validate.                                                              *)
(***************************************************************************)
EXTENDS Fingerprint, TLAPS

USE FingerprintAssumption

----
(* New of an identity or of the empty configuration succeeds: the hex      *)
(* digest is not shorter than the block size it is compared with.         *)
LEMMA NewDigest ==
  ASSUME NEW v \in Ids \cup {None}
  PROVE  New(v) = [err |-> "none", hash |-> [of |-> v, len |-> HexLen]]
  BY DEF New, HexLen, Size, BlockSize

(* Any prefix of a digest is a digest text.                               *)
LEMMA PrefixType ==
  ASSUME NEW t \in Text, NEW n \in 0..HexLen
  PROVE  PrefixText(t, n) \in Text
  BY DEF PrefixText, Text, EmptyText, HexLen, Size

LEMMA InitTypeOK == Init => TypeOK
  BY DEF Init, TypeOK, Text, EmptyText, Ids, None, HexLen, Size

(* Each start step, crash or drift keeps the model well typed.            *)
LEMMA NextTypeOK == TypeOK /\ [Next]_vars => TypeOK'
  <1> SUFFICES ASSUME TypeOK, [Next]_vars PROVE TypeOK'
    OBVIOUS
  <1> USE DEF TypeOK
  <1>1. CASE Persist
    <2>1. PICK n \in 0..HexLen :
               LET fp == New(seen).hash IN
               /\ store' = IF n = HexLen THEN fp
                           ELSE IF AtomicStore THEN store ELSE PrefixText(fp, n)
               /\ pc' = IF n = HexLen THEN "running" ELSE "down"
      BY <1>1 DEF Persist
    <2>2. New(seen).hash \in Text
      BY NewDigest DEF Text, HexLen, Size
    <2>3. store' \in Text
      BY <2>1, <2>2, PrefixType
    <2> QED
      BY <1>1, <2>1, <2>3 DEF Persist
  <1>2. CASE Boot \/ Validate \/ ResetConfig \/ Discover \/ Crash \/ Drift
    BY <1>2 DEF Boot, Validate, ResetConfig, Discover, Crash, Drift, Ids, None
  <1>3. CASE UNCHANGED vars
    BY <1>3 DEF vars
  <1> QED
    BY <1>1, <1>2, <1>3 DEF Next

(* Type correctness of the start sequence, the store and the node.        *)
THEOREM FingerprintTypeCorrect == Spec => []TypeOK
  BY InitTypeOK, NextTypeOK, PTL DEF Spec

====
