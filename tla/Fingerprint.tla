---------------------------- MODULE Fingerprint ----------------------------
(***************************************************************************)
(* The fingerprint validator (package fingerprint, fingerprint.go lines    *)
(* 1-107) across restarts of the agent.  New hashes a value with SHA-256   *)
(* and formats the sum as hex; validate compares it with the previously    *)
(* persisted digest; NewWithValidation composes the two; Write persists    *)
(* the digest.  The caller (spec 3, 4.4, 4.5, 7) is modelled from the      *)
(* spec: at every start it observes the monitored node's identity,        *)
(* validates its fingerprint against the store, on a ValidationError       *)
(* resets the discovered configuration, runs Discover (which keeps a      *)
(* configuration it already has) and persists the new fingerprint; any     *)
(* other error ends the process.  The agent may crash at any point and a   *)
(* container restart gives the node a fresh identity.                     *)
(*                                                                         *)
(* A digest is never spelled out: the text in the store is "the first len  *)
(* characters of the hex digest of identity of", with SHA-256 taken to be  *)
(* collision free, so two texts are equal exactly when they are equal as   *)
(* records.                                                               *)
(***************************************************************************)
EXTENDS Naturals

CONSTANTS
    MaxIds,       \* bound on the identities the node takes (restarts)
    AtomicStore   \* a failed Write leaves the previous content in place

(* The identity bound is a positive number; the store's atomicity is a    *)
(* property of the io.Writer, true or false.                              *)
ASSUME FingerprintAssumption ==
    MaxIds \in Nat \ {0} /\ AtomicStore \in BOOLEAN

VARIABLES
    node,     \* identity of the running node process
    config,   \* the adapter's discovered identity, kept across restarts
    store,    \* the persisted digest text
    pc,       \* control point of the agent's start sequence
    seen      \* identity observed and fingerprinted at this start

vars == <<node, config, store, pc, seen>>

Size == 32        \* sha256.Size
BlockSize == 64   \* sha256.BlockSize
HexLen == 2 * Size  \* length of fmt.Sprintf("%x", h.Sum(nil))

Ids == 1..MaxIds
None == 0         \* no identity: an empty configuration, the zero digest

Text == [of : Ids \cup {None}, len : 0..HexLen]
EmptyText == [of |-> None, len |-> 0]

(* The first n characters of a digest text.                               *)
PrefixText(t, n) == IF n = 0 THEN EmptyText ELSE [t EXCEPT !.len = n]

----
(* New(out, val): the hash of val in hex.  sha256's Write never fails or   *)
(* writes short, and the length check compares HexLen with BlockSize.      *)
New(val) ==
    IF HexLen < BlockSize
    THEN [err |-> "construction", hash |-> EmptyText]
    ELSE [err |-> "none", hash |-> [of |-> val, len |-> HexLen]]

(* Mutant: the comparison inverted.                                        *)
validateInverted(newfp, prev) ==
    IF prev.len > 1 /\ prev = newfp.hash THEN "validation" ELSE "none"

(* validate(newfp, prev): a previous digest longer than one character      *)
(* that differs from the new one is a ValidationError.                    *)
validate(newfp, prev) ==
    IF prev.len > 1 /\ prev # newfp.hash THEN "validation" ELSE "none"

(* NewWithValidation(val, out, prev): New, then ReadAll of prev (which may *)
(* fail with an I/O error), then validate.                                *)
NewWithValidation(val, prev, readOk) ==
    LET f == New(val) IN
    IF f.err # "none" THEN f.err
    ELSE IF ~readOk THEN "io"
    ELSE validate(f, prev)

----
Init ==
    /\ node \in Ids
    /\ config = None
    /\ store = EmptyText
    /\ pc = "down"
    /\ seen = None

(* The agent process starts and observes the node's current identity.     *)
Boot ==
    /\ pc = "down"
    /\ pc' = "boot"
    /\ seen' = node
    /\ UNCHANGED <<node, config, store>>

(* The caller's NewWithValidation: success goes on to Discover, a          *)
(* ValidationError to ResetConfig, any other error ends the process.      *)
Validate ==
    /\ pc = "boot"
    /\ \E readOk \in BOOLEAN :
         LET r == NewWithValidation(seen, store, readOk) IN
         pc' = IF r = "none" THEN "discover"
               ELSE IF r = "validation" THEN "reset" ELSE "down"
    /\ UNCHANGED <<node, config, store, seen>>

(* ResetConfig after a ValidationError: the discovered facts are cleared. *)
ResetConfig ==
    /\ pc = "reset"
    /\ config' = None
    /\ pc' = "discover"
    /\ UNCHANGED <<node, store, seen>>

(* Discover: the fast path keeps a configuration already present,         *)
(* otherwise the probe finds the node observed at this start.             *)
Discover ==
    /\ pc = "discover"
    /\ config' = IF config = None THEN seen ELSE config
    /\ pc' = "persist"
    /\ UNCHANGED <<node, store, seen>>

(* Write: out.Write stores n bytes of the digest; fewer than all of them   *)
(* come with an error, which the caller treats as fatal.  With an atomic   *)
(* store a failed write leaves the previous content.                      *)
Persist ==
    /\ pc = "persist"
    /\ \E n \in 0..HexLen :
         LET fp == New(seen).hash IN
         /\ store' = IF n = HexLen THEN fp
                     ELSE IF AtomicStore THEN store ELSE PrefixText(fp, n)
         /\ pc' = IF n = HexLen THEN "running" ELSE "down"
    /\ UNCHANGED <<node, config, seen>>

(* The agent process dies at any point of its life.                       *)
Crash ==
    /\ pc # "down"
    /\ pc' = "down"
    /\ UNCHANGED <<node, config, store, seen>>

(* The node's container restarts and gets a fresh identity.               *)
Drift ==
    /\ node < MaxIds
    /\ node' = node + 1
    /\ UNCHANGED <<config, store, pc, seen>>

Next == Boot \/ Validate \/ ResetConfig \/ Discover \/ Persist \/ Crash \/ Drift

Spec == Init /\ [][Next]_vars

----
(* The type invariant.                                                    *)
TypeOK ==
    /\ node \in Ids
    /\ config \in Ids \cup {None}
    /\ store \in Text
    /\ pc \in {"down", "boot", "reset", "discover", "persist", "running"}
    /\ seen \in Ids \cup {None}

(* The spec (4.4, 7): an agent that gets past validation monitors the node *)
(* it observed at this start, never a configuration left from an earlier   *)
(* identity: a drift is either caught by validate or the configuration is  *)
(* fresh.                                                                  *)
NoSilentDrift ==
    pc \in {"persist", "running"} => config = seen

(* The spec (4.4): validate succeeds only against an empty previous digest *)
(* or one equal to the new digest.                                        *)
ValidateContract ==
    [][pc = "boot" /\ pc' = "discover"
         => store = EmptyText \/ store = New(seen).hash]_vars

====
