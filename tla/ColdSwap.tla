------------------------------ MODULE ColdSwap ------------------------------
(***************************************************************************)
(* What the local orchestrator promises of LM Studio's memory: "sequential *)
(* cold-swap".  At most one model is resident, and a model takes the place *)
(* of another only after the memory was empty.                             *)
(***************************************************************************)
CONSTANT Slots

VARIABLE loaded     \* the slots whose model is resident

Init == loaded = {}

Load(s) == loaded = {} /\ loaded' = {s}

Drop == loaded # {} /\ loaded' = {}

Next == Drop \/ \E s \in Slots : Load(s)

Spec == Init /\ [][Next]_loaded
=============================================================================
