------------------------------- MODULE Vertical -------------------------------
(***************************************************************************)
(* What the vertical pipeline promises, whatever its trainers: one model   *)
(* goes through the stages of a spec in order, each stage continuing what  *)
(* the one before it trained; the run is done when it went through all.    *)
(***************************************************************************)
EXTENDS Naturals, Sequences

VARIABLES
  chain,        \* the stages the model went through, in order
  length,       \* the number of stages of the spec
  status        \* "off", "running", "done" or "failed"

vars == <<chain, length, status>>

Init == chain = <<>> /\ length = 0 /\ status = "off"

Start ==
  /\ status # "running"
  /\ status' = "running" /\ chain' = <<>> /\ length' \in Nat

Continue ==
  /\ status = "running"
  /\ Len(chain) < length
  /\ chain' = Append(chain, Len(chain) + 1)
  /\ UNCHANGED <<length, status>>

Complete ==
  /\ status = "running"
  /\ length > 0 /\ Len(chain) = length
  /\ status' = "done"
  /\ UNCHANGED <<chain, length>>

Fail ==
  /\ status = "running"
  /\ status' = "failed"
  /\ UNCHANGED <<chain, length>>

Next == Start \/ Continue \/ Complete \/ Fail

Spec == Init /\ [][Next]_vars
=============================================================================
