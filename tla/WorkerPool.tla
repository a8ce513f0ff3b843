----------------------------- MODULE WorkerPool -----------------------------
(***************************************************************************)
(* The workers of packages/workflow/src/worker.ts, as far as the passes    *)
(* they run share them: where each one is, and how many have died.  A      *)
(* worker that dies, or whose pass throws, starts its next pass afresh.    *)
(***************************************************************************)
EXTENDS Integers, FiniteSets

CONSTANTS Workers,
          MaxCrashes      \* model bound on deaths

ASSUME PoolAssumption == IsFiniteSet(Workers) /\ MaxCrashes \in Nat

VARIABLES at,             \* at[w]: the next statement of w's pass, or "idle"
          crashes         \* deaths so far

PoolInit == at = [w \in Workers |-> "idle"] /\ crashes = 0

Goto(w, label) == at' = [at EXCEPT ![w] = label]

Dies(w) ==
    /\ crashes < MaxCrashes /\ at[w] # "idle"
    /\ crashes' = crashes + 1
    /\ Goto(w, "idle")
=============================================================================
