-------------------------------- MODULE Desk --------------------------------
(***************************************************************************)
(* How the operations of the Console's packages run.  An operation reads   *)
(* and checks, and then writes without looking again; its caller may die   *)
(* in between.  What one $transaction writes is one step.  The event that  *)
(* an operation appends to the ledger at its end is left out: EventLedger  *)
(* has it.  An operation that refuses, or finds nothing, changes nothing   *)
(* and is left out.  Days are ticks.                                       *)
(***************************************************************************)
EXTENDS Naturals, FiniteSets, FiniteSetsExt

CONSTANTS Clerks,        \* requests under way at once
          MaxRequests,   \* model bound on the requests that are let in
          MaxDeaths,     \* model bound on deaths
          LastDay        \* model bound on time

ASSUME DeskAssumption ==
    IsFiniteSet(Clerks) /\ {MaxRequests, MaxDeaths, LastDay} \subseteq Nat

VARIABLES request,       \* request[c]: the operation c is in, and what it has read
          begun, deaths,
          today

deskVars == <<request, begun, deaths, today>>

AtRest == [op |-> "none"]

DeskInit == request = [c \in Clerks |-> AtRest] /\ begun = 0 /\ deaths = 0
            /\ today = 0

Doing(c, op) == request[c].op = op

\* The checks passed; what they read is kept in the request.
Begins(c, next) ==
    /\ Doing(c, "none") /\ begun < MaxRequests /\ begun' = begun + 1
    /\ request' = [request EXCEPT ![c] = next] /\ UNCHANGED <<deaths, today>>

GoesOn(c, next) ==
    request' = [request EXCEPT ![c] = next] /\ UNCHANGED <<begun, deaths, today>>

Finishes(c) == GoesOn(c, AtRest)

ClerkDies(c) ==
    /\ ~Doing(c, "none") /\ deaths < MaxDeaths /\ deaths' = deaths + 1
    /\ request' = [request EXCEPT ![c] = AtRest] /\ UNCHANGED <<begun, today>>

DayPasses == today < LastDay /\ today' = today + 1 /\ UNCHANGED <<request, begun, deaths>>

\* Helpers of the modules that extend this one.
SumOf(f) == MapThenSumSet(LAMBDA x : f[x], DOMAIN f)
LesserOf(a, b) == IF a < b THEN a ELSE b
When(holds, one) == IF holds THEN {one} ELSE {}
=============================================================================
