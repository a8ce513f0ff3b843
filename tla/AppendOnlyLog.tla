---------------------------- MODULE AppendOnlyLog ----------------------------
(***************************************************************************)
(* What the Event Ledger promises its callers, with no database in sight:  *)
(* one history per tenant, which only ever grows at its end, and in which  *)
(* an append call is recorded at most once.  EventLedger implements it.    *)
(***************************************************************************)
EXTENDS Sequences, Functions

CONSTANTS Tenants,      \* the tenants, each with a history of its own
          Calls,        \* the append calls ever made
          TenantOf      \* TenantOf[c]: the tenant an append call writes for

VARIABLE history        \* history[t]: the calls recorded for t, oldest first

Recorded(t) == Range(history[t])

LogInit == history = [t \in Tenants |-> <<>>]

Record(c) ==
    LET t == TenantOf[c]
    IN  /\ c \notin Recorded(t)
        /\ history' = [history EXCEPT ![t] = Append(@, c)]

LogNext == \E c \in Calls : Record(c)

LogSpec == LogInit /\ [][LogNext]_history
=============================================================================
