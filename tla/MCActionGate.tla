---------------------------- MODULE MCActionGate ----------------------------
(* Requests of either kind for one client; an officer who is a Level 3 human *)
(* and one who is an agent; a breach that pauses service until its review    *)
(* lapses, and one that pauses it from then on.                              *)
EXTENDS ActionGate

MCAlerts == [kind |-> "payment_alert_non_response", severity |-> "critical"]
MCDebt   == [kind |-> "undisclosed_debt", severity |-> "notable"]
MCBoth   == {MCAlerts, MCDebt}
MCOne    == {MCAlerts}
=============================================================================
