---------------------------- MODULE ConductPolicy ----------------------------
(***************************************************************************)
(* What a client's conduct calls for, packages/risk/src/conduct.ts: a pure *)
(* function of the open breaches.                                          *)
(***************************************************************************)
EXTENDS Integers, FiniteSetsExt

\* CONDUCT_RESPONSES, worst first.
Responses == <<"termination_recommended", "escalate", "service_pause", "monitor", "none">>
ResponseSet == {Responses[i] : i \in DOMAIN Responses}

Rank(response) == CHOOSE i \in DOMAIN Responses : Responses[i] = response

\* KIND_POLICY: the response at severity "serious", and which way an overdue
\* review moves it.
Policy(response, stale) == [response |-> response, stale |-> stale]
KindPolicy ==
    [independent_application    |-> Policy("service_pause", "hardens"),
     undisclosed_debt           |-> Policy("service_pause", "hardens"),
     funds_usage_anomaly        |-> Policy("escalate", "hardens"),
     document_inconsistency     |-> Policy("escalate", "hardens"),
     payment_alert_non_response |-> Policy("monitor", "softens"),
     staff_pressure_incident    |-> Policy("escalate", "hardens"),
     post_funding_non_response  |-> Policy("monitor", "softens"),
     unfounded_fee_dispute      |-> Policy("monitor", "softens"),
     abuse                      |-> Policy("termination_recommended", "hardens")]
BreachKinds == DOMAIN KindPolicy
Severities  == {"critical", "serious", "notable", "context"}

\* harden and soften saturate at the ends.
Harden(response) == Responses[Max({1, Rank(response) - 1})]
Soften(response) == Responses[Min({5, Rank(response) + 1})]

\* responseFor: severity shifts the kind's response.
ResponseFor(kind, severity) ==
    LET base == KindPolicy[kind].response
    IN  CASE severity = "critical" -> Harden(base)
          [] severity = "serious"  -> base
          [] severity = "notable"  -> Soften(base)
          [] severity = "context"  -> Soften(Soften(base))

\* toBreach: what an open breach calls for, its review overdue or not.
EffectiveResponse(kind, severity, overdue) ==
    LET base == ResponseFor(kind, severity)
    IN  IF ~overdue THEN base
        ELSE IF KindPolicy[kind].stale = "hardens" THEN Harden(base) ELSE Soften(base)

\* conductStanding: the worst of what the open breaches call for.
Standing(responses) ==
    IF responses = {} THEN "none" ELSE Responses[Min({Rank(r) : r \in responses})]

PausesService(response) == Rank(response) <= Rank("service_pause")
=============================================================================
