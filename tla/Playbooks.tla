------------------------------ MODULE Playbooks ------------------------------
(***************************************************************************)
(* The graphs the firm serves its clients by, packages/workflow/src/       *)
(* seed.ts, what publishing one demands (playbook.ts) and how a decision   *)
(* reads the client and the context (predicate.ts), walked by one client's *)
(* instance while officers move his compliance state.  How the engine runs *)
(* the tasks of an instance, and loses workers, is in WorkflowEngine.      *)
(***************************************************************************)
EXTENDS Naturals, SequencesExt, FiniteSets, TLC

CONSTANTS Conditions   \* predicates of a firm's own decisions, as playbooks of one node

VARIABLES walk,        \* the instance: its playbook, its node, its status
          context,     \* what completed tasks have written into it
          compliance,  \* client.complianceState
          looked,      \* what the last gate saw of it
          reviewed     \* the last draft has been through a person

playbookRows == <<walk, context, compliance, looked, reviewed>>

States == {"pending_assessment", "pass", "pass_with_findings", "needs_review", "fail"}

-----------------------------------------------------------------------------
(***************************************************************************)
(* predicate.ts.  A predicate is a comparison of a field, or all, any, not *)
(* of others; it holds, fails, or cannot be evaluated.                     *)
(***************************************************************************)
Verdict(b) == IF b THEN "true" ELSE "false"

Compare(field, op, value) == [is |-> "comparison", field |-> field, op |-> op, value |-> value]
AllOf(ps) == [is |-> "all", of |-> ps]
AnyOf(ps) == [is |-> "any", of |-> ps]
Not(p)  == [is |-> "not", of |-> <<p>>]

Ordered(op, a, b) == Verdict(CASE op = "gt" -> a > b [] op = "gte" -> a >= b
                               [] op = "lt" -> a < b [] op = "lte" -> a <= b)

\* The fields that hold words; what else a firm compares is a number or a date.
Words == {"client.complianceState", "context.reviewCallAt", "context.fundingOutcome",
          "context.stackHealth"}

\* A field that is not in scope equals nothing, and has no order; nor has a word.
Compares(p, scope) ==
    LET found == p.field \in DOMAIN scope
    IN  CASE p.op = "exists"     -> Verdict(found)
          [] p.op = "not_exists" -> Verdict(~found)
          [] p.op = "eq"         -> Verdict(found /\ scope[p.field] = p.value)
          [] p.op = "neq"        -> Verdict(found => scope[p.field] # p.value)
          [] p.op = "in"         -> Verdict(found /\ scope[p.field] \in p.value)
          [] p.op = "not_in"     -> Verdict(found => scope[p.field] \notin p.value)
          [] OTHER               -> IF found /\ p.field \notin Words
                                    THEN Ordered(p.op, scope[p.field], p.value) ELSE "cannot"

\* The first child that is not `carry` decides, an error included.
FirstNot(carry, verdicts) ==
    LET odd == {i \in DOMAIN verdicts : verdicts[i] # carry}
    IN  IF odd = {} THEN carry ELSE verdicts[CHOOSE i \in odd : \A j \in odd : i <= j]

\* The part of a predicate that a path of child numbers leads to.
PartAt(p, path) == FoldLeft(LAMBDA part, i : part.of[i], p, path)

Evaluate(p, scope) ==
    LET at[path \in Seq(Nat)] ==
            LET part     == PartAt(p, path)
                verdicts == [i \in DOMAIN part.of |-> at[Append(path, i)]]
            IN  CASE part.is = "comparison" -> Compares(part, scope)
                  [] part.is = "all" -> FirstNot("true", verdicts)
                  [] part.is = "any" -> FirstNot("false", verdicts)
                  [] part.is = "not" -> CASE verdicts[1] = "cannot" -> "cannot"
                                          [] verdicts[1] = "true"   -> "false"
                                          [] OTHER                  -> "true"
    IN  at[<<>>]

-----------------------------------------------------------------------------
(***************************************************************************)
(* The nodes.                                                              *)
(***************************************************************************)
AgentTask(next)  == [kind |-> "agent_task", next |-> next]
Checkpoint(next) == [kind |-> "human_checkpoint", next |-> next]
Decision(branches, otherwise) ==
    [kind |-> "decision", branches |-> branches, otherwise |-> otherwise]
Branch(when, next) == [when |-> when, next |-> next]
Event(next)    == [kind |-> "wait", until |-> "event", next |-> next]
Duration(next) == [kind |-> "wait", until |-> "duration", next |-> next]
MomentIn(field, next) == [kind |-> "wait", until |-> "moment", field |-> field, next |-> next]
Terminal(outcome) == [kind |-> "terminal", outcome |-> outcome]

PERMITTING_STATES == {"pass", "pass_with_findings"}
Permits == Compare("client.complianceState", "in", PERMITTING_STATES)

Phase0Intake ==
    [open_file |-> AgentTask("send_welcome"),
     send_welcome |-> AgentTask("record_initial_consents"),
     record_initial_consents |-> AgentTask("invite_bank_connection"),
     invite_bank_connection |-> AgentTask("await_bank_authorization"),
     await_bank_authorization |-> Event("request_documents"),
     request_documents |-> AgentTask("await_documents"),
     await_documents |-> Event("enrich_intake"),
     enrich_intake |-> AgentTask("build_entity_graph"),
     build_entity_graph |-> AgentTask("score_readiness"),
     score_readiness |-> AgentTask("assess_compliance_state"),
     assess_compliance_state |-> Checkpoint("compliance_gate")]

Phase0Gate ==
    [compliance_gate |-> Decision(
        <<Branch(Permits, "draft_readiness_blueprint"),
          Branch(Compare("client.complianceState", "eq", "fail"), "do_not_fund_routing")>>,
        "hold_for_findings"),
     hold_for_findings |-> Checkpoint("compliance_gate"),
     do_not_fund_routing |-> Checkpoint("ended_without_blueprint")]

Phase0Blueprint ==
    [draft_readiness_blueprint |-> AgentTask("blueprint_review"),
     blueprint_review |-> Checkpoint("deliver_blueprint"),
     deliver_blueprint |-> AgentTask("book_review_call"),
     book_review_call |-> AgentTask("await_review_call"),
     await_review_call |-> MomentIn("reviewCallAt", "remind_review_call"),
     remind_review_call |-> AgentTask("phase_0_complete"),
     phase_0_complete |-> Terminal("completed"),
     ended_without_blueprint |-> Terminal("cancelled")]

Phase1Placement ==
    [confirm_placement_scope |-> AgentTask("placement_gate"),
     placement_gate |-> Decision(<<Branch(Permits, "request_recommendation")>>,
                                 "placement_frozen"),
     placement_frozen |-> Checkpoint("ended_not_placed"),
     request_recommendation |-> AgentTask("draft_suitability_memo"),
     draft_suitability_memo |-> AgentTask("memo_review"),
     memo_review |-> Checkpoint("request_client_authorization"),
     request_client_authorization |-> AgentTask("await_client_authorization"),
     await_client_authorization |-> Event("compliance_officer_approval"),
     compliance_officer_approval |-> Checkpoint("submit_application"),
     submit_application |-> AgentTask("notify_submission")]

\* Mutant: what is not a decline is an offer.
OutcomeByElse ==
    Decision(<<Branch(Compare("context.fundingOutcome", "eq", "declined"), "notify_decline")>>,
             "notify_offer")

OutcomeGate ==
    Decision(<<Branch(Compare("context.fundingOutcome", "eq", "approved"), "notify_offer"),
               Branch(Compare("context.fundingOutcome", "eq", "declined"), "notify_decline")>>,
             "phase_1_complete")

Phase1Outcome ==
    [notify_submission |-> AgentTask("await_provider_decision"),
     await_provider_decision |-> Event("record_outcome"),
     record_outcome |-> AgentTask("outcome_gate"),
     outcome_gate |-> OutcomeGate,
     notify_offer |-> AgentTask("phase_1_complete"),
     notify_decline |-> AgentTask("phase_1_complete"),
     phase_1_complete |-> Terminal("completed"),
     ended_not_placed |-> Terminal("cancelled")]

Phase2Brief ==
    [refresh_bank_feed |-> AgentTask("compute_stack_position"),
     compute_stack_position |-> AgentTask("update_cost_of_capital"),
     update_cost_of_capital |-> AgentTask("health_gate"),
     health_gate |-> Decision(
        <<Branch(Compare("context.stackHealth", "eq", "deteriorating"), "escalate_to_advisory")>>,
        "draft_capital_command_brief"),
     escalate_to_advisory |-> Checkpoint("draft_capital_command_brief"),
     draft_capital_command_brief |-> AgentTask("brief_review"),
     brief_review |-> Checkpoint("deliver_brief"),
     deliver_brief |-> AgentTask("phase_2_complete"),
     phase_2_complete |-> Terminal("completed")]

PostFunding ==
    [let_the_facility_settle |-> Duration("check_in"),
     check_in |-> AgentTask("follow_up_complete"),
     follow_up_complete |-> Terminal("completed")]

\* A firm's own playbook: one decision, taken or not.
Own(condition) ==
    [decide |-> Decision(<<Branch(condition, "taken")>>, "not_taken"),
     taken |-> Terminal("completed"),
     not_taken |-> Terminal("cancelled")]

\* The parts of a graph, which have no node in common.
Joined(some, others) ==
    [n \in DOMAIN some \union DOMAIN others |-> IF n \in DOMAIN some THEN some[n] ELSE others[n]]

Playbook(start, nodes) == [startNode |-> start, nodes |-> nodes]

Playbooks ==
    {Playbook("open_file", Joined(Phase0Intake, Joined(Phase0Gate, Phase0Blueprint))),
     Playbook("confirm_placement_scope", Joined(Phase1Placement, Phase1Outcome)),
     Playbook("refresh_bank_feed", Phase2Brief),
     Playbook("let_the_facility_settle", PostFunding)}
        \union {Playbook("decide", Own(p)) : p \in Conditions}

-----------------------------------------------------------------------------
(***************************************************************************)
(* playbook.ts: what publishing demands of the graph.                      *)
(***************************************************************************)
Outgoing(node) ==
    CASE node.kind = "decision" -> {node.branches[i].next : i \in DOMAIN node.branches}
                                       \union {node.otherwise}
      [] node.kind = "terminal" -> {}
      [] OTHER                  -> {node.next}

\* As many steps as there are nodes lead wherever the graph leads.
ReachableFrom(nodes, some) ==
    LET within[steps \in Nat] ==
            IF steps = 0 THEN some
            ELSE LET near == within[steps - 1]
                 IN  near \union UNION {Outgoing(nodes[n]) : n \in near \intersect DOMAIN nodes}
    IN  within[Cardinality(DOMAIN nodes)]

Valid(book) ==
    LET nodes == book.nodes
    IN  /\ book.startNode \in DOMAIN nodes
        /\ \A n \in DOMAIN nodes : /\ Outgoing(nodes[n]) \subseteq DOMAIN nodes
                                   /\ nodes[n].kind = "decision" => nodes[n].branches # <<>>
        /\ ReachableFrom(nodes, {book.startNode}) = DOMAIN nodes
        /\ \E n \in DOMAIN nodes : nodes[n].kind = "terminal"

-----------------------------------------------------------------------------
(***************************************************************************)
(* The walk.                                                               *)
(***************************************************************************)
Unwritten == [field \in {} |-> ""]   \* a context nobody has written to

PlaybooksInit ==
    /\ \E book \in {b \in Playbooks : Valid(b)} :
          walk = [book |-> book, node |-> book.startNode, status |-> "running"]
    /\ context = Unwritten /\ compliance = "pending_assessment"
    /\ looked = "nothing" /\ reviewed = FALSE

At(kind) == walk.status = "running" /\ walk.book.nodes[walk.node].kind = kind
Node == walk.book.nodes[walk.node]

AdvanceTo(next) == walk' = [walk EXCEPT !.node = next]

Drafts  == {"draft_readiness_blueprint", "draft_suitability_memo", "draft_capital_command_brief"}
Reviews == {"blueprint_review", "memo_review", "brief_review"}

\* What a completion may write: a field a later node reads, or nothing.
Patches ==
    CASE walk.book.startNode = "open_file" ->
             {Unwritten, "context.reviewCallAt" :> "a day"}
      [] walk.book.startNode = "confirm_placement_scope" ->
             {Unwritten} \union {"context.fundingOutcome" :> o : o \in {"approved", "declined",
                                                                       "withdrawn"}}
      [] walk.book.startNode = "refresh_bank_feed" ->
             {Unwritten} \union {"context.stackHealth" :> h : h \in {"stable", "deteriorating"}}
      [] OTHER -> {Unwritten}

\* An agent, or a person, reports the step done.
CompleteExternalTask ==
    /\ At("agent_task") \/ At("human_checkpoint")
    /\ \E patch \in Patches : context' = patch @@ context
    /\ AdvanceTo(Node.next)
    /\ reviewed' = IF walk.node \in Drafts THEN FALSE
                   ELSE IF walk.node \in Reviews THEN TRUE ELSE reviewed
    /\ UNCHANGED <<compliance, looked>>

\* An event of the client, or the time that was waited for.
ResolveWait ==
    /\ At("wait")
    /\ IF Node.until = "moment" /\ "context." \o Node.field \notin DOMAIN context
       THEN walk' = [walk EXCEPT !.status = "failed"]
       ELSE AdvanceTo(Node.next)
    /\ UNCHANGED <<context, compliance, looked, reviewed>>

Scope == "client.complianceState" :> compliance @@ context

\* The client and the context are read again here.  The first branch that holds
\* is taken; one that cannot be evaluated is retried, and fails the walk at last.
Decide ==
    /\ At("decision")
    /\ LET branches == Node.branches
           verdict  == [i \in DOMAIN branches |-> Evaluate(branches[i].when, Scope)]
           deciding == {i \in DOMAIN branches : verdict[i] # "false"}
           first    == CHOOSE i \in deciding : \A j \in deciding : i <= j
       IN  IF deciding = {} THEN AdvanceTo(Node.otherwise)
           ELSE IF verdict[first] = "cannot"
                THEN walk' \in {walk, [walk EXCEPT !.status = "failed"]}
           ELSE AdvanceTo(branches[first].next)
    /\ looked' = compliance /\ UNCHANGED <<context, compliance, reviewed>>

End ==
    /\ At("terminal")
    /\ walk' = [walk EXCEPT !.status = Node.outcome]
    /\ UNCHANGED <<context, compliance, looked, reviewed>>

\* An officer, at any moment and to any state, from a fail too (clients/src).
OfficerDetermines ==
    /\ compliance' \in States \ {compliance}
    /\ UNCHANGED <<walk, context, looked, reviewed>>

PlaybooksNext == CompleteExternalTask \/ ResolveWait \/ Decide \/ End \/ OfficerDetermines

PlaybooksSpec == PlaybooksInit /\ [][PlaybooksNext]_playbookRows

-----------------------------------------------------------------------------
PlaybooksTypeOK ==
    /\ walk.book \in Playbooks /\ walk.node \in DOMAIN walk.book.nodes
    /\ walk.status \in {"running", "failed", "completed", "cancelled"}
    /\ compliance \in States /\ looked \in States \union {"nothing"} /\ reviewed \in BOOLEAN

\* No document reaches a client that a person has not read since it was last
\* drafted ("A document carrying a funding recommendation is the clearest
\* candidate", seed.ts), whichever way through the graph was taken.
NothingGoesOutUnread ==
    walk.node \in {"deliver_blueprint", "request_client_authorization", "submit_application",
                   "deliver_brief"} => reviewed

\* A Blueprint is drafted, and an application prepared, only on a walk whose
\* last look found a state that permits it, though the state moves all the
\* while and findings may be held and resolved (Decision E).
WorkFollowsAPass ==
    walk.node \in {"draft_readiness_blueprint", "deliver_blueprint", "request_recommendation",
                   "submit_application"} => looked \in {"pass", "pass_with_findings"}

\* A client is told of an offer only when one was recorded, and of a decline
\* likewise; what is neither, or was never recorded, is told as neither ("a
\* client told an offer arrived when it did not is a mistake no later
\* correction undoes").
ToldWhatHappened ==
    [][LET said == ("context.fundingOutcome" :> "nothing") IN
       walk'.node # walk.node =>
           /\ walk'.node = "notify_offer"   => (context @@ said)["context.fundingOutcome"] = "approved"
           /\ walk'.node = "notify_decline" => (context @@ said)["context.fundingOutcome"] = "declined"
      ]_playbookRows

\* From wherever a walk stands, an end of it can still be reached: publishing
\* demands only that the graph has an end somewhere (validate).
AnEndIsInReach ==
    \E n \in ReachableFrom(walk.book.nodes, {walk.node}) : walk.book.nodes[n].kind = "terminal"

\* What was never measured is neither high nor low, and a compliance state is no
\* number (Decision E): no branch is taken on the order of a field that is not
\* there or holds a word, not even on its negation.
UnmeasuredDecidesNothing ==
    \A p \in Conditions :
        p.is \in {"comparison", "not"} =>
            LET c == IF p.is = "not" THEN p.of[1] ELSE p
            IN  walk.book.startNode = "decide" /\ walk.book.nodes["decide"].branches[1].when = p
                    /\ c.is = "comparison" /\ c.op \in {"gt", "gte", "lt", "lte"}
                    /\ (c.field \in DOMAIN Scope => c.field \in Words)
                => walk.node \notin {"taken", "not_taken"}
=============================================================================
