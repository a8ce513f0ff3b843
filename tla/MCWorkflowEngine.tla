-------------------------- MODULE MCWorkflowEngine --------------------------
(* Small playbooks: a walk through every kind of node, the same one with a  *)
(* definition published over it, and two external tasks in a row.           *)
EXTENDS WorkflowEngine

CONSTANTS i1, w1, c1, c2, l1

At(kind, next) == [kind |-> kind, next |-> next, reminds |-> kind = "wait_event"]

\* event -> decision -> date -> agent -> checkpoint -> completed, the decision's
\* other branch being cancelled.
MCWalk ==
    [n \in {"signed", "fit", "visit", "file", "ask", "done", "dropped"} |->
       CASE n = "signed"  -> At("wait_event", {"fit"})
         [] n = "fit"     -> At("decision", {"visit", "dropped"})
         [] n = "visit"   -> At("wait_moment", {"file"})
         [] n = "file"    -> At("agent_task", {"ask"})
         [] n = "ask"     -> At("human_checkpoint", {"done"})
         [] n = "done"    -> At("completed", {})
         [] n = "dropped" -> At("cancelled", {})]

\* Published over MCWalk, it waits for an event where MCWalk asks a human, for
\* two hours instead of a date, and has neither the event wait nor the decision.
MCRewrite ==
    [n \in DOMAIN MCWalk |->
       CASE n = "ask"              -> At("wait_event", {"done"})
         [] n = "visit"            -> At("wait_duration", {"file"})
         [] n \in {"signed", "fit"} -> At("absent", {})
         [] OTHER                  -> MCWalk[n]]

MCWalkNodes == DOMAIN MCWalk
MCBroken    == {"fit"}
MCOnce      == <<MCWalk>>
MCRewritten == <<MCWalk, MCRewrite>>

MCPairNodes == {"one", "two", "end"}
MCPair ==
    << [n \in MCPairNodes |->
          CASE n = "one" -> At("agent_task", {"two"})
            [] n = "two" -> At("agent_task", {"end"})
            [] OTHER     -> At("completed", {})] >>
=============================================================================
