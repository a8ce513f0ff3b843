--------------------------- MODULE WorkflowEngine ---------------------------
(***************************************************************************)
(* The workflow engine, packages/workflow/src/engine.ts, over its queue:   *)
(* instances that walk a playbook graph one task at a time, workers that   *)
(* run tick, callers that start instances and report external work done,   *)
(* and listener passes that resume event waits.                            *)
(*                                                                         *)
(* No handler of engine.ts opens a transaction, so each of its statements  *)
(* is a step, other processes' statements come in between, and a process   *)
(* may die after any of them.  Time is reduced to what it decides: whether *)
(* a pending row is due yet and whether a lease has run out.  Appends to   *)
(* the Event Ledger change no state read here and are left out; every      *)
(* place a process can die at has another statement next to it.            *)
(***************************************************************************)
EXTENDS Naturals, FiniteSets, Sequences

CONSTANTS Instances, Nodes, StartNode,
          Definitions,     \* the definitions published, one over the other
          Workers,         \* processes that run tick
          Callers,         \* API requests: start, completeExternalTask
          Listeners,       \* listener passes: resolveEventWait
          TaskIds,         \* model bound: at most this many task rows
          MaxAttempts,     \* maxAttempts of a row
          BatchSize,       \* options.batchSize
          Broken,          \* nodes whose predicate or date may not evaluate
          MaxMishaps,      \* model bound on deaths and overlaps together
          Null

External == {"agent_task", "human_checkpoint"}
Terminal == {"completed", "cancelled"}
Waits    == {"wait_event", "wait_duration", "wait_moment"}
Kinds    == External \union Terminal \union Waits \union {"decision", "absent"}

ASSUME EngineAssumption ==
    /\ StartNode \in Nodes
    /\ Definitions \in Seq([Nodes -> [kind : Kinds, next : SUBSET Nodes,
                                      reminds : BOOLEAN]])
    /\ Definitions # <<>>
    /\ MaxAttempts \in Nat \ {0} /\ BatchSize \in Nat \ {0}
    /\ MaxMishaps \in Nat
    /\ Workers \intersect (Callers \union Listeners) = {}
    /\ Callers \intersect Listeners = {}

VARIABLES published,  \* which definition the pinned version now holds
          inst,       \* inst[i]: the row of workflow_instances
          context,    \* context[i]: the tasks whose patch is in the context
          row,        \* row[t]: the row of workflow_tasks, or Null
          notified,   \* notified[t]: assignments raised for the task
          patched,    \* history: tasks whose completion wrote its patch
          pc, job,    \* pc[p], job[p]: the next statement and its locals
          batch,      \* batch[w]: claimed copies not yet executed
          crashes,
          overlaps    \* history: overlaps[i], how often a task of i was taken
                      \* up while another call was completing it

engineVars == <<published, inst, context, row, notified, patched, pc, job,
                batch, crashes, overlaps>>
Procs == Workers \union Callers \union Listeners

Node(v, n) == Definitions[v][n]
LiveStatuses == {"pending", "running", "waiting"}
Final == Terminal \union {"failed"}
Labels == {"idle", "claim", "pick", "park", "notify", "remind", "defer",
           "succeed", "move", "enqueue", "finish", "fail", "condemn",
           "fetch", "patch", "resume"}
Rows == [inst : Instances, node : Nodes,
         status : LiveStatuses \union {"succeeded", "dead_letter"},
         later : BOOLEAN, lease : {"none", "valid", "expired"},
         attempts : Nat, deferred : BOOLEAN, chase : BOOLEAN]
Jobs == [task : TaskIds \union {Null}, attempts : Nat, inst : Instances,
         def : 1..Len(Definitions), next : Nodes \union {Null}, ctx : SUBSET TaskIds]

ASSUME NullAssumption == Null \notin Rows \union Jobs \union Nodes \union TaskIds

Live(t) == row[t] # Null /\ row[t].status \in LiveStatuses

NewRow(i, n, later) ==
    [inst |-> i, node |-> n, status |-> "pending", later |-> later,
     lease |-> "none", attempts |-> 0, deferred |-> FALSE, chase |-> FALSE]

\* What executeTask, advanceTo and recordFailure are handed: the task row and
\* the definition as they were read.
Job(t, attempts, next) ==
    [task |-> t, attempts |-> attempts, inst |-> row[t].inst,
     def |-> published, next |-> next, ctx |-> {}]

EngineInit ==
    /\ published = 1
    /\ inst = [i \in Instances |-> [status |-> "none", node |-> Null]]
    /\ context = [i \in Instances |-> {}]
    /\ row = [t \in TaskIds |-> Null]
    /\ notified = [t \in TaskIds |-> 0]
    /\ patched = {}
    /\ pc = [p \in Procs |-> "idle"]
    /\ job = [p \in Procs |-> Null]
    /\ batch = [w \in Workers |-> {}]
    /\ crashes = 0
    /\ overlaps = [i \in Instances |-> 0]

Goto(p, label) == pc' = [pc EXCEPT ![p] = label] /\ UNCHANGED <<job, batch>>

\* The handler returns: a worker turns to the rest of its batch.
Return(p) ==
    /\ pc' = [pc EXCEPT ![p] = IF p \in Workers /\ batch[p] # {}
                               THEN "pick" ELSE "idle"]
    /\ job' = [job EXCEPT ![p] = Null]
    /\ UNCHANGED batch

SetRow(t, r) == row' = [row EXCEPT ![t] = r]
Released(r)  == [r EXCEPT !.lease = "none"]

-----------------------------------------------------------------------------
(***************************************************************************)
(* A worker's pass: reclaim, claim, then the batch one task at a time.     *)
(***************************************************************************)
ReclaimExpiredLeases(w) ==
    /\ pc[w] = "idle" /\ Goto(w, "claim")
    /\ row' = [t \in TaskIds |->
                 IF Live(t) /\ row[t].status = "running" /\ row[t].lease = "expired"
                 THEN [Released(row[t]) EXCEPT !.status = "pending"]
                 ELSE row[t]]
    /\ UNCHANGED <<published, inst, context, notified, patched, crashes, overlaps>>

DueTasks == {t \in TaskIds : Live(t) /\ row[t].status = "pending" /\ ~row[t].later}

\* As many due rows as the batch takes.
Claim(w) ==
    /\ pc[w] = "claim"
    /\ \E B \in SUBSET DueTasks :
         /\ \/ Cardinality(B) = BatchSize
            \/ Cardinality(B) < BatchSize /\ B = DueTasks
         /\ row' = [t \in TaskIds |->
                      IF t \in B THEN [row[t] EXCEPT !.status = "running",
                                         !.lease = "valid", !.attempts = @ + 1]
                                 ELSE row[t]]
         /\ batch' = [batch EXCEPT ![w] =
                        {[task |-> t, attempts |-> row'[t].attempts] : t \in B}]
         /\ pc' = [pc EXCEPT ![w] = IF B = {} THEN "idle" ELSE "pick"]
    /\ UNCHANGED <<published, inst, context, notified, patched, job, crashes, overlaps>>

\* executeTask reads the instance and its definition and dispatches on the
\* node's kind.  A predicate or a date that does not evaluate is a failure;
\* a decision takes the first branch that holds; a date is past or to come,
\* and has come once the row was deferred to it.
Dispatch(t) ==
    LET node == Node(published, row[t].node)
        to(label) == [pc |-> label, next |-> Null]
        advance   == {[pc |-> "succeed", next |-> n] : n \in node.next}
        broken    == IF row[t].node \in Broken THEN {to("fail")} ELSE {}
    IN  CASE node.kind = "absent"        -> {to("fail")}
          [] node.kind \in Terminal      -> {to("succeed")}
          [] node.kind \in External      -> {to("park")}
          [] node.kind = "wait_event"    -> {to("park")}
          [] node.kind = "wait_duration" -> advance
          [] node.kind = "decision"      -> advance \union broken
          [] node.kind = "wait_moment"   -> advance \union broken \union
                 (IF row[t].deferred THEN {} ELSE {to("defer")})

ExecuteTask(w) ==
    /\ pc[w] = "pick"
    /\ \E c \in batch[w] : \E d \in Dispatch(c.task) :
         /\ job' = [job EXCEPT ![w] = Job(c.task, c.attempts, d.next)]
         /\ batch' = [batch EXCEPT ![w] = @ \ {c}]
         /\ pc' = [pc EXCEPT ![w] = d.pc]
    /\ UNCHANGED <<published, inst, context, row, notified, patched, crashes, overlaps>>

\* park, for the three kinds that wait for someone else.
Park(w) ==
    /\ pc[w] = "park"
    /\ LET t == job[w].task
           node == Node(job[w].def, row[t].node)
       IN  /\ SetRow(t, [Released(row[t]) EXCEPT !.status = "waiting"])
           /\ IF node.kind \in External THEN Goto(w, "notify")
              ELSE IF node.reminds THEN Goto(w, "remind") ELSE Return(w)
    /\ UNCHANGED <<published, inst, context, notified, patched, crashes, overlaps>>

RaiseAssignment(w) ==
    /\ pc[w] = "notify"
    /\ notified' = [notified EXCEPT ![job[w].task] = @ + 1]
    /\ Return(w)
    /\ UNCHANGED <<published, inst, context, row, patched, crashes, overlaps>>

ScheduleReminder(w) ==
    /\ pc[w] = "remind"
    /\ SetRow(job[w].task, [row[job[w].task] EXCEPT !.chase = TRUE])
    /\ Return(w)
    /\ UNCHANGED <<published, inst, context, notified, patched, crashes, overlaps>>

DeferUntil(w) ==
    /\ pc[w] = "defer"
    /\ SetRow(job[w].task, [Released(row[job[w].task]) EXCEPT
                             !.status = "pending", !.later = TRUE, !.deferred = TRUE])
    /\ Return(w)
    /\ UNCHANGED <<published, inst, context, notified, patched, crashes, overlaps>>

-----------------------------------------------------------------------------
(***************************************************************************)
(* advanceTo, and the terminal case, which has no next node.               *)
(***************************************************************************)
Succeed(p) ==
    /\ pc[p] = "succeed"
    /\ SetRow(job[p].task, [Released(row[job[p].task]) EXCEPT !.status = "succeeded"])
    /\ Goto(p, IF job[p].next = Null THEN "finish" ELSE "move")
    /\ UNCHANGED <<published, inst, context, notified, patched, crashes, overlaps>>

MoveInstance(p) ==
    /\ pc[p] = "move"
    /\ inst' = [inst EXCEPT ![job[p].inst] =
                  [status |-> "running", node |-> job[p].next]]
    /\ Goto(p, "enqueue")
    /\ UNCHANGED <<published, context, row, notified, patched, crashes, overlaps>>

EnqueueNode(p) ==
    /\ pc[p] = "enqueue"
    /\ \E t \in TaskIds :
         /\ row[t] = Null /\ \A u \in TaskIds : row[u] = Null => t <= u
         /\ SetRow(t, NewRow(job[p].inst, job[p].next,
                             Node(job[p].def, job[p].next).kind = "wait_duration"))
    /\ Return(p)
    /\ UNCHANGED <<published, inst, context, notified, patched, crashes, overlaps>>

FinishInstance(p) ==
    /\ pc[p] = "finish"
    /\ LET n == row[job[p].task].node
       IN  inst' = [inst EXCEPT ![job[p].inst] =
                      [status |-> Node(job[p].def, n).kind, node |-> n]]
    /\ Return(p)
    /\ UNCHANGED <<published, context, row, notified, patched, crashes, overlaps>>

(***************************************************************************)
(* recordFailure: fail decides on the copy's attempts; a dead-lettered     *)
(* task then ends its instance.                                            *)
(***************************************************************************)
\* Mutant: a dead-lettered task leaves its instance as it was.
FailTaskOnly(p) ==
    /\ pc[p] = "fail" /\ Return(p)
    /\ LET t == job[p].task
       IN  SetRow(t, IF job[p].attempts >= MaxAttempts
                     THEN [Released(row[t]) EXCEPT !.status = "dead_letter"]
                     ELSE [Released(row[t]) EXCEPT !.status = "pending", !.later = TRUE])
    /\ UNCHANGED <<published, inst, context, notified, patched, crashes, overlaps>>

Fail(p) ==
    /\ pc[p] = "fail"
    /\ LET t == job[p].task
           exhausted == job[p].attempts >= MaxAttempts
       IN  IF exhausted
           THEN /\ SetRow(t, [Released(row[t]) EXCEPT !.status = "dead_letter"])
                /\ Goto(p, "condemn")
           ELSE /\ SetRow(t, [Released(row[t]) EXCEPT !.status = "pending",
                                                      !.later = TRUE])
                /\ Return(p)
    /\ UNCHANGED <<published, inst, context, notified, patched, crashes, overlaps>>

FailInstance(p) ==
    /\ pc[p] = "condemn"
    /\ inst' = [inst EXCEPT ![job[p].inst].status = "failed"]
    /\ Return(p)
    /\ UNCHANGED <<published, context, row, notified, patched, crashes, overlaps>>

-----------------------------------------------------------------------------
(***************************************************************************)
(* Callers.                                                                *)
(***************************************************************************)
\* start creates the instance; EnqueueNode follows.
Start(p, i) ==
    /\ pc[p] = "idle" /\ inst[i].status = "none"
    /\ inst' = [inst EXCEPT ![i] = [status |-> "running", node |-> StartNode]]
    /\ job' = [job EXCEPT ![p] = [task |-> Null, attempts |-> 0, inst |-> i,
                        def |-> published, next |-> StartNode, ctx |-> {}]]
    /\ pc' = [pc EXCEPT ![p] = "enqueue"]
    /\ UNCHANGED <<published, context, row, notified, patched, batch, crashes, overlaps>>

Completing(t) == \E p \in Callers : pc[p] \in {"fetch", "patch", "succeed"}
                                    /\ job[p].task = t

\* A call takes up t; nothing stops it while another call is completing t.
TakesUp(t) ==
    IF Completing(t)
    THEN /\ crashes + overlaps[row[t].inst] < MaxMishaps
         /\ overlaps' = [overlaps EXCEPT ![row[t].inst] = @ + 1]
    ELSE UNCHANGED overlaps

\* Mutant: any live task may be reported done.
CheckNothing(p, t) ==
    /\ pc[p] = "idle" /\ Live(t)
    /\ job' = [job EXCEPT ![p] = Job(t, row[t].attempts, Null)]
    /\ pc' = [pc EXCEPT ![p] = "fetch"]
    /\ TakesUp(t)
    /\ UNCHANGED <<published, inst, context, row, notified, patched, batch, crashes>>

\* completeExternalTask reads the task and refuses one that is not waiting.  It
\* marks nothing, so a second call passes while the first is under way.
CheckTask(p, t) ==
    /\ pc[p] = "idle" /\ Live(t) /\ row[t].status = "waiting"
    /\ job' = [job EXCEPT ![p] = Job(t, row[t].attempts, Null)]
    /\ pc' = [pc EXCEPT ![p] = "fetch"]
    /\ TakesUp(t)
    /\ UNCHANGED <<published, inst, context, row, notified, patched, batch, crashes>>

\* It reads the instance, context included, and the definition; a node that
\* is gone or is no longer external is reported and changes nothing.
FetchInstance(p) ==
    /\ pc[p] = "fetch"
    /\ LET j == job[p]  node == Node(published, row[job[p].task].node)
       IN  IF node.kind \in External
           THEN \E n \in node.next :
                  /\ job' = [job EXCEPT ![p] = [j EXCEPT !.def = published,
                               !.next = n, !.ctx = context[j.inst]]]
                  /\ pc' = [pc EXCEPT ![p] = "patch"]
                  /\ UNCHANGED batch
           ELSE Return(p)
    /\ UNCHANGED <<published, inst, context, row, notified, patched, crashes, overlaps>>

\* Mutant: the patch replaces the context.
ReplaceContext(p) ==
    /\ pc[p] = "patch"
    /\ context' = [context EXCEPT ![job[p].inst] = {job[p].task}]
    /\ patched' = patched \union {job[p].task}
    /\ Goto(p, "succeed")
    /\ UNCHANGED <<published, inst, row, notified, crashes, overlaps>>

\* { ...instance.context, ...contextPatch } over the context it read.
PatchContext(p) ==
    /\ pc[p] = "patch"
    /\ context' = [context EXCEPT ![job[p].inst] = job[p].ctx \union {job[p].task}]
    /\ patched' = patched \union {job[p].task}
    /\ Goto(p, "succeed")
    /\ UNCHANGED <<published, inst, row, notified, crashes, overlaps>>

\* Mutant: the update does not ask whether the task is waiting.
ResolveAnyWait(p, t) ==
    /\ pc[p] = "idle" /\ Live(t) /\ Node(published, row[t].node).kind = "wait_event"
    /\ SetRow(t, [row[t] EXCEPT !.status = "running"])
    /\ job' = [job EXCEPT ![p] = Job(t, row[t].attempts, Null)]
    /\ pc' = [pc EXCEPT ![p] = "resume"]
    /\ TakesUp(t)
    /\ UNCHANGED <<published, inst, context, notified, patched, batch, crashes>>

\* resolveEventWait: one conditional update, which grants no lease.
ResolveEventWait(p, t) ==
    /\ pc[p] = "idle" /\ Live(t) /\ row[t].status = "waiting"
    /\ Node(published, row[t].node).kind = "wait_event"
    /\ SetRow(t, [row[t] EXCEPT !.status = "running"])
    /\ job' = [job EXCEPT ![p] = Job(t, row[t].attempts, Null)]
    /\ pc' = [pc EXCEPT ![p] = "resume"]
    /\ TakesUp(t)
    /\ UNCHANGED <<published, inst, context, notified, patched, batch, crashes>>

\* It reads task, instance and definition; a node that is no longer a wait is
\* reported to the listener, and the row stays running.
ReadWait(p) ==
    /\ pc[p] = "resume"
    /\ LET node == Node(published, row[job[p].task].node)
       IN  IF node.kind \in Waits
           THEN \E n \in node.next :
                  /\ job' = [job EXCEPT ![p].def = published, ![p].next = n]
                  /\ pc' = [pc EXCEPT ![p] = "succeed"]
                  /\ UNCHANGED batch
           ELSE Return(p)
    /\ UNCHANGED <<published, inst, context, row, notified, patched, crashes, overlaps>>

-----------------------------------------------------------------------------
(***************************************************************************)
(* The world: time, deaths, and a playbook version published over itself.  *)
(***************************************************************************)
HeldByWorker(t) == \E w \in Workers :
    \/ job[w] # Null /\ job[w].task = t
    \/ \E c \in batch[w] : c.task = t

ComesDue(t) ==
    /\ Live(t) /\ row[t].later
    /\ SetRow(t, [row[t] EXCEPT !.later = FALSE])
    /\ UNCHANGED <<published, inst, context, notified, patched, pc, job, batch,
                   crashes, overlaps>>

\* Leases outlast the passes of live workers: LeasedQueue has the clock.
LeaseRunsOut(t) ==
    /\ Live(t) /\ row[t].lease = "valid" /\ ~HeldByWorker(t)
    /\ SetRow(t, [row[t] EXCEPT !.lease = "expired"])
    /\ UNCHANGED <<published, inst, context, notified, patched, pc, job, batch,
                   crashes, overlaps>>

\* The process dies, or an exception unwinds the handler and the pass.
Crash(p) ==
    /\ pc[p] # "idle" /\ \A i \in Instances : crashes + overlaps[i] < MaxMishaps
    /\ crashes' = crashes + 1
    /\ pc' = [pc EXCEPT ![p] = "idle"]
    /\ job' = [job EXCEPT ![p] = Null]
    /\ batch' = [w \in Workers |-> IF w = p THEN {} ELSE batch[w]]
    /\ UNCHANGED <<published, inst, context, row, notified, patched, overlaps>>

\* publishPlaybook's upsert rewrites the version instances are pinned to.
Republish ==
    /\ published < Len(Definitions)
    /\ published' = published + 1
    /\ UNCHANGED <<inst, context, row, notified, patched, pc, job, batch, crashes, overlaps>>

WorkerStep(w) ==
    \/ ReclaimExpiredLeases(w) \/ Claim(w) \/ ExecuteTask(w)
    \/ Park(w) \/ RaiseAssignment(w) \/ ScheduleReminder(w) \/ DeferUntil(w)

Advance(p) == \/ Succeed(p) \/ MoveInstance(p) \/ EnqueueNode(p)
              \/ FinishInstance(p) \/ Fail(p) \/ FailInstance(p)

CompletionStep(p) == FetchInstance(p) \/ PatchContext(p)

EngineNext ==
    \/ \E w \in Workers : WorkerStep(w)
    \/ \E p \in Procs : Advance(p)
    \/ \E p \in Callers : CompletionStep(p)
    \/ \E p \in Callers : \E i \in Instances : Start(p, i)
    \/ \E p \in Callers : \E t \in TaskIds : CheckTask(p, t)
    \/ \E p \in Listeners : \E t \in TaskIds : ResolveEventWait(p, t)
    \/ \E p \in Listeners : ReadWait(p)
    \/ \E t \in TaskIds : ComesDue(t) \/ LeaseRunsOut(t)
    \/ \E p \in Procs : Crash(p)
    \/ Republish

EngineSafetySpec == EngineInit /\ [][EngineNext]_engineVars

\* Workers poll for ever (startWorker's loop) and a handler under way goes
\* on; moments and leases run out; and the outside world does its part: what
\* is asked to start is started, external work is reported done, and awaited
\* events arrive.  Nothing forces a death.
EngineSpec ==
    /\ EngineSafetySpec
    /\ \A w \in Workers : WF_engineVars(WorkerStep(w))
    /\ \A p \in Procs : WF_engineVars(Advance(p))
    /\ \A p \in Callers : WF_engineVars(CompletionStep(p))
    /\ \A p \in Listeners : WF_engineVars(ReadWait(p))
    /\ \A t \in TaskIds :
         /\ WF_engineVars(ComesDue(t)) /\ WF_engineVars(LeaseRunsOut(t))
         /\ WF_engineVars(\E p \in Callers : CheckTask(p, t))
         /\ WF_engineVars(\E p \in Listeners : ResolveEventWait(p, t))

-----------------------------------------------------------------------------
(***************************************************************************)
(* Properties.                                                             *)
(***************************************************************************)
\* The type invariant of the engine.
EngineTypeOK ==
    /\ published \in 1..Len(Definitions)
    /\ inst \in [Instances -> [status : Final \union {"none", "running"},
                               node : Nodes \union {Null}]]
    /\ context \in [Instances -> SUBSET TaskIds]
    /\ row \in [TaskIds -> Rows \union {Null}]
    /\ notified \in [TaskIds -> Nat] /\ patched \subseteq TaskIds
    /\ pc \in [Procs -> Labels]
    /\ job \in [Procs -> Jobs \union {Null}]
    /\ batch \in [Workers -> SUBSET [task : TaskIds, attempts : Nat]]
    /\ crashes \in Nat /\ overlaps \in [Instances -> Nat]

LiveTasks(i) == {t \in TaskIds : Live(t) /\ row[t].inst = i}
MidAdvance(i) == {p \in Procs : pc[p] \in {"move", "enqueue", "finish", "condemn"}
                                /\ job[p].inst = i}

\* No task of i was taken up by a second call while a first was completing it.
Apart(i) == overlaps[i] = 0

\* An instance is in one place at a time, but for the threads that overlapping
\* completions start: whatever dies and whoever resumes it, a live task
\* carries it or a process is moving it on, and each call that took up a task
\* another was completing adds at most one more (advanceTo: succeed first,
\* enqueue last; resolveEventWait's guard; completeExternalTask has none).
SingleThread ==
    \A i \in Instances :
        Cardinality(LiveTasks(i)) + Cardinality(MidAdvance(i)) <= 1 + overlaps[i]

\* An instance that completed, was cancelled or failed stays so, and nothing
\* of it is left to run: advanceTo's unconditional write of 'running' revives
\* none whose completions did not overlap.
FinishedIsFinal ==
    [][\A i \in Instances : Apart(i) /\ inst[i].status \in Final =>
          /\ inst'[i] = inst[i]
          /\ LiveTasks(i)' = {}]_engineVars

\* The row a process is about to settle is still the one it took: running
\* for a worker's task, waiting for a completion, running for a resumption.
\* No settled task is settled again, unless by a call that overlapped the one
\* that settled it; a worker never settles what it does not hold.
SettledOnce ==
    \A p \in Procs :
        /\ pc[p] \in {"succeed", "fail", "park", "defer", "resume"} =>
             \/ Live(job[p].task) /\ row[job[p].task].status # "pending"
             \/ p \notin Workers /\ ~Apart(job[p].inst)
        /\ pc[p] \in {"move", "finish"} => row[job[p].task].status = "succeeded"
        /\ pc[p] = "condemn" => row[job[p].task].status = "dead_letter"

\* An agent task or checkpoint is put in front of its queue at most once,
\* however often its worker died before parking it.
DispatchedOnce == \A t \in TaskIds : notified[t] <= 1

\* A completed task's patch is in its instance's context: merging does not
\* erase what another completion wrote (completeExternalTask), as long as no
\* two of the instance's completions overlapped.
PatchesSurvive ==
    \A t \in patched : Apart(row[t].inst) => t \in context[row[t].inst]

\* Unless somebody dies, its definition is rewritten under it or two of its
\* completions overlap, every instance that is started ends: completed,
\* cancelled or failed.
InstanceEnds ==
    \A i \in Instances :
        (inst[i].status = "running") ~>
            (inst[i].status \in Final \/ crashes > 0 \/ published > 1 \/ ~Apart(i))

\* However its workers die, a claimed task is not stranded: a row running
\* under a lease is settled, parked or back in the queue in the end.
LeasedWorkRecovers ==
    \A t \in TaskIds :
        (Live(t) /\ row[t].status = "running" /\ row[t].lease # "none")
          ~> ~(Live(t) /\ row[t].status = "running" /\ row[t].lease # "none")

\* Comments on recordFailure and reclaimExpiredLeases: an instance left
\* running with nothing left to run is the silent stall principle 9 forbids,
\* and a crash cannot leave task and instance disagreeing.
NoSilentStall ==
    \A i \in Instances : inst[i].status = "running" =>
        LiveTasks(i) # {} \/ MidAdvance(i) # {}

\* What happens to a task and to an instance happens once: it is dispatched
\* once, settled once, and what ended stays ended.
EachTaskOnce == [](EngineTypeOK /\ DispatchedOnce /\ SettledOnce) /\ FinishedIsFinal

\* Nothing is left hanging while nobody interferes: instances end, and claimed
\* tasks come back.
WorkEnds == InstanceEnds /\ LeasedWorkRecovers
=============================================================================
