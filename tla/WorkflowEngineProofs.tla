------------------------ MODULE WorkflowEngineProofs ------------------------
(***************************************************************************)
(* Proofs about the workflow engine, for any playbook definitions, any     *)
(* workers, callers and listeners, any tasks and any deaths.               *)
(*                                                                         *)
(* No statement of engine.ts is inside a transaction, so what a handler    *)
(* read is true later only because nobody else may touch it: a worker's    *)
(* task is leased to it, a completion's waits, a resumption's runs without *)
(* a lease and so is never reclaimed.  Only the first holds of every task: *)
(* nothing keeps two calls from taking up one waiting task, and then what  *)
(* the invariant says of outside calls no longer holds of that instance.   *)
(* It says who holds which task in which state, that no two workers hold   *)
(* one, and that an instance whose completions stayed apart has one token: *)
(* a live task, or the process that is moving it on.                       *)
(***************************************************************************)
EXTENDS WorkflowEngine, FiniteSetTheorems, TLAPS

\* What a row may be to whoever holds it.
Exists(t)  == row[t] # Null
Leased(t)  == Exists(t) /\ row[t].status = "running" /\ row[t].lease = "valid"
Waiting(t) == Exists(t) /\ row[t].status = "waiting"
Resumed(t) == Exists(t) /\ row[t].status = "running" /\ row[t].lease = "none"
\* A row that was parked never queues again.
Parked(t)  == /\ Exists(t) /\ row[t].lease = "none"
              /\ row[t].status \in {"waiting", "running", "succeeded"}

TaskOK(t) ==
    /\ Exists(t) /\ row[t].status # "running" => row[t].lease = "none"
    /\ notified[t] \in {0, 1}
    /\ notified[t] = 1 => Parked(t)
    /\ t \in patched => Exists(t) /\ (Apart(row[t].inst) => t \in context[row[t].inst])

NoJob  == {"idle", "claim", "pick"}
Claims == {"park", "succeed", "fail", "defer"}

\* A process and the task its next statement is about.
JobOK(p) ==
    /\ pc[p] \in NoJob <=> job[p] = Null
    /\ pc[p] \notin NoJob \union {"enqueue"} =>
          /\ job[p].task \in TaskIds /\ Exists(job[p].task)
          /\ job[p].inst = row[job[p].task].inst
    /\ pc[p] \in {"patch", "move", "enqueue"} => job[p].next # Null
    /\ pc[p] = "finish" \/ (pc[p] = "succeed" /\ job[p].next = Null) =>
          Node(job[p].def, row[job[p].task].node).kind \in Terminal
    /\ pc[p] \in {"move", "finish"} => row[job[p].task].status = "succeeded"
    /\ pc[p] = "condemn" => row[job[p].task].status = "dead_letter"

WorkerOK(w) ==
    /\ pc[w] \notin {"fetch", "patch", "resume"}
    /\ pc[w] \in {"idle", "claim"} => batch[w] = {}
    /\ pc[w] \in Claims => Leased(job[w].task)
    /\ pc[w] = "notify" => Parked(job[w].task) /\ notified[job[w].task] = 0
    /\ \A c \in batch[w] : Leased(c.task)
    /\ \A c, d \in batch[w] : c.task = d.task => c = d
    /\ \A c \in batch[w] : pc[w] \in Claims => c.task # job[w].task

CallerOK(p) ==
    /\ pc[p] \in {"idle", "fetch", "patch", "succeed", "move", "enqueue", "finish"}
    /\ pc[p] \in {"fetch", "patch", "succeed"} =>
          Parked(job[p].task) /\ (Apart(job[p].inst) => Waiting(job[p].task))
    /\ pc[p] = "patch" /\ Apart(job[p].inst) => job[p].ctx = context[job[p].inst]

ListenerOK(p) ==
    /\ pc[p] \in {"idle", "resume", "succeed", "move", "enqueue", "finish"}
    /\ pc[p] \in {"resume", "succeed"} =>
          Parked(job[p].task) /\ (Apart(job[p].inst) => Resumed(job[p].task))

ProcOK(p) ==
    /\ JobOK(p)
    /\ p \in Workers => WorkerOK(p)
    /\ p \in Callers => CallerOK(p)
    /\ p \in Listeners => ListenerOK(p)

\* No two of a crew hold one task: no two workers, nor two outside calls that
\* stayed apart.
Holds(p, t) ==
    \/ p \in Workers /\ pc[p] \in Claims \union {"notify"} /\ job[p].task = t
    \/ p \in Workers /\ \E c \in batch[p] : c.task = t
    \/ p \in Callers /\ pc[p] \in {"fetch", "patch", "succeed"} /\ job[p].task = t
    \/ p \in Listeners /\ pc[p] \in {"resume", "succeed"} /\ job[p].task = t
SameCrew(p, q) == \/ p \in Workers /\ q \in Workers
                  \/ p \in Callers /\ q \in Callers
                  \/ p \in Listeners /\ q \in Listeners
OneHolder ==
    \A p, q \in Procs : \A t \in TaskIds :
        p # q /\ SameCrew(p, q) /\ Holds(p, t) /\ (p \in Workers \/ Apart(row[t].inst))
           => ~Holds(q, t)

\* An instance whose completions stayed apart has one token, and none before it
\* starts or once it ended.
Mid(p) == pc[p] \in {"move", "enqueue", "finish", "condemn"}
OneToken ==
    /\ \A t, u \in TaskIds :
         Live(t) /\ Live(u) /\ row[t].inst = row[u].inst /\ Apart(row[t].inst) => t = u
    /\ \A p \in Procs : \A t \in TaskIds :
         Mid(p) /\ Live(t) /\ Apart(row[t].inst) => row[t].inst # job[p].inst
    /\ \A p, q \in Procs :
         Mid(p) /\ Mid(q) /\ job[p].inst = job[q].inst /\ Apart(job[p].inst) => p = q
    /\ \A t \in TaskIds :
         Live(t) /\ Apart(row[t].inst) => inst[row[t].inst].status = "running"
    /\ \A p \in Procs :
         Mid(p) /\ Apart(job[p].inst) => inst[job[p].inst].status = "running"

EngineInv ==
    /\ EngineTypeOK
    /\ \A t \in TaskIds : TaskOK(t)
    /\ \A p \in Procs : ProcOK(p)
    /\ OneHolder /\ OneToken

-----------------------------------------------------------------------------
(***************************************************************************)
(* What the helpers of the model do to a process and to a row.             *)
(***************************************************************************)
LEMMA Crews ==
    /\ \A p \in Workers : p \notin Callers /\ p \notin Listeners
    /\ \A p \in Callers : p \notin Listeners
    /\ Procs = Workers \union Callers \union Listeners
BY EngineAssumption DEF Procs

LEMMA Definitive ==
    /\ Len(Definitions) \in Nat
    /\ \A v \in 1..Len(Definitions) : \A n \in Nodes :
          Node(v, n).kind \in Kinds /\ Node(v, n).next \subseteq Nodes
<1>1. Definitions \in Seq([Nodes -> [kind : Kinds, next : SUBSET Nodes, reminds : BOOLEAN]])
  BY EngineAssumption
<1>2. Len(Definitions) \in Nat /\ DOMAIN Definitions = 1..Len(Definitions)
  BY <1>1
<1>3. ASSUME NEW v \in 1..Len(Definitions), NEW n \in Nodes
      PROVE  Node(v, n).kind \in Kinds /\ Node(v, n).next \subseteq Nodes
  <2>1. Definitions[v] \in [Nodes -> [kind : Kinds, next : SUBSET Nodes, reminds : BOOLEAN]]
    BY <1>1, <1>2
  <2> HIDE DEF Kinds
  <2>2. Definitions[v][n] \in [kind : Kinds, next : SUBSET Nodes, reminds : BOOLEAN]
    BY <2>1
  <2> QED
    BY <2>2 DEF Node
<1> QED
  BY <1>2, <1>3

\* Nobody but p moves, and what p's pc, job and batch become.
Steps(p, label, j, B) ==
    /\ pc' \in [Procs -> Labels] /\ job' \in [Procs -> Jobs \union {Null}]
    /\ batch' \in [Workers -> SUBSET [task : TaskIds, attempts : Nat]]
    /\ pc'[p] = label /\ job'[p] = j /\ (p \in Workers => batch'[p] = B)
    /\ \A q \in Procs \ {p} : /\ pc'[q] = pc[q] /\ job'[q] = job[q]
                              /\ q \in Workers => batch'[q] = batch[q]

LEMMA ProcessSteps ==
    ASSUME EngineTypeOK, NEW p \in Procs, NEW label \in Labels,
           NEW j \in Jobs \union {Null},
           NEW B, p \in Workers => B \in SUBSET [task : TaskIds, attempts : Nat],
           pc' = [pc EXCEPT ![p] = label],
           (job' = job /\ j = job[p]) \/ job' = [job EXCEPT ![p] = j],
           \/ batch' = batch /\ (p \in Workers => B = batch[p])
           \/ p \in Workers /\ batch' = [batch EXCEPT ![p] = B]
    PROVE  Steps(p, label, j, B)
<1> USE DEF EngineTypeOK
<1>1. /\ pc' \in [Procs -> Labels] /\ pc'[p] = label
      /\ \A q \in Procs \ {p} : pc'[q] = pc[q]
  OBVIOUS
<1>2. /\ job' \in [Procs -> Jobs \union {Null}] /\ job'[p] = j
      /\ \A q \in Procs \ {p} : job'[q] = job[q]
  OBVIOUS
<1>3. /\ batch' \in [Workers -> SUBSET [task : TaskIds, attempts : Nat]]
      /\ p \in Workers => batch'[p] = B
      /\ \A q \in Procs \ {p} : q \in Workers => batch'[q] = batch[q]
  <2>1. CASE batch' = batch /\ (p \in Workers => B = batch[p])
    BY <2>1
  <2>2. CASE p \in Workers /\ batch' = [batch EXCEPT ![p] = B]
    BY <2>2
  <2> QED
    BY <2>1, <2>2
<1> QED
  BY <1>1, <1>2, <1>3 DEF Steps

LEMMA GotoSteps ==
    ASSUME EngineTypeOK, NEW p \in Procs, NEW label \in Labels, Goto(p, label)
    PROVE  Steps(p, label, job[p], batch[p]) /\ job' = job /\ batch' = batch
<1>1. job[p] \in Jobs \union {Null}
  BY DEF EngineTypeOK
<1>2. p \in Workers => batch[p] \in SUBSET [task : TaskIds, attempts : Nat]
  BY DEF EngineTypeOK
<1> QED
  BY <1>1, <1>2, ProcessSteps DEF Goto

LEMMA ReturnSteps ==
    ASSUME EngineTypeOK, NEW p \in Procs, Return(p)
    PROVE  \/ Steps(p, "pick", Null, batch[p]) /\ p \in Workers /\ batch[p] # {}
           \/ Steps(p, "idle", Null, batch[p]) /\ (p \in Workers => batch[p] = {})
<1>1. p \in Workers => batch[p] \in SUBSET [task : TaskIds, attempts : Nat]
  BY DEF EngineTypeOK
<1>2. CASE p \in Workers /\ batch[p] # {}
  BY <1>1, <1>2, ProcessSteps DEF Return, Labels
<1>3. CASE ~(p \in Workers /\ batch[p] # {})
  BY <1>1, <1>3, ProcessSteps DEF Return, Labels
<1> QED
  BY <1>2, <1>3

\* Only t's row becomes r.
Rewrites(t, r) ==
    /\ row' \in [TaskIds -> Rows \union {Null}] /\ row'[t] = r /\ r \in Rows /\ r # Null
    /\ \A u \in TaskIds \ {t} : row'[u] = row[u]

LEMMA SetRowRewrites ==
    ASSUME EngineTypeOK, NEW t \in TaskIds, NEW r \in Rows, SetRow(t, r)
    PROVE  Rewrites(t, r)
BY NullAssumption DEF EngineTypeOK, SetRow, Rewrites

\* The forms a row is rewritten to, and what they keep of it.
Same(e, r, status, lease) ==
    /\ e \in Rows /\ e.inst = r.inst /\ e.node = r.node
    /\ e.status = status /\ e.lease = lease

LEMMA RowForms ==
    ASSUME NEW r \in Rows
    PROVE  /\ \A s \in {"pending", "running", "waiting", "succeeded", "dead_letter"} :
                Same([Released(r) EXCEPT !.status = s], r, s, "none")
           /\ Same([Released(r) EXCEPT !.status = "pending", !.later = TRUE],
                   r, "pending", "none")
           /\ Same([Released(r) EXCEPT !.status = "pending", !.later = TRUE,
                                       !.deferred = TRUE], r, "pending", "none")
           /\ Same([r EXCEPT !.chase = TRUE], r, r.status, r.lease)
           /\ Same([r EXCEPT !.later = FALSE], r, r.status, r.lease)
           /\ Same([r EXCEPT !.lease = "expired"], r, r.status, "expired")
           /\ Same([r EXCEPT !.status = "running"], r, "running", r.lease)
           /\ Same([r EXCEPT !.status = "running", !.lease = "valid", !.attempts = @ + 1],
                   r, "running", "valid")
<1> DEFINE q == Released(r)
<1>1. q \in Rows /\ q.inst = r.inst /\ q.node = r.node /\ q.lease = "none"
  BY DEF Rows, Released
<1> HIDE DEF q
<1>2. ASSUME NEW s \in {"pending", "running", "waiting", "succeeded", "dead_letter"}
      PROVE  Same([q EXCEPT !.status = s], r, s, "none")
  BY <1>1 DEF Same, Rows, LiveStatuses
<1>3. Same([q EXCEPT !.status = "pending", !.later = TRUE], r, "pending", "none")
  BY <1>1 DEF Same, Rows, LiveStatuses
<1>4. Same([q EXCEPT !.status = "pending", !.later = TRUE, !.deferred = TRUE],
           r, "pending", "none")
  BY <1>1 DEF Same, Rows, LiveStatuses
<1>5. /\ Same([r EXCEPT !.chase = TRUE], r, r.status, r.lease)
      /\ Same([r EXCEPT !.later = FALSE], r, r.status, r.lease)
      /\ Same([r EXCEPT !.lease = "expired"], r, r.status, "expired")
      /\ Same([r EXCEPT !.status = "running"], r, "running", r.lease)
  BY DEF Same, Rows, LiveStatuses
<1>6. Same([r EXCEPT !.status = "running", !.lease = "valid", !.attempts = @ + 1],
           r, "running", "valid")
  <2> DEFINE n == r.attempts + 1
  <2>1. n \in Nat
    BY DEF Rows
  <2> HIDE DEF n
  <2>2. Same([r EXCEPT !.status = "running", !.lease = "valid", !.attempts = n],
             r, "running", "valid")
    BY <2>1 DEF Same, Rows, LiveStatuses
  <2> QED
    BY <2>2 DEF n
<1> QED
  BY <1>2, <1>3, <1>4, <1>5, <1>6 DEF q

-----------------------------------------------------------------------------
(***************************************************************************)
(* Who is left alone by a step, and what that keeps.                       *)
(***************************************************************************)
\* No step takes a row away, sends a parked one back or reopens a settled one.
RowsRemain ==
    \A u \in TaskIds : Exists(u) =>
        /\ row'[u] # Null /\ row'[u].inst = row[u].inst /\ row'[u].node = row[u].node
        /\ Parked(u) => Parked(u)'
        /\ row[u].status \in {"succeeded", "dead_letter"} => row'[u].status = row[u].status

\* Completions that overlapped stay on record.
OverlapsStay ==
    /\ overlaps' \in [Instances -> Nat]
    /\ \A i \in Instances : overlaps'[i] = 0 => Apart(i)

\* q does not move, and what it holds stays as it must.
Idles(q) == pc'[q] = pc[q] /\ job'[q] = job[q] /\ (q \in Workers => batch'[q] = batch[q])
Undisturbed(q) ==
    /\ Idles(q)
    /\ \A u \in TaskIds : Holds(q, u) =>
         /\ q \in Workers => (Leased(u) => Leased(u)') /\ notified'[u] = notified[u]
         /\ q \in Callers /\ overlaps'[row[u].inst] = 0 => (Waiting(u) => Waiting(u)')
         /\ q \in Listeners /\ overlaps'[row[u].inst] = 0 => (Resumed(u) => Resumed(u)')
    /\ q \in Callers /\ pc[q] = "patch" /\ overlaps'[job[q].inst] = 0 =>
         context'[job[q].inst] = context[job[q].inst]

LEMMA BatchTasks ==
    ASSUME EngineTypeOK, NEW w \in Workers
    PROVE  \A c \in batch[w] : c.task \in TaskIds /\ c.attempts \in Nat
BY DEF EngineTypeOK

LEMMA Bystander ==
    ASSUME EngineInv, RowsRemain, OverlapsStay, NEW q \in Procs, Undisturbed(q)
    PROVE  ProcOK(q)' /\ \A u \in TaskIds : Holds(q, u)' => Holds(q, u)
<1>0. EngineTypeOK /\ ProcOK(q) /\ JobOK(q)
  BY DEF EngineInv, ProcOK
<1>1. \A u \in TaskIds : Holds(q, u)' => Holds(q, u)
  BY DEF Undisturbed, Idles, Holds
<1>2. JobOK(q)'
  <2>1. pc'[q] = pc[q] /\ job'[q] = job[q]
    BY DEF Undisturbed, Idles
  <2>2. pc[q] \notin NoJob \union {"enqueue"} =>
           /\ row'[job[q].task] # Null /\ row'[job[q].task].inst = row[job[q].task].inst
           /\ row'[job[q].task].node = row[job[q].task].node
           /\ row[job[q].task].status \in {"succeeded", "dead_letter"} =>
                 row'[job[q].task].status = row[job[q].task].status
    BY <1>0 DEF JobOK, RowsRemain, Exists
  <2> QED
    BY <1>0, <2>1, <2>2 DEF JobOK, NoJob, Exists
<1>3. ASSUME q \in Workers PROVE WorkerOK(q)'
  <2>0. WorkerOK(q) /\ \A c \in batch[q] : c.task \in TaskIds
    BY <1>0, <1>3, BatchTasks DEF ProcOK
  <2>1. ASSUME pc[q] \in Claims PROVE Leased(job[q].task)'
    <3>1. Holds(q, job[q].task) /\ job[q].task \in TaskIds /\ Leased(job[q].task)
      BY <1>0, <1>3, <2>0, <2>1 DEF Holds, JobOK, NoJob, Claims, WorkerOK
    <3> QED
      BY <1>3, <3>1 DEF Undisturbed, Idles, Leased, Exists
  <2>2. ASSUME pc[q] = "notify" PROVE Parked(job[q].task)' /\ notified'[job[q].task] = 0
    <3>1. Holds(q, job[q].task) /\ job[q].task \in TaskIds /\ Exists(job[q].task)
          /\ Parked(job[q].task) /\ notified[job[q].task] = 0
      BY <1>0, <1>3, <2>0, <2>2 DEF Holds, JobOK, NoJob, WorkerOK
    <3> QED
      BY <1>3, <3>1 DEF Undisturbed, Idles, RowsRemain, Parked, Exists
  <2>3. ASSUME NEW c \in batch[q] PROVE Leased(c.task)'
    <3>1. Holds(q, c.task) /\ c.task \in TaskIds /\ Leased(c.task)
      BY <1>3, <2>0, <2>3 DEF Holds, WorkerOK
    <3> QED
      BY <1>3, <3>1 DEF Undisturbed
  <2>4. pc'[q] = pc[q] /\ job'[q] = job[q] /\ batch'[q] = batch[q]
    BY <1>3 DEF Undisturbed, Idles
  <2> QED
    BY <2>0, <2>1, <2>2, <2>3, <2>4 DEF WorkerOK
<1>4. ASSUME q \in Callers PROVE CallerOK(q)'
  <2>0. CallerOK(q)
    BY <1>0, <1>4 DEF ProcOK
  <2>1. ASSUME pc[q] \in {"fetch", "patch", "succeed"}
        PROVE  /\ Parked(job[q].task)'
               /\ overlaps'[job[q].inst] = 0 => Waiting(job[q].task)'
    <3>1. /\ Holds(q, job[q].task) /\ job[q].task \in TaskIds /\ Exists(job[q].task)
          /\ job[q].inst = row[job[q].task].inst /\ job[q].inst \in Instances
          /\ Parked(job[q].task)
          /\ Apart(job[q].inst) => Waiting(job[q].task)
      BY <1>0, <1>4, <2>0, <2>1 DEF Holds, JobOK, NoJob, EngineTypeOK, Jobs, CallerOK
    <3> QED
      BY <1>4, <3>1 DEF Undisturbed, Idles, RowsRemain, Parked, Exists, Waiting, OverlapsStay
  <2>2. pc'[q] = pc[q] /\ job'[q] = job[q]
    BY DEF Undisturbed, Idles
  <2>3. ASSUME pc[q] = "patch", overlaps'[job[q].inst] = 0
        PROVE  job'[q].ctx = context'[job'[q].inst]
    <3>1. job[q].inst \in Instances
      BY <1>0, <2>3 DEF JobOK, NoJob, EngineTypeOK, Jobs
    <3> QED
      BY <1>4, <2>0, <2>2, <2>3, <3>1 DEF CallerOK, Undisturbed, OverlapsStay
  <2> QED
    BY <2>0, <2>1, <2>2, <2>3 DEF CallerOK, Apart
<1>5. ASSUME q \in Listeners PROVE ListenerOK(q)'
  <2>0. ListenerOK(q)
    BY <1>0, <1>5 DEF ProcOK
  <2>1. ASSUME pc[q] \in {"resume", "succeed"}
        PROVE  /\ Parked(job[q].task)'
               /\ overlaps'[job[q].inst] = 0 => Resumed(job[q].task)'
    <3>1. /\ Holds(q, job[q].task) /\ job[q].task \in TaskIds /\ Exists(job[q].task)
          /\ job[q].inst = row[job[q].task].inst /\ job[q].inst \in Instances
          /\ Parked(job[q].task)
          /\ Apart(job[q].inst) => Resumed(job[q].task)
      BY <1>0, <1>5, <2>0, <2>1 DEF Holds, JobOK, NoJob, EngineTypeOK, Jobs, ListenerOK
    <3> QED
      BY <1>5, <3>1 DEF Undisturbed, Idles, RowsRemain, Parked, Exists, Resumed, OverlapsStay
  <2> QED
    BY <2>0, <2>1 DEF ListenerOK, Undisturbed, Idles, Apart
<1> QED
  BY <1>1, <1>2, <1>3, <1>4, <1>5 DEF ProcOK

\* What a process holds is leased to it or was parked.
LEMMA HeldRows ==
    ASSUME EngineInv, NEW q \in Procs, NEW u \in TaskIds, Holds(q, u)
    PROVE  /\ (q \in Workers /\ Leased(u)) \/ Parked(u)
           /\ Exists(u) /\ row[u].inst \in Instances
<1>1. ProcOK(q) /\ TaskOK(u) /\ EngineTypeOK
  BY DEF EngineInv
<1>2. CASE q \in Workers
  BY <1>1, <1>2, Crews DEF Holds, ProcOK, WorkerOK, Leased, Parked, Exists, EngineTypeOK, Rows
<1>3. CASE q \in Callers
  BY <1>1, <1>3, Crews DEF Holds, ProcOK, CallerOK, Parked, Exists, EngineTypeOK, Rows
<1>4. CASE q \in Listeners
  BY <1>1, <1>4, Crews DEF Holds, ProcOK, ListenerOK, Parked, Exists, EngineTypeOK, Rows
<1> QED
  BY <1>2, <1>3, <1>4 DEF Procs

\* A step of p's that takes no task another of its crew holds, unless the
\* overlap goes on record.
TakesAlone(p, q, u) == SameCrew(p, q) /\ (p \in Workers \/ overlaps'[row[u].inst] = 0)

LEMMA HoldersStay ==
    ASSUME EngineInv, RowsRemain, OverlapsStay, NEW p \in Procs,
           \A q \in Procs \ {p} : \A u \in TaskIds : Holds(q, u)' => Holds(q, u),
           \A u \in TaskIds : Holds(p, u)' =>
              Holds(p, u) \/ \A q \in Procs \ {p} : TakesAlone(p, q, u) => ~Holds(q, u)
    PROVE  OneHolder'
<1>1. ASSUME NEW a \in Procs, NEW b \in Procs, NEW t \in TaskIds,
             a # b, SameCrew(a, b), Holds(a, t)', Holds(b, t)',
             a \in Workers \/ overlaps'[row'[t].inst] = 0
      PROVE  FALSE
  <2>1. SameCrew(b, a) /\ (b \in Workers <=> a \in Workers)
    BY <1>1, Crews DEF SameCrew
  <2>2. Holds(a, t) \/ Holds(b, t)
    BY <1>1
  <2>3. Exists(t) /\ row[t].inst \in Instances /\ row'[t].inst = row[t].inst
    BY <2>2, HeldRows DEF RowsRemain
  <2>4. a \in Workers \/ (Apart(row[t].inst) /\ overlaps'[row[t].inst] = 0)
    BY <1>1, <2>3 DEF OverlapsStay
  <2>5. CASE a # p /\ b # p
    BY <1>1, <2>4, <2>5 DEF EngineInv, OneHolder
  <2>6. CASE a = p
    BY <1>1, <2>4, <2>6 DEF EngineInv, OneHolder, TakesAlone
  <2>7. CASE b = p
    BY <1>1, <2>1, <2>4, <2>7 DEF EngineInv, OneHolder, TakesAlone
  <2> QED
    BY <2>5, <2>6, <2>7
<1> QED
  BY <1>1 DEF OneHolder, SameCrew, Apart

\* Live tasks and processes on their way are about instances.
LEMMA TokenPlaces ==
    ASSUME EngineInv
    PROVE  /\ \A u \in TaskIds : Live(u) => row[u].inst \in Instances
           /\ \A q \in Procs : Mid(q) => job[q].inst \in Instances
<1>1. \A u \in TaskIds : Live(u) => row[u].inst \in Instances
  BY DEF EngineInv, EngineTypeOK, Live, Rows
<1>2. ASSUME NEW q \in Procs, Mid(q) PROVE job[q].inst \in Instances
  <2>1. job[q] # Null /\ job[q] \in Jobs \union {Null}
    BY <1>2 DEF EngineInv, EngineTypeOK, ProcOK, JobOK, Mid, NoJob
  <2> QED
    BY <2>1 DEF Jobs
<1> QED
  BY <1>1, <1>2

\* Tokens that are all old.
LEMMA TokensStay ==
    ASSUME EngineInv, OverlapsStay,
           \A u \in TaskIds : Live(u)' => Live(u) /\ row'[u].inst = row[u].inst,
           \A q \in Procs : Mid(q)' => Mid(q) /\ job'[q].inst = job[q].inst,
           \A u \in TaskIds : Live(u) /\ inst[row[u].inst].status = "running" =>
              inst'[row[u].inst].status = "running",
           \A q \in Procs : Mid(q) /\ inst[job[q].inst].status = "running" =>
              inst'[job[q].inst].status = "running"
    PROVE  OneToken'
<1>0. /\ OneToken
      /\ \A u \in TaskIds : Live(u) /\ overlaps'[row[u].inst] = 0 => Apart(row[u].inst)
      /\ \A q \in Procs : Mid(q) /\ overlaps'[job[q].inst] = 0 => Apart(job[q].inst)
  BY TokenPlaces DEF EngineInv, OverlapsStay
<1>1. \A t, u \in TaskIds : Live(t)' /\ Live(u)' /\ row'[t].inst = row'[u].inst
                              /\ overlaps'[row'[t].inst] = 0 => t = u
  BY <1>0 DEF OneToken
<1>2. \A p \in Procs : \A t \in TaskIds :
         Mid(p)' /\ Live(t)' /\ overlaps'[row'[t].inst] = 0 => row'[t].inst # job'[p].inst
  BY <1>0 DEF OneToken
<1>3. \A p, q \in Procs : Mid(p)' /\ Mid(q)' /\ job'[p].inst = job'[q].inst
                            /\ overlaps'[job'[p].inst] = 0 => p = q
  BY <1>0 DEF OneToken
<1>4. \A t \in TaskIds :
         Live(t)' /\ overlaps'[row'[t].inst] = 0 => inst'[row'[t].inst].status = "running"
  BY <1>0 DEF OneToken
<1>5. \A p \in Procs :
         Mid(p)' /\ overlaps'[job'[p].inst] = 0 => inst'[job'[p].inst].status = "running"
  BY <1>0 DEF OneToken
<1> QED
  BY <1>1, <1>2, <1>3, <1>4, <1>5 DEF OneToken, Apart

\* The token passes from the task t to p, which settled it.
LEMMA TokenPasses ==
    ASSUME EngineInv, overlaps' = overlaps,
           NEW p \in Procs, NEW t \in TaskIds,
           Apart(row[t].inst) => Live(t), ~(Live(t)'),
           \A u \in TaskIds : Live(u)' => Live(u) /\ row'[u].inst = row[u].inst,
           \A q \in Procs \ {p} : Mid(q)' => Mid(q) /\ job'[q].inst = job[q].inst,
           job'[p].inst = row[t].inst, inst' = inst
    PROVE  OneToken'
<1>0. OneToken
  BY DEF EngineInv
<1>1. \A a, u \in TaskIds : Live(a)' /\ Live(u)' /\ row'[a].inst = row'[u].inst
                              /\ Apart(row'[a].inst) => a = u
  BY <1>0 DEF OneToken
<1>2. \A q \in Procs : \A u \in TaskIds :
         Mid(q)' /\ Live(u)' /\ Apart(row'[u].inst) => row'[u].inst # job'[q].inst
  BY <1>0 DEF OneToken
<1>3. \A a, b \in Procs : Mid(a)' /\ Mid(b)' /\ job'[a].inst = job'[b].inst
                            /\ Apart(job'[a].inst) => a = b
  BY <1>0 DEF OneToken
<1>4. \A u \in TaskIds : Live(u)' /\ Apart(row'[u].inst) =>
         inst'[row'[u].inst].status = "running"
  BY <1>0 DEF OneToken
<1>5. \A q \in Procs : Mid(q)' /\ Apart(job'[q].inst) => inst'[job'[q].inst].status = "running"
  BY <1>0 DEF OneToken
<1> QED
  BY <1>1, <1>2, <1>3, <1>4, <1>5 DEF OneToken, Apart

\* What is left to show of a step of p's.
LEMMA StepKeepsInv ==
    ASSUME EngineInv, RowsRemain, OverlapsStay, NEW p \in Procs,
           \A q \in Procs \ {p} : Undisturbed(q),
           \A u \in TaskIds : Holds(p, u)' =>
              Holds(p, u) \/ \A q \in Procs \ {p} : TakesAlone(p, q, u) => ~Holds(q, u),
           EngineTypeOK', \A u \in TaskIds : TaskOK(u)', ProcOK(p)', OneToken'
    PROVE  EngineInv'
<1>1. \A q \in Procs \ {p} : ProcOK(q)' /\ \A u \in TaskIds : Holds(q, u)' => Holds(q, u)
  BY Bystander
<1>2. OneHolder'
  BY <1>1, HoldersStay
<1> QED
  BY <1>1, <1>2 DEF EngineInv

\* A row's step leaves those alone who do not hold it.
LEMMA OthersUndisturbed ==
    ASSUME NEW p, NEW t \in TaskIds, NEW r, Rewrites(t, r),
           \A q \in Procs \ {p} : Idles(q), notified' = notified, context' = context,
           \A q \in Procs \ {p} : Holds(q, t) =>
              /\ q \in Workers => (Leased(t) => Leased(t)')
              /\ q \in Callers /\ overlaps'[row[t].inst] = 0 => (Waiting(t) => Waiting(t)')
              /\ q \in Listeners /\ overlaps'[row[t].inst] = 0 => (Resumed(t) => Resumed(t)')
    PROVE  \A q \in Procs \ {p} : Undisturbed(q)
<1> SUFFICES ASSUME NEW q \in Procs \ {p} PROVE Undisturbed(q)
  OBVIOUS
<1>1. ASSUME NEW u \in TaskIds, Holds(q, u)
      PROVE  /\ q \in Workers => (Leased(u) => Leased(u)') /\ notified'[u] = notified[u]
             /\ q \in Callers /\ overlaps'[row[u].inst] = 0 => (Waiting(u) => Waiting(u)')
             /\ q \in Listeners /\ overlaps'[row[u].inst] = 0 => (Resumed(u) => Resumed(u)')
  <2>1. CASE u = t
    BY <1>1, <2>1
  <2>2. CASE u # t
    BY <2>2 DEF Rewrites, Leased, Waiting, Resumed, Exists
  <2> QED
    BY <2>1, <2>2
<1> QED
  BY <1>1 DEF Undisturbed

LEMMA TypesStay ==
    ASSUME EngineTypeOK, NEW p \in Procs, NEW label, NEW j, NEW B, Steps(p, label, j, B),
           row' \in [TaskIds -> Rows \union {Null}], OverlapsStay,
           UNCHANGED <<published, inst, context, notified, patched, crashes>>
    PROVE  EngineTypeOK'
BY DEF EngineTypeOK, Steps, OverlapsStay

LEMMA SameOverlaps ==
    ASSUME EngineTypeOK, overlaps' = overlaps
    PROVE  OverlapsStay
BY DEF EngineTypeOK, OverlapsStay, Apart

LEMMA TasksStay ==
    ASSUME EngineInv, NEW t \in TaskIds, NEW r, Rewrites(t, r), Exists(t),
           r.inst = row[t].inst, r.node = row[t].node,
           r.status # "running" => r.lease = "none",
           Parked(t) => Parked(t)',
           row[t].status \in {"succeeded", "dead_letter"} => r.status = row[t].status,
           OverlapsStay, UNCHANGED <<context, notified, patched>>
    PROVE  RowsRemain /\ \A u \in TaskIds : TaskOK(u)'
<1>1. RowsRemain
  BY DEF Rewrites, RowsRemain, Parked, Exists
<1>2. ASSUME NEW u \in TaskIds PROVE TaskOK(u)'
  <2>1. TaskOK(u) /\ (Exists(u) => row[u].inst \in Instances)
    BY DEF EngineInv, EngineTypeOK, Exists, Rows
  <2>2. Parked(u) => Parked(u)'
    BY <1>1 DEF RowsRemain, Parked
  <2>3. /\ Exists(u) => row'[u].inst = row[u].inst
        /\ Exists(u) /\ overlaps'[row[u].inst] = 0 => Apart(row[u].inst)
    BY <1>1, <2>1 DEF RowsRemain, OverlapsStay
  <2>4. u \in patched' => /\ Exists(u)'
                          /\ overlaps'[row'[u].inst] = 0 => u \in context'[row'[u].inst]
    BY <1>1, <2>1, <2>3 DEF TaskOK, RowsRemain, Exists
  <2>5. CASE u = t
    BY <2>1, <2>2, <2>4, <2>5 DEF Rewrites, TaskOK, Exists, Apart
  <2>6. CASE u # t
    BY <2>1, <2>2, <2>4, <2>6 DEF Rewrites, TaskOK, Exists, Apart
  <2> QED
    BY <2>5, <2>6
<1> QED
  BY <1>1, <1>2

\* A process that returns holds what is left of its batch.
Rests(p) ==
    \/ Steps(p, "pick", Null, batch[p]) /\ p \in Workers /\ batch[p] # {}
    \/ Steps(p, "idle", Null, batch[p]) /\ (p \in Workers => batch[p] = {})

LEMMA RestingProcess ==
    ASSUME EngineInv, NEW p \in Procs, Rests(p),
           p \in Workers => \A c \in batch[p] : Leased(c.task)'
    PROVE  /\ ProcOK(p)' /\ ~(Mid(p)')
           /\ \A u \in TaskIds : Holds(p, u)' => Holds(p, u)
<1>0. ProcOK(p)
  BY DEF EngineInv
<1>1. /\ pc'[p] \in {"pick", "idle"} /\ job'[p] = Null /\ (p \in Workers => batch'[p] = batch[p])
      /\ pc'[p] = "pick" => p \in Workers
      /\ pc'[p] = "idle" => (p \in Workers => batch[p] = {})
  BY DEF Rests, Steps
<1>2. JobOK(p)'
  BY <1>1 DEF JobOK, NoJob
<1>3. p \in Workers => WorkerOK(p)'
  BY <1>0, <1>1 DEF ProcOK, WorkerOK, Claims
<1>4. (p \in Callers => CallerOK(p)') /\ (p \in Listeners => ListenerOK(p)')
  BY <1>1, Crews DEF CallerOK, ListenerOK
<1>5. ~(Mid(p)')
  BY <1>1 DEF Mid
<1>6. \A u \in TaskIds : Holds(p, u)' => Holds(p, u)
  BY <1>1 DEF Holds, Claims
<1> QED
  BY <1>2, <1>3, <1>4, <1>5, <1>6 DEF ProcOK

LEMMA StepsIdle ==
    ASSUME NEW p \in Procs, NEW label, NEW j, NEW B, Steps(p, label, j, B)
    PROVE  \A q \in Procs \ {p} : Idles(q) /\ (Mid(q)' => Mid(q) /\ job'[q].inst = job[q].inst)
BY DEF Steps, Idles, Mid

\* The task of a worker that has yet to settle it.
LEMMA ClaimedTask ==
    ASSUME EngineInv, NEW w \in Workers, pc[w] \in Claims
    PROVE  LET t == job[w].task
           IN  /\ t \in TaskIds /\ job[w] \in Jobs /\ row[t] \in Rows /\ Leased(t)
               /\ Exists(t) /\ Live(t) /\ ~Parked(t) /\ job[w].inst = row[t].inst
               /\ \A c \in batch[w] : c.task \in TaskIds \ {t} /\ Leased(c.task)
               /\ \A q \in Procs \ {w} : Holds(q, t) =>
                    /\ q \notin Workers
                    /\ q \in Callers => ~Waiting(t)
                    /\ q \in Listeners => ~Resumed(t)
<1> DEFINE t == job[w].task
<1>1. /\ EngineTypeOK /\ JobOK(w) /\ WorkerOK(w) /\ OneHolder /\ w \in Procs
      /\ \A c \in batch[w] : c.task \in TaskIds
  BY BatchTasks DEF EngineInv, ProcOK, Procs
<1>2. t \in TaskIds /\ job[w] \in Jobs /\ row[t] \in Rows /\ Leased(t)
      /\ Exists(t) /\ job[w].inst = row[t].inst
  BY <1>1 DEF JobOK, WorkerOK, NoJob, Claims, EngineTypeOK, Leased, Exists
<1>3. Live(t) /\ ~Parked(t) /\ ~Waiting(t) /\ ~Resumed(t)
  BY <1>2 DEF Leased, Live, LiveStatuses, Parked, Waiting, Resumed, Exists
<1>4. \A c \in batch[w] : c.task \in TaskIds \ {t} /\ Leased(c.task)
  BY <1>1 DEF WorkerOK
<1>5. Holds(w, t)
  BY <1>2 DEF Holds, Claims
<1>6. \A q \in Procs \ {w} : Holds(q, t) => q \notin Workers
  BY <1>1, <1>2, <1>5 DEF OneHolder, SameCrew
<1> QED
  BY <1>2, <1>3, <1>4, <1>6

\* A worker's step that gives up its lease: what is left to show of it.
LEMMA LeaseGivenUp ==
    ASSUME EngineInv, NEW w \in Workers, pc[w] \in Claims,
           NEW s \in {"pending", "waiting", "succeeded", "dead_letter"}, NEW r,
           Rewrites(job[w].task, r), Same(r, row[job[w].task], s, "none"),
           NEW label, NEW j, Steps(w, label, j, batch[w]),
           UNCHANGED <<published, inst, context, notified, patched, crashes, overlaps>>,
           ProcOK(w)', \A u \in TaskIds : Holds(w, u)' => Holds(w, u), OneToken'
    PROVE  EngineInv'
<1> DEFINE t == job[w].task
<1>0. EngineTypeOK /\ w \in Procs /\ OverlapsStay
  BY SameOverlaps DEF EngineInv, Procs
<1>1. /\ t \in TaskIds /\ job[w] \in Jobs /\ row[t] \in Rows /\ Leased(t)
      /\ Exists(t) /\ ~Parked(t)
      /\ \A q \in Procs \ {w} : Holds(q, t) =>
            /\ q \notin Workers
            /\ q \in Callers => ~Waiting(t)
            /\ q \in Listeners => ~Resumed(t)
  BY ClaimedTask
<1>2. RowsRemain /\ \A u \in TaskIds : TaskOK(u)'
  BY <1>0, <1>1, TasksStay DEF Same, Leased
<1>3. \A q \in Procs \ {w} : Undisturbed(q)
  BY <1>0, <1>1, StepsIdle, OthersUndisturbed
<1>4. EngineTypeOK'
  BY <1>0, TypesStay DEF Rewrites
<1>5. \A u \in TaskIds : Holds(w, u)' =>
         Holds(w, u) \/ \A q \in Procs \ {w} : TakesAlone(w, q, u) => ~Holds(q, u)
  OBVIOUS
<1> QED
  BY <1>0, <1>2, <1>3, <1>4, <1>5, StepKeepsInv

\* ... and, where it returns, the token stays with the task.
LEMMA LeaseReturned ==
    ASSUME EngineInv, NEW w \in Workers, pc[w] \in Claims,
           NEW s \in {"pending", "waiting"}, NEW r,
           Rewrites(job[w].task, r), Same(r, row[job[w].task], s, "none"),
           Rests(w),
           UNCHANGED <<published, inst, context, notified, patched, crashes, overlaps>>
    PROVE  EngineInv'
<1> DEFINE t == job[w].task
<1>0. OneToken /\ w \in Procs /\ OverlapsStay
  BY SameOverlaps DEF EngineInv, Procs
<1>1. /\ t \in TaskIds /\ Live(t)
      /\ \A c \in batch[w] : c.task \in TaskIds \ {t} /\ Leased(c.task)
  BY ClaimedTask
<1>2. \A c \in batch[w] : Leased(c.task)'
  BY <1>1 DEF Rewrites, Leased, Exists
<1>3. ProcOK(w)' /\ ~(Mid(w)') /\ \A u \in TaskIds : Holds(w, u)' => Holds(w, u)
  BY <1>0, <1>2, RestingProcess
<1>4. PICK label : Steps(w, label, Null, batch[w])
  BY DEF Rests
<1>5. OneToken'
  <2>1. \A u \in TaskIds : Live(u)' => Live(u) /\ row'[u].inst = row[u].inst
    BY <1>1 DEF Rewrites, Same, Live
  <2>2. \A q \in Procs : Mid(q)' => Mid(q) /\ job'[q].inst = job[q].inst
    BY <1>0, <1>3, <1>4, StepsIdle
  <2> QED
    BY <1>0, <2>1, <2>2, TokensStay
<1> QED
  BY <1>3, <1>4, <1>5, LeaseGivenUp

-----------------------------------------------------------------------------
(***************************************************************************)
(* The steps that settle, park or put back a task.                         *)
(***************************************************************************)
LEMMA ParkKeepsInv ==
    ASSUME EngineInv, NEW w \in Workers, Park(w)
    PROVE  EngineInv'
<1> DEFINE t == job[w].task
           r == [Released(row[t]) EXCEPT !.status = "waiting"]
<1>0. EngineTypeOK /\ ProcOK(w) /\ w \in Procs /\ pc[w] \in Claims /\ pc[w] = "park" /\ OneToken
      /\ OverlapsStay
  BY SameOverlaps DEF Park, EngineInv, Procs, Claims
<1>1. /\ t \in TaskIds /\ job[w] \in Jobs /\ row[t] \in Rows /\ Exists(t) /\ ~Parked(t)
      /\ job[w].inst = row[t].inst /\ Live(t)
      /\ \A c \in batch[w] : c.task \in TaskIds \ {t} /\ Leased(c.task)
  BY <1>0, ClaimedTask
<1>2. Rewrites(t, r) /\ Same(r, row[t], "waiting", "none")
  <2>1. Same(r, row[t], "waiting", "none")
    BY <1>1, RowForms
  <2>2. r \in Rows
    BY <2>1 DEF Same
  <2>3. SetRow(t, r)
    BY DEF Park
  <2> HIDE DEF r
  <2> QED
    BY <1>0, <1>1, <2>1, <2>2, <2>3, SetRowRewrites
<1> HIDE DEF r
<1>3. UNCHANGED <<published, inst, context, notified, patched, crashes, overlaps>>
  BY DEF Park
<1>4. CASE Return(w)
  <2>1. Rests(w)
    BY <1>0, <1>4, ReturnSteps DEF Rests
  <2> QED
    BY <1>0, <1>2, <1>3, <2>1, LeaseReturned
<1>5. ASSUME NEW label \in {"notify", "remind"}, Goto(w, label) PROVE EngineInv'
  <2>1. Steps(w, label, job[w], batch[w]) /\ job' = job /\ batch' = batch
    BY <1>0, <1>5, GotoSteps DEF Labels
  <2>2. /\ pc'[w] = label /\ job'[w] = job[w] /\ batch'[w] = batch[w]
    BY <2>1 DEF Steps
  <2>3. /\ row'[t] = r /\ r # Null /\ r.inst = row[t].inst /\ r.status = "waiting"
        /\ r.lease = "none"
    BY <1>2 DEF Rewrites, Same
  <2>4. JobOK(w)'
    BY <1>0, <1>1, <2>2, <2>3, NullAssumption DEF JobOK, NoJob, Exists
  <2>5. WorkerOK(w)'
    <3>1. \A c \in batch[w] : Leased(c.task)'
      BY <1>1, <1>2 DEF Rewrites, Leased, Exists
    <3>2. notified[t] = 0 /\ (Parked(t))'
      <4>1. TaskOK(t)
        BY <1>1 DEF EngineInv
      <4>2. row'[job'[w].task] = r
        BY <2>2, <2>3
      <4> QED
        BY <1>1, <2>3, <4>1, <4>2 DEF TaskOK, Parked, Exists
    <3> QED
      BY <1>0, <1>3, <2>2, <3>1, <3>2 DEF ProcOK, WorkerOK, Claims
  <2>6. ProcOK(w)'
    BY <2>4, <2>5, Crews DEF ProcOK
  <2>7. \A u \in TaskIds : Holds(w, u)' => Holds(w, u)
    BY <1>0, <2>2, Crews DEF Holds, Claims
  <2>8. OneToken'
    <3>1. \A u \in TaskIds : Live(u)' => Live(u) /\ row'[u].inst = row[u].inst
      BY <1>1, <1>2, <2>3 DEF Rewrites, Live
    <3>2. \A q \in Procs : Mid(q)' => Mid(q) /\ job'[q].inst = job[q].inst
      <4>1. ~(Mid(w)')
        BY <2>2 DEF Mid
      <4>2. \A q \in Procs \ {w} : Mid(q)' => Mid(q) /\ job'[q].inst = job[q].inst
        BY <1>0, <2>1, StepsIdle
      <4> QED
        BY <4>1, <4>2
    <3> QED
      BY <1>0, <1>3, <3>1, <3>2, TokensStay
  <2> QED
    BY <1>0, <1>2, <1>3, <2>1, <2>6, <2>7, <2>8, LeaseGivenUp
<1> QED
  BY <1>4, <1>5 DEF Park

LEMMA DeferKeepsInv ==
    ASSUME EngineInv, NEW w \in Workers, DeferUntil(w)
    PROVE  EngineInv'
<1> DEFINE t == job[w].task
           r == [Released(row[t]) EXCEPT !.status = "pending", !.later = TRUE,
                                         !.deferred = TRUE]
<1>0. EngineTypeOK /\ w \in Procs /\ pc[w] \in Claims
  BY DEF DeferUntil, EngineInv, Procs, Claims
<1>1. t \in TaskIds /\ row[t] \in Rows
  BY <1>0, ClaimedTask
<1>2. Rewrites(t, r) /\ Same(r, row[t], "pending", "none")
  <2>1. Same(r, row[t], "pending", "none")
    BY <1>1, RowForms
  <2>2. r \in Rows
    BY <2>1 DEF Same
  <2>3. SetRow(t, r)
    BY DEF DeferUntil
  <2> HIDE DEF r
  <2> QED
    BY <1>0, <1>1, <2>1, <2>2, <2>3, SetRowRewrites
<1> HIDE DEF r
<1>3. UNCHANGED <<published, inst, context, notified, patched, crashes, overlaps>> /\ Return(w)
  BY DEF DeferUntil
<1>4. Rests(w)
  BY <1>0, <1>3, ReturnSteps DEF Rests
<1> QED
  BY <1>0, <1>2, <1>3, <1>4, LeaseReturned

\* A task is settled and its token passes to the process that settled it; the
\* call that settles it again has none, but nor does its instance stay apart.
LEMMA TokenTaken ==
    ASSUME EngineInv, overlaps' = overlaps, NEW p \in Procs, NEW t \in TaskIds, NEW r,
           Rewrites(t, r), r.status \in {"succeeded", "dead_letter"}, r.inst = row[t].inst,
           Apart(row[t].inst) => Live(t), job[p].inst = row[t].inst,
           NEW label, Steps(p, label, job[p], batch[p]), inst' = inst
    PROVE  OneToken'
<1>1. ~(Live(t)') /\ \A u \in TaskIds : Live(u)' => Live(u) /\ row'[u].inst = row[u].inst
  BY DEF Rewrites, Live, LiveStatuses
<1>2. \A q \in Procs \ {p} : Mid(q)' => Mid(q) /\ job'[q].inst = job[q].inst
  BY StepsIdle
<1>3. job'[p].inst = row[t].inst
  BY DEF Steps
<1> QED
  BY <1>1, <1>2, <1>3, TokenPasses

\* A worker that settles its task moves its instance on, or ends it.
LEMMA WorkerSettles ==
    ASSUME EngineInv, NEW w \in Workers, pc[w] \in Claims,
           NEW s \in {"succeeded", "dead_letter"},
           SetRow(job[w].task, [Released(row[job[w].task]) EXCEPT !.status = s]),
           NEW label \in {"move", "finish", "condemn"}, Goto(w, label),
           label = "condemn" <=> s = "dead_letter",
           label = "move" => job[w].next # Null,
           label = "finish" => pc[w] = "succeed" /\ job[w].next = Null,
           UNCHANGED <<published, inst, context, notified, patched, crashes, overlaps>>
    PROVE  EngineInv'
<1> DEFINE t == job[w].task
           r == [Released(row[t]) EXCEPT !.status = s]
<1>0. EngineTypeOK /\ ProcOK(w) /\ JobOK(w) /\ w \in Procs
  BY DEF EngineInv, Procs, ProcOK
<1>1. /\ t \in TaskIds /\ job[w] \in Jobs /\ row[t] \in Rows /\ Exists(t)
      /\ job[w].inst = row[t].inst /\ Live(t)
      /\ \A c \in batch[w] : c.task \in TaskIds \ {t} /\ Leased(c.task)
  BY ClaimedTask
<1>2. Rewrites(t, r) /\ Same(r, row[t], s, "none")
  <2>1. Same(r, row[t], s, "none")
    BY <1>1, RowForms
  <2>2. r \in Rows
    BY <2>1 DEF Same
  <2> HIDE DEF r
  <2>3. SetRow(t, r)
    BY DEF r
  <2> QED
    BY <1>0, <1>1, <2>1, <2>2, <2>3, SetRowRewrites
<1> HIDE DEF r
<1>3. Steps(w, label, job[w], batch[w]) /\ job' = job /\ batch' = batch
  BY <1>0, GotoSteps DEF Labels
<1>4. /\ pc'[w] = label /\ job'[w] = job[w] /\ batch'[w] = batch[w]
  BY <1>3 DEF Steps
<1>5. /\ row'[t] = r /\ r # Null /\ r.inst = row[t].inst /\ r.status = s
      /\ r.lease = "none" /\ r.node = row[t].node
  BY <1>2 DEF Rewrites, Same
<1>6. JobOK(w)'
  BY <1>0, <1>1, <1>4, <1>5, NullAssumption DEF JobOK, NoJob, Exists
<1>7. WorkerOK(w)'
  <2>1. \A c \in batch[w] : Leased(c.task)'
    BY <1>1, <1>2 DEF Rewrites, Leased, Exists
  <2> QED
    BY <1>0, <1>4, <2>1 DEF ProcOK, WorkerOK, Claims
<1>8. ProcOK(w)'
  BY <1>6, <1>7, Crews DEF ProcOK
<1>9. \A u \in TaskIds : Holds(w, u)' => Holds(w, u)
  BY <1>4, Crews DEF Holds, Claims
<1>10. OneToken'
  BY <1>0, <1>1, <1>2, <1>3, <1>5, TokenTaken
<1> QED
  BY <1>2, <1>3, <1>8, <1>9, <1>10, LeaseGivenUp

LEMMA FailKeepsInv ==
    ASSUME EngineInv, NEW p \in Procs, Fail(p)
    PROVE  EngineInv'
<1> DEFINE t == job[p].task
           r == [Released(row[t]) EXCEPT !.status = "pending", !.later = TRUE]
<1>0. EngineTypeOK /\ ProcOK(p) /\ p \in Workers /\ pc[p] \in Claims /\ pc[p] = "fail"
  BY DEF Fail, EngineInv, Procs, Claims, ProcOK, CallerOK, ListenerOK
<1>1. UNCHANGED <<published, inst, context, notified, patched, crashes, overlaps>>
  BY DEF Fail
<1>2. CASE /\ SetRow(t, [Released(row[t]) EXCEPT !.status = "dead_letter"])
           /\ Goto(p, "condemn")
  BY <1>0, <1>1, <1>2, WorkerSettles
<1>3. CASE SetRow(t, r) /\ Return(p)
  <2>1. t \in TaskIds /\ row[t] \in Rows
    BY <1>0, ClaimedTask
  <2>2. Same(r, row[t], "pending", "none")
    BY <2>1, RowForms
  <2>3. r \in Rows
    BY <2>2 DEF Same
  <2> HIDE DEF r
  <2>4. Rewrites(t, r)
    BY <1>0, <1>3, <2>1, <2>3, SetRowRewrites
  <2>5. Rests(p)
    BY <1>0, <1>3, ReturnSteps DEF Rests
  <2> QED
    BY <1>0, <1>1, <2>2, <2>4, <2>5, LeaseReturned
<1> QED
  BY <1>2, <1>3 DEF Fail

\* The task a caller or a listener is about to settle: still live, unless a call
\* that overlapped this one has settled it.
LEMMA OutsideTask ==
    ASSUME EngineInv, NEW p \in Callers \union Listeners, pc[p] = "succeed"
    PROVE  LET t == job[p].task
           IN  /\ t \in TaskIds /\ job[p] \in Jobs /\ row[t] \in Rows
               /\ Exists(t) /\ Parked(t) /\ ~Leased(t) /\ job[p].inst = row[t].inst
               /\ Apart(row[t].inst) => Live(t)
               /\ \A q \in Procs \ {p} : Holds(q, t) /\ Apart(row[t].inst) =>
                    /\ q \in Callers => ~Waiting(t)
                    /\ q \in Listeners => ~Resumed(t)
<1> DEFINE t == job[p].task
<1>1. EngineTypeOK /\ ProcOK(p) /\ JobOK(p) /\ OneHolder /\ p \in Procs
  BY DEF EngineInv, Procs, ProcOK
<1>2. t \in TaskIds /\ job[p] \in Jobs /\ row[t] \in Rows /\ Exists(t)
      /\ job[p].inst = row[t].inst
  BY <1>1 DEF JobOK, NoJob, EngineTypeOK, Exists
<1>3. /\ Parked(t)
      /\ p \in Callers /\ Apart(row[t].inst) => Waiting(t)
      /\ p \in Listeners /\ Apart(row[t].inst) => Resumed(t)
  BY <1>1, <1>2 DEF ProcOK, CallerOK, ListenerOK
<1>4. ~Leased(t) /\ (Apart(row[t].inst) => Live(t))
  BY <1>2, <1>3 DEF Live, LiveStatuses, Parked, Leased, Waiting, Resumed, Exists
<1>5. Holds(p, t)
  BY <1>2 DEF Holds
<1>6. ASSUME NEW q \in Procs \ {p}, Holds(q, t), Apart(row[t].inst)
      PROVE  /\ q \in Callers => ~Waiting(t)
             /\ q \in Listeners => ~Resumed(t)
  <2>1. ~SameCrew(p, q)
    BY <1>1, <1>2, <1>5, <1>6 DEF OneHolder
  <2> QED
    BY <1>3, <1>6, <2>1 DEF SameCrew, Waiting, Resumed
<1> QED
  BY <1>2, <1>3, <1>4, <1>6

LEMMA OutsideSettles ==
    ASSUME EngineInv, NEW p \in Callers \union Listeners, Succeed(p)
    PROVE  EngineInv'
<1> DEFINE t == job[p].task
           r == [Released(row[t]) EXCEPT !.status = "succeeded"]
           label == IF job[p].next = Null THEN "finish" ELSE "move"
<1>0. EngineTypeOK /\ ProcOK(p) /\ JobOK(p) /\ p \in Procs /\ pc[p] = "succeed"
      /\ p \notin Workers /\ OverlapsStay
  BY Crews, SameOverlaps DEF EngineInv, Procs, ProcOK, Succeed
<1>1. /\ t \in TaskIds /\ job[p] \in Jobs /\ row[t] \in Rows
      /\ Exists(t) /\ Parked(t) /\ ~Leased(t) /\ job[p].inst = row[t].inst
      /\ Apart(row[t].inst) => Live(t)
      /\ \A q \in Procs \ {p} : Holds(q, t) /\ Apart(row[t].inst) =>
           /\ q \in Callers => ~Waiting(t)
           /\ q \in Listeners => ~Resumed(t)
  BY <1>0, OutsideTask
<1>2. Rewrites(t, r) /\ Same(r, row[t], "succeeded", "none")
  <2>1. Same(r, row[t], "succeeded", "none")
    BY <1>1, RowForms
  <2>2. r \in Rows
    BY <2>1 DEF Same
  <2>3. SetRow(t, r)
    BY DEF Succeed
  <2> HIDE DEF r
  <2> QED
    BY <1>0, <1>1, <2>1, <2>2, <2>3, SetRowRewrites
<1> HIDE DEF r
<1>3. UNCHANGED <<published, inst, context, notified, patched, crashes, overlaps>>
  BY DEF Succeed
<1>4. Steps(p, label, job[p], batch[p])
  <2>1. label \in Labels /\ Goto(p, label)
    BY DEF Succeed, Labels
  <2> HIDE DEF label
  <2> QED
    BY <1>0, <2>1, GotoSteps
<1>5. /\ pc'[p] = label /\ job'[p] = job[p]
  BY <1>4 DEF Steps
<1>6. /\ row'[t] = r /\ r # Null /\ r.inst = row[t].inst /\ r.status = "succeeded"
      /\ r.lease = "none" /\ r.node = row[t].node
  BY <1>2 DEF Rewrites, Same
<1>7. ProcOK(p)'
  <2>1. JobOK(p)'
    BY <1>0, <1>1, <1>5, <1>6, NullAssumption DEF JobOK, NoJob, Exists
  <2> QED
    BY <1>0, <1>5, <2>1 DEF ProcOK, CallerOK, ListenerOK
<1>8. \A u \in TaskIds : Holds(p, u)' => Holds(p, u)
  BY <1>0, <1>5 DEF Holds
<1>9. OneToken'
  <2> HIDE DEF label
  <2> QED
    BY <1>0, <1>1, <1>2, <1>3, <1>4, <1>6, TokenTaken DEF Same
<1>10. RowsRemain /\ \A u \in TaskIds : TaskOK(u)'
  <2>1. PICK u \in TaskIds : u = t
    BY <1>1
  <2>2. /\ Parked(u)' /\ Exists(u)
        /\ row[u].status \in {"succeeded", "dead_letter"} => r.status = row[u].status
    BY <1>1, <1>6, <2>1 DEF Parked, Exists
  <2>3. /\ Rewrites(u, r) /\ r.inst = row[u].inst /\ r.node = row[u].node
        /\ r.lease = "none"
    BY <1>2, <1>6, <2>1
  <2> HIDE DEF t
  <2> QED
    BY <1>0, <1>3, <2>2, <2>3, TasksStay
<1>11. \A q \in Procs \ {p} : Undisturbed(q)
  <2> HIDE DEF label
  <2>1. \A q \in Procs \ {p} : Idles(q)
    BY <1>0, <1>4, StepsIdle
  <2> QED
    BY <1>0, <1>1, <1>2, <1>3, <2>1, OthersUndisturbed DEF Apart
<1>12. EngineTypeOK'
  <2> HIDE DEF label
  <2> QED
    BY <1>0, <1>2, <1>3, <1>4, TypesStay DEF Rewrites
<1> QED
  BY <1>0, <1>7, <1>8, <1>9, <1>10, <1>11, <1>12, StepKeepsInv

LEMMA SucceedKeepsInv ==
    ASSUME EngineInv, NEW p \in Procs, Succeed(p)
    PROVE  EngineInv'
<1>1. CASE p \in Workers
  <2>1. pc[p] \in Claims /\ pc[p] = "succeed"
        /\ UNCHANGED <<published, inst, context, notified, patched, crashes, overlaps>>
        /\ SetRow(job[p].task, [Released(row[job[p].task]) EXCEPT !.status = "succeeded"])
    BY DEF Succeed, Claims
  <2>2. CASE job[p].next = Null
    <3>1. Goto(p, "finish")
      BY <2>2 DEF Succeed
    <3> QED
      BY <1>1, <2>1, <2>2, <3>1, WorkerSettles
  <2>3. CASE job[p].next # Null
    <3>1. Goto(p, "move")
      BY <2>3 DEF Succeed
    <3> QED
      BY <1>1, <2>1, <2>3, <3>1, WorkerSettles
  <2> QED
    BY <2>2, <2>3
<1>2. CASE p \notin Workers
  BY <1>2, Crews, OutsideSettles
<1> QED
  BY <1>1, <1>2

-----------------------------------------------------------------------------
(***************************************************************************)
(* The steps that move an instance on, or end it.                          *)
(***************************************************************************)
LEMMA StillRows ==
    ASSUME EngineInv, OverlapsStay, NEW p \in Procs,
           UNCHANGED <<row, context, notified, patched>>,
           NEW label, NEW j, NEW B, Steps(p, label, j, B)
    PROVE  /\ RowsRemain /\ \A u \in TaskIds : TaskOK(u)'
           /\ \A q \in Procs \ {p} : Undisturbed(q)
           /\ \A u \in TaskIds : /\ Live(u)' => Live(u) /\ row'[u].inst = row[u].inst
                                 /\ Leased(u) => Leased(u)'
           /\ \A q \in Procs \ {p} : Mid(q)' => Mid(q) /\ job'[q].inst = job[q].inst
<1>1. RowsRemain
  BY DEF RowsRemain, Parked, Exists
<1>2. ASSUME NEW u \in TaskIds PROVE TaskOK(u)'
  <2>1. TaskOK(u) /\ (Exists(u) => row[u].inst \in Instances)
    BY DEF EngineInv, EngineTypeOK, Exists, Rows
  <2> QED
    BY <2>1 DEF TaskOK, Parked, Exists, OverlapsStay, Apart
<1>3. \A q \in Procs \ {p} : Undisturbed(q)
  BY StepsIdle DEF Undisturbed, Leased, Waiting, Resumed, Exists
<1>4. \A u \in TaskIds : /\ Live(u)' => Live(u) /\ row'[u].inst = row[u].inst
                         /\ Leased(u) => Leased(u)'
  BY DEF Live, Leased, Exists
<1> QED
  BY <1>1, <1>2, <1>3, <1>4, StepsIdle

LEMMA RestingBatch ==
    ASSUME EngineInv, NEW p \in Procs, \A u \in TaskIds : Leased(u) => Leased(u)'
    PROVE  p \in Workers => \A c \in batch[p] : Leased(c.task)'
<1>1. p \in Workers => \A c \in batch[p] : c.task \in TaskIds /\ Leased(c.task)
  BY BatchTasks DEF EngineInv, ProcOK, WorkerOK
<1> QED
  BY <1>1

\* Its instance, if a process is moving one on.
LEMMA MidInstance ==
    ASSUME EngineInv, NEW p \in Procs, Mid(p)
    PROVE  /\ job[p] \in Jobs /\ job[p].inst \in Instances /\ job[p].next \in Nodes \union {Null}
           /\ Apart(job[p].inst) => inst[job[p].inst].status = "running"
           /\ pc[p] # "enqueue" => job[p].task \in TaskIds /\ row[job[p].task] \in Rows
<1>1. EngineTypeOK /\ JobOK(p) /\ OneToken
  BY DEF EngineInv, ProcOK
<1>2. job[p] \in Jobs
  BY <1>1 DEF EngineTypeOK, JobOK, Mid, NoJob
<1>3. job[p].inst \in Instances /\ job[p].next \in Nodes \union {Null}
  BY <1>2 DEF Jobs
<1>4. pc[p] # "enqueue" => job[p].task \in TaskIds /\ row[job[p].task] \in Rows
  BY <1>1 DEF JobOK, Mid, NoJob, Exists, EngineTypeOK
<1> QED
  BY <1>1, <1>2, <1>3, <1>4 DEF OneToken

LEMMA MoveKeepsInv ==
    ASSUME EngineInv, NEW p \in Procs, MoveInstance(p)
    PROVE  EngineInv'
<1>0. EngineTypeOK /\ ProcOK(p) /\ JobOK(p) /\ pc[p] = "move" /\ Mid(p) /\ OneToken
      /\ OverlapsStay
  BY SameOverlaps DEF EngineInv, ProcOK, MoveInstance, Mid
<1>1. job[p] \in Jobs /\ job[p].inst \in Instances /\ job[p].next \in Nodes
  BY <1>0, MidInstance DEF JobOK
<1>2. Steps(p, "enqueue", job[p], batch[p]) /\ job' = job /\ batch' = batch
  BY <1>0, GotoSteps DEF MoveInstance, Labels
<1>3. UNCHANGED <<published, context, row, notified, patched, crashes, overlaps>>
  BY DEF MoveInstance
<1>4. /\ RowsRemain /\ \A u \in TaskIds : TaskOK(u)'
      /\ \A q \in Procs \ {p} : Undisturbed(q)
      /\ \A u \in TaskIds : /\ Live(u)' => Live(u) /\ row'[u].inst = row[u].inst
                            /\ Leased(u) => Leased(u)'
      /\ \A q \in Procs \ {p} : Mid(q)' => Mid(q) /\ job'[q].inst = job[q].inst
  BY <1>0, <1>2, <1>3, StillRows
<1>5. pc'[p] = "enqueue" /\ job'[p] = job[p] /\ (p \in Workers => batch'[p] = batch[p])
  BY <1>2 DEF Steps
<1>6. /\ inst' = [inst EXCEPT ![job[p].inst] = [status |-> "running", node |-> job[p].next]]
      /\ inst' \in [Instances -> [status : Final \union {"none", "running"},
                                  node : Nodes \union {Null}]]
      /\ \A i \in Instances : inst[i].status = "running" => inst'[i].status = "running"
  BY <1>0, <1>1 DEF MoveInstance, EngineTypeOK
<1>7. EngineTypeOK'
  BY <1>0, <1>2, <1>3, <1>6 DEF EngineTypeOK, Steps
<1>8. ProcOK(p)'
  <2>1. JobOK(p)'
    BY <1>0, <1>1, <1>5, NullAssumption DEF JobOK, NoJob
  <2>2. p \in Workers => WorkerOK(p)'
    <3>1. p \in Workers => \A c \in batch[p] : Leased(c.task)'
      BY <1>4, RestingBatch
    <3> QED
      BY <1>0, <1>5, <3>1 DEF ProcOK, WorkerOK, Claims
  <2> QED
    BY <1>5, <2>1, <2>2 DEF ProcOK, CallerOK, ListenerOK
<1>9. \A u \in TaskIds : Holds(p, u)' => Holds(p, u)
  BY <1>5 DEF Holds, Claims
<1>10. OneToken'
  <2>1. \A u \in TaskIds : Live(u) => row[u].inst \in Instances
    BY <1>0 DEF EngineTypeOK, Live, Rows
  <2>2. \A q \in Procs : Mid(q) => job[q].inst \in Instances
    BY MidInstance
  <2>3. \A q \in Procs : Mid(q)' => Mid(q) /\ job'[q].inst = job[q].inst
    BY <1>0, <1>4, <1>5
  <2> QED
    BY <1>0, <1>4, <1>6, <2>1, <2>2, <2>3, TokensStay
<1> QED
  BY <1>0, <1>4, <1>7, <1>8, <1>9, <1>10, StepKeepsInv

\* The instance a process was moving on has ended, and with it the token.
LEMMA TokenEnds ==
    ASSUME EngineInv, overlaps' = overlaps, NEW p \in Procs, Mid(p), ~(Mid(p)'),
           \A u \in TaskIds : Live(u)' => Live(u) /\ row'[u].inst = row[u].inst,
           \A q \in Procs \ {p} : Mid(q)' => Mid(q) /\ job'[q].inst = job[q].inst,
           \A i \in Instances \ {job[p].inst} : inst'[i] = inst[i]
    PROVE  OneToken'
<1>0. OneToken /\ EngineTypeOK
  BY DEF EngineInv
<1>1. \A u \in TaskIds : Live(u) => row[u].inst \in Instances
  BY <1>0 DEF EngineTypeOK, Live, Rows
<1>2. \A q \in Procs : Mid(q) => job[q].inst \in Instances
  BY MidInstance
<1>3. \A a, u \in TaskIds : Live(a)' /\ Live(u)' /\ row'[a].inst = row'[u].inst
                              /\ Apart(row'[a].inst) => a = u
  BY <1>0 DEF OneToken
<1>4. \A q \in Procs : \A u \in TaskIds :
         Mid(q)' /\ Live(u)' /\ Apart(row'[u].inst) => row'[u].inst # job'[q].inst
  BY <1>0 DEF OneToken
<1>5. \A a, b \in Procs : Mid(a)' /\ Mid(b)' /\ job'[a].inst = job'[b].inst
                            /\ Apart(job'[a].inst) => a = b
  BY <1>0 DEF OneToken
<1>6. \A u \in TaskIds : Live(u)' /\ Apart(row'[u].inst) =>
         inst'[row'[u].inst].status = "running"
  BY <1>0, <1>1 DEF OneToken
<1>7. \A q \in Procs : Mid(q)' /\ Apart(job'[q].inst) => inst'[job'[q].inst].status = "running"
  BY <1>0, <1>2 DEF OneToken
<1> QED
  BY <1>3, <1>4, <1>5, <1>6, <1>7 DEF OneToken, Apart

LEMMA EndKeepsInv ==
    ASSUME EngineInv, NEW p \in Procs, FinishInstance(p) \/ FailInstance(p)
    PROVE  EngineInv'
<1>0. EngineTypeOK /\ ProcOK(p) /\ JobOK(p) /\ pc[p] \in {"finish", "condemn"} /\ Mid(p)
      /\ OverlapsStay
  BY SameOverlaps DEF EngineInv, ProcOK, FinishInstance, FailInstance, Mid
<1>1. /\ job[p] \in Jobs /\ job[p].inst \in Instances
      /\ job[p].task \in TaskIds /\ row[job[p].task] \in Rows
  BY <1>0, MidInstance
<1>2. UNCHANGED <<published, context, row, notified, patched, crashes, overlaps>> /\ Return(p)
  BY DEF FinishInstance, FailInstance
<1>3. Rests(p)
  BY <1>0, <1>2, ReturnSteps DEF Rests
<1>4. PICK label : Steps(p, label, Null, batch[p])
  BY <1>3 DEF Rests
<1>5. /\ RowsRemain /\ \A u \in TaskIds : TaskOK(u)'
      /\ \A q \in Procs \ {p} : Undisturbed(q)
      /\ \A u \in TaskIds : /\ Live(u)' => Live(u) /\ row'[u].inst = row[u].inst
                            /\ Leased(u) => Leased(u)'
      /\ \A q \in Procs \ {p} : Mid(q)' => Mid(q) /\ job'[q].inst = job[q].inst
  BY <1>0, <1>2, <1>4, StillRows
<1>6. ProcOK(p)' /\ ~(Mid(p)') /\ \A u \in TaskIds : Holds(p, u)' => Holds(p, u)
  BY <1>3, <1>5, RestingBatch, RestingProcess
<1>7. /\ inst' \in [Instances -> [status : Final \union {"none", "running"},
                                  node : Nodes \union {Null}]]
      /\ \A i \in Instances \ {job[p].inst} : inst'[i] = inst[i]
  <2>1. CASE FinishInstance(p)
    <3> DEFINE n == row[job[p].task].node
    <3>1. n \in Nodes /\ Node(job[p].def, n).kind \in Final
      BY <1>0, <1>1, <2>1 DEF Rows, JobOK, FinishInstance, Final
    <3>2. inst' = [inst EXCEPT ![job[p].inst] = [status |-> Node(job[p].def, n).kind, node |-> n]]
      BY <2>1 DEF FinishInstance
    <3> HIDE DEF n
    <3> QED
      BY <1>0, <1>1, <3>1, <3>2 DEF EngineTypeOK
  <2>2. CASE FailInstance(p)
    <3> DEFINE i == job[p].inst
    <3>1. i \in Instances /\ inst' = [inst EXCEPT ![i].status = "failed"]
      BY <1>0, <1>1, <2>2 DEF FailInstance
    <3> HIDE DEF i
    <3>2. inst' \in [Instances -> [status : Final \union {"none", "running"},
                                  node : Nodes \union {Null}]]
      <4>1. "failed" \in Final
        BY DEF Final
      <4>2. inst \in [Instances -> [status : Final \union {"none", "running"},
                                   node : Nodes \union {Null}]]
        BY DEF EngineInv, EngineTypeOK
      <4>3. ASSUME NEW was \in [status : Final \union {"none", "running"},
                               node : Nodes \union {Null}]
            PROVE  [was EXCEPT !.status = "failed"]
                      \in [status : Final \union {"none", "running"}, node : Nodes \union {Null}]
        BY <4>1
      <4> QED
        BY <3>1, <4>2, <4>3
    <3>3. \A j \in Instances \ {i} : inst'[j] = inst[j]
      BY <3>1 DEF EngineTypeOK
    <3> QED
      BY <3>2, <3>3 DEF i
  <2> QED
    BY <2>1, <2>2
<1>8. EngineTypeOK'
  BY <1>0, <1>2, <1>4, <1>7 DEF EngineTypeOK, Steps
<1>9. OneToken'
  BY <1>0, <1>2, <1>5, <1>6, <1>7, TokenEnds
<1> QED
  BY <1>0, <1>5, <1>6, <1>8, <1>9, StepKeepsInv

\* The token passes from p to the task it enqueued.
LEMMA TokenEnqueued ==
    ASSUME OneToken, overlaps' = overlaps, NEW p \in Procs, Mid(p), ~(Mid(p)'), NEW t \in TaskIds, ~Live(t),
           row'[t].inst = job[p].inst,
           \A u \in TaskIds \ {t} : Live(u)' => Live(u) /\ row'[u].inst = row[u].inst,
           \A q \in Procs \ {p} : Mid(q)' => Mid(q) /\ job'[q].inst = job[q].inst,
           inst' = inst
    PROVE  OneToken'
<1>1. \A a, u \in TaskIds : Live(a)' /\ Live(u)' /\ row'[a].inst = row'[u].inst
                              /\ Apart(row'[a].inst) => a = u
  BY DEF OneToken
<1>2. \A q \in Procs : \A u \in TaskIds :
         Mid(q)' /\ Live(u)' /\ Apart(row'[u].inst) => row'[u].inst # job'[q].inst
  BY DEF OneToken
<1>3. \A a, b \in Procs : Mid(a)' /\ Mid(b)' /\ job'[a].inst = job'[b].inst
                            /\ Apart(job'[a].inst) => a = b
  BY DEF OneToken
<1>4. \A u \in TaskIds : Live(u)' /\ Apart(row'[u].inst) =>
         inst'[row'[u].inst].status = "running"
  BY DEF OneToken
<1>5. \A q \in Procs : Mid(q)' /\ Apart(job'[q].inst) => inst'[job'[q].inst].status = "running"
  BY DEF OneToken
<1> QED
  BY <1>1, <1>2, <1>3, <1>4, <1>5 DEF OneToken, Apart

LEMMA EnqueueKeepsInv ==
    ASSUME EngineInv, NEW p \in Procs, EnqueueNode(p)
    PROVE  EngineInv'
<1>0. EngineTypeOK /\ ProcOK(p) /\ JobOK(p) /\ pc[p] = "enqueue" /\ Mid(p) /\ OneToken
      /\ OverlapsStay
  BY SameOverlaps DEF EngineInv, ProcOK, EnqueueNode, Mid
<1>1. job[p] \in Jobs /\ job[p].inst \in Instances /\ job[p].next \in Nodes
  BY <1>0, MidInstance DEF JobOK
<1>2. PICK t \in TaskIds :
         /\ row[t] = Null
         /\ SetRow(t, NewRow(job[p].inst, job[p].next,
                             Node(job[p].def, job[p].next).kind = "wait_duration"))
  BY DEF EnqueueNode
<1> DEFINE later == Node(job[p].def, job[p].next).kind = "wait_duration"
           r == NewRow(job[p].inst, job[p].next, later)
<1>3. r \in Rows /\ r.inst = job[p].inst /\ r.lease = "none" /\ r.status = "pending"
  <2>1. later \in BOOLEAN
    OBVIOUS
  <2> HIDE DEF later
  <2> QED
    BY <1>1, <2>1 DEF NewRow, Rows, LiveStatuses
<1>4. Rewrites(t, r)
  <2>1. SetRow(t, r)
    BY <1>2
  <2> HIDE DEF r
  <2> QED
    BY <1>0, <1>3, <2>1, SetRowRewrites
<1> HIDE DEF r
<1>5. UNCHANGED <<published, inst, context, notified, patched, crashes, overlaps>> /\ Return(p)
  BY DEF EnqueueNode
<1>6. Rests(p)
  BY <1>0, <1>5, ReturnSteps DEF Rests
<1>7. PICK label : Steps(p, label, Null, batch[p])
  BY <1>6 DEF Rests
<1>8. ~Exists(t) /\ ~Leased(t) /\ ~Waiting(t) /\ ~Resumed(t) /\ ~Live(t) /\ ~Parked(t)
  BY <1>2 DEF Exists, Leased, Waiting, Resumed, Live, Parked
<1>9. RowsRemain
  BY <1>4, <1>8 DEF RowsRemain, Rewrites, Parked, Exists
<1>10. ASSUME NEW u \in TaskIds PROVE TaskOK(u)'
  <2>1. TaskOK(u)
    BY DEF EngineInv
  <2>2. CASE u = t
    BY <1>3, <1>4, <1>5, <1>8, <2>1, <2>2 DEF TaskOK, Rewrites, Exists
  <2>3. CASE u # t
    BY <1>4, <1>5, <2>1, <2>3 DEF TaskOK, Rewrites, Parked, Exists, Apart
  <2> QED
    BY <2>2, <2>3
<1>11. \A q \in Procs \ {p} : Undisturbed(q)
  BY <1>4, <1>5, <1>7, <1>8, StepsIdle, OthersUndisturbed
<1>12. \A u \in TaskIds : Leased(u) => Leased(u)'
  BY <1>4, <1>8 DEF Rewrites, Leased, Exists
<1>13. ProcOK(p)' /\ ~(Mid(p)') /\ \A u \in TaskIds : Holds(p, u)' => Holds(p, u)
  BY <1>6, <1>12, RestingBatch, RestingProcess
<1>14. EngineTypeOK'
  BY <1>0, <1>4, <1>5, <1>7, TypesStay DEF Rewrites
<1>15. OneToken'
  <2>1. \A u \in TaskIds \ {t} : Live(u)' => Live(u) /\ row'[u].inst = row[u].inst
    BY <1>4 DEF Rewrites, Live
  <2>2. \A q \in Procs \ {p} : Mid(q)' => Mid(q) /\ job'[q].inst = job[q].inst
    BY <1>7, StepsIdle
  <2>3. row'[t].inst = job[p].inst
    BY <1>3, <1>4 DEF Rewrites
  <2> QED
    BY <1>0, <1>5, <1>8, <1>13, <2>1, <2>2, <2>3, TokenEnqueued
<1> QED
  BY <1>0, <1>9, <1>10, <1>11, <1>13, <1>14, <1>15, StepKeepsInv

-----------------------------------------------------------------------------
(***************************************************************************)
(* What a worker does for a task it has parked.                            *)
(***************************************************************************)
LEMMA AssignmentKeepsInv ==
    ASSUME EngineInv, NEW w \in Workers, RaiseAssignment(w)
    PROVE  EngineInv'
<1> DEFINE t == job[w].task
<1>0. /\ EngineTypeOK /\ ProcOK(w) /\ JobOK(w) /\ WorkerOK(w) /\ w \in Procs
      /\ pc[w] = "notify" /\ OneToken /\ OneHolder /\ OverlapsStay
  BY SameOverlaps DEF EngineInv, ProcOK, Procs, RaiseAssignment
<1>1. t \in TaskIds /\ Parked(t) /\ notified[t] = 0 /\ Holds(w, t)
  BY <1>0 DEF JobOK, NoJob, WorkerOK, Holds
<1>2. /\ UNCHANGED <<published, inst, context, row, patched, crashes, overlaps>> /\ Return(w)
      /\ notified' = [notified EXCEPT ![t] = 1]
  BY <1>1 DEF RaiseAssignment
<1>3. Rests(w)
  BY <1>0, <1>2, ReturnSteps DEF Rests
<1>4. PICK label : Steps(w, label, Null, batch[w])
  BY <1>3 DEF Rests
<1>5. /\ notified' \in [TaskIds -> Nat] /\ notified'[t] = 1
      /\ \A u \in TaskIds \ {t} : notified'[u] = notified[u]
  BY <1>0, <1>1, <1>2 DEF EngineTypeOK
<1>6. RowsRemain /\ \A u \in TaskIds : Leased(u) => Leased(u)'
  BY <1>2 DEF RowsRemain, Parked, Exists, Leased
<1>7. ASSUME NEW u \in TaskIds PROVE TaskOK(u)'
  <2>1. TaskOK(u) /\ (Parked(u)' <=> Parked(u))
    BY <1>2 DEF EngineInv, Parked, Exists
  <2>2. CASE u = t
    BY <1>1, <1>2, <1>5, <2>1, <2>2 DEF TaskOK, Exists, Apart
  <2>3. CASE u # t
    BY <1>2, <1>5, <2>1, <2>3 DEF TaskOK, Exists, Apart
  <2> QED
    BY <2>2, <2>3
<1>8. ASSUME NEW q \in Procs \ {w} PROVE Undisturbed(q)
  <2>1. Idles(q)
    BY <1>0, <1>4, StepsIdle
  <2>2. q \in Workers => ~Holds(q, t)
    BY <1>0, <1>1 DEF OneHolder, SameCrew
  <2> QED
    BY <1>2, <1>5, <2>1, <2>2 DEF Undisturbed, Leased, Waiting, Resumed, Exists
<1>9. ProcOK(w)' /\ ~(Mid(w)') /\ \A u \in TaskIds : Holds(w, u)' => Holds(w, u)
  BY <1>0, <1>3, <1>6, RestingBatch, RestingProcess
<1>10. EngineTypeOK'
  BY <1>0, <1>2, <1>4, <1>5 DEF EngineTypeOK, Steps
<1>11. OneToken'
  <2>1. \A u \in TaskIds : Live(u)' => Live(u) /\ row'[u].inst = row[u].inst
    BY <1>2 DEF Live
  <2>2. \A q \in Procs : Mid(q)' => Mid(q) /\ job'[q].inst = job[q].inst
    BY <1>0, <1>4, <1>9, StepsIdle
  <2> QED
    BY <1>0, <1>2, <2>1, <2>2, TokensStay
<1> QED
  BY <1>0, <1>6, <1>7, <1>8, <1>9, <1>10, <1>11, StepKeepsInv

\* A row's step that changes neither its status nor its lease, by p or by none.
LEMMA RowTouched ==
    ASSUME EngineInv, NEW p, NEW t \in TaskIds, NEW r, Rewrites(t, r),
           Exists(t), Same(r, row[t], row[t].status, row[t].lease),
           OverlapsStay, UNCHANGED <<context, notified, patched>>,
           \A q \in Procs \ {p} : Idles(q)
    PROVE  /\ RowsRemain /\ \A u \in TaskIds : TaskOK(u)'
           /\ \A q \in Procs \ {p} : Undisturbed(q)
           /\ \A u \in TaskIds : /\ Live(u)' => Live(u) /\ row'[u].inst = row[u].inst
                                 /\ Leased(u) => Leased(u)'
<1>0. row'[t] = r /\ r # Null
  BY DEF Rewrites
<1>1. RowsRemain /\ \A u \in TaskIds : TaskOK(u)'
  <2>1. TaskOK(t) /\ (Parked(t) => Parked(t)')
    BY <1>0 DEF EngineInv, Parked, Exists, Same
  <2>2. r.status # "running" => r.lease = "none"
    BY <2>1 DEF Same, TaskOK
  <2> QED
    BY <2>1, <2>2, TasksStay DEF Same
<1>2. /\ Leased(t) => Leased(t)'
      /\ Waiting(t) => Waiting(t)'
      /\ Resumed(t) => Resumed(t)'
  BY <1>0 DEF Leased, Waiting, Resumed, Exists, Same
<1>3. \A q \in Procs \ {p} : Undisturbed(q)
  BY <1>2, OthersUndisturbed
<1>4. \A u \in TaskIds : /\ Live(u)' => Live(u) /\ row'[u].inst = row[u].inst
                         /\ Leased(u) => Leased(u)'
  BY <1>0, <1>2 DEF Rewrites, Live, Same, Leased, Exists
<1> QED
  BY <1>1, <1>3, <1>4

LEMMA ReminderKeepsInv ==
    ASSUME EngineInv, NEW w \in Workers, ScheduleReminder(w)
    PROVE  EngineInv'
<1> DEFINE r == [row[job[w].task] EXCEPT !.chase = TRUE]
<1>0. /\ EngineTypeOK /\ JobOK(w) /\ w \in Procs /\ pc[w] = "remind" /\ OneToken
      /\ OverlapsStay
  BY SameOverlaps DEF EngineInv, ProcOK, Procs, ScheduleReminder
<1>1. job[w].task \in TaskIds /\ Exists(job[w].task) /\ row[job[w].task] \in Rows
  BY <1>0 DEF JobOK, NoJob, EngineTypeOK, Exists
<1>2. PICK t \in TaskIds : t = job[w].task
  BY <1>1
<1>3. Exists(t) /\ row[t] \in Rows
  BY <1>1, <1>2 DEF Exists
<1>4. Rewrites(t, r) /\ Same(r, row[t], row[t].status, row[t].lease)
  <2>1. Same(r, row[t], row[t].status, row[t].lease)
    BY <1>2, <1>3, RowForms
  <2>2. r \in Rows
    BY <2>1 DEF Same
  <2>3. SetRow(t, r)
    BY <1>2 DEF ScheduleReminder
  <2> HIDE DEF r
  <2> QED
    BY <1>0, <2>1, <2>2, <2>3, SetRowRewrites
<1> HIDE DEF r
<1>5. UNCHANGED <<published, inst, context, notified, patched, crashes, overlaps>> /\ Return(w)
  BY DEF ScheduleReminder
<1>6. Rests(w)
  BY <1>0, <1>5, ReturnSteps DEF Rests
<1>7. PICK label : Steps(w, label, Null, batch[w])
  BY <1>6 DEF Rests
<1>8. /\ RowsRemain /\ \A u \in TaskIds : TaskOK(u)'
      /\ \A q \in Procs \ {w} : Undisturbed(q)
      /\ \A u \in TaskIds : /\ Live(u)' => Live(u) /\ row'[u].inst = row[u].inst
                            /\ Leased(u) => Leased(u)'
  BY <1>0, <1>3, <1>4, <1>5, <1>7, StepsIdle, RowTouched
<1>9. ProcOK(w)' /\ ~(Mid(w)') /\ \A u \in TaskIds : Holds(w, u)' => Holds(w, u)
  BY <1>0, <1>6, <1>8, RestingBatch, RestingProcess
<1>10. EngineTypeOK'
  BY <1>0, <1>4, <1>5, <1>7, TypesStay DEF Rewrites
<1>11. OneToken'
  <2>1. \A q \in Procs : Mid(q)' => Mid(q) /\ job'[q].inst = job[q].inst
    BY <1>0, <1>7, <1>9, StepsIdle
  <2> QED
    BY <1>0, <1>5, <1>8, <2>1, TokensStay
<1> QED
  BY <1>0, <1>8, <1>9, <1>10, <1>11, StepKeepsInv

-----------------------------------------------------------------------------
(***************************************************************************)
(* Callers and listeners.                                                  *)
(***************************************************************************)
LEMMA JobTyped ==
    ASSUME EngineTypeOK, NEW t \in TaskIds, Exists(t), NEW next \in Nodes \union {Null}
    PROVE  /\ row[t] \in Rows /\ Job(t, row[t].attempts, next) \in Jobs
           /\ Job(t, row[t].attempts, next) # Null
           /\ Job(t, row[t].attempts, next).task = t
           /\ Job(t, row[t].attempts, next).inst = row[t].inst
           /\ Job(t, row[t].attempts, next).next = next
           /\ Job(t, row[t].attempts, next).def = published
<1>1. row[t] \in Rows /\ published \in 1..Len(Definitions)
  BY DEF EngineTypeOK, Exists
<1>2. row[t].attempts \in Nat /\ row[t].inst \in Instances
  BY <1>1 DEF Rows
<1>3. Job(t, row[t].attempts, next) \in Jobs
  BY <1>1, <1>2 DEF Job, Jobs
<1> QED
  BY <1>1, <1>3, NullAssumption DEF Job

LEMMA StartKeepsInv ==
    ASSUME EngineInv, NEW p \in Callers, NEW i \in Instances, Start(p, i)
    PROVE  EngineInv'
<1> DEFINE j == [task |-> Null, attempts |-> 0, inst |-> i, def |-> published,
                 next |-> StartNode, ctx |-> {}]
<1>0. EngineTypeOK /\ p \in Procs /\ p \notin Workers /\ p \notin Listeners /\ pc[p] = "idle"
      /\ OneToken /\ ~Mid(p) /\ OverlapsStay
  BY Crews, SameOverlaps DEF EngineInv, Procs, Start, Mid
<1>1. j \in Jobs /\ j # Null /\ j.inst = i /\ j.next = StartNode /\ StartNode \in Nodes
  BY <1>0, EngineAssumption, NullAssumption DEF Jobs, EngineTypeOK
<1>2. Steps(p, "enqueue", j, batch[p])
  <2>1. job' = [job EXCEPT ![p] = j] /\ pc' = [pc EXCEPT ![p] = "enqueue"] /\ batch' = batch
    BY DEF Start
  <2> HIDE DEF j
  <2> QED
    BY <1>0, <1>1, <2>1, ProcessSteps DEF Labels
<1> HIDE DEF j
<1>3. /\ UNCHANGED <<published, context, row, notified, patched, crashes, overlaps>>
      /\ inst[i].status = "none"
      /\ inst' = [inst EXCEPT ![i] = [status |-> "running", node |-> StartNode]]
  BY DEF Start
<1>4. /\ RowsRemain /\ \A u \in TaskIds : TaskOK(u)'
      /\ \A q \in Procs \ {p} : Undisturbed(q)
      /\ \A u \in TaskIds : Live(u)' => Live(u) /\ row'[u].inst = row[u].inst
      /\ \A q \in Procs \ {p} : Mid(q)' => Mid(q) /\ job'[q].inst = job[q].inst
  BY <1>0, <1>2, <1>3, StillRows
<1>5. pc'[p] = "enqueue" /\ job'[p] = j
  BY <1>2 DEF Steps
<1>6. /\ inst' \in [Instances -> [status : Final \union {"none", "running"},
                                  node : Nodes \union {Null}]]
      /\ inst'[i].status = "running" /\ \A k \in Instances \ {i} : inst'[k] = inst[k]
  BY <1>0, <1>1, <1>3 DEF EngineTypeOK
<1>7. EngineTypeOK'
  BY <1>0, <1>2, <1>3, <1>6 DEF EngineTypeOK, Steps
<1>8. ProcOK(p)'
  <2>1. JobOK(p)'
    BY <1>1, <1>5, NullAssumption DEF JobOK, NoJob
  <2> QED
    BY <1>0, <1>5, <2>1 DEF ProcOK, CallerOK
<1>9. \A u \in TaskIds : Holds(p, u)' => Holds(p, u)
  BY <1>0, <1>5 DEF Holds
<1>10. OneToken'
  <2>0. /\ \A u \in TaskIds : Live(u) /\ Apart(row[u].inst) => row[u].inst \in Instances \ {i}
        /\ \A q \in Procs : Mid(q) /\ Apart(job[q].inst) => job[q].inst \in Instances \ {i}
    BY <1>0, <1>3, TokenPlaces DEF OneToken
  <2>p. job'[p].inst = i /\ overlaps' = overlaps
    BY <1>1, <1>3, <1>5
  <2>1. \A a, u \in TaskIds : Live(a)' /\ Live(u)' /\ row'[a].inst = row'[u].inst
                                /\ Apart(row'[a].inst) => a = u
    BY <1>0, <1>4 DEF OneToken
  <2>2. \A q \in Procs : \A u \in TaskIds :
           Mid(q)' /\ Live(u)' /\ Apart(row'[u].inst) => row'[u].inst # job'[q].inst
    BY <1>0, <1>4, <2>0, <2>p DEF OneToken
  <2>3. \A a, b \in Procs : Mid(a)' /\ Mid(b)' /\ job'[a].inst = job'[b].inst
                              /\ Apart(job'[a].inst) => a = b
    BY <1>0, <1>4, <2>0, <2>p DEF OneToken
  <2>4. \A u \in TaskIds : Live(u)' /\ Apart(row'[u].inst) =>
           inst'[row'[u].inst].status = "running"
    BY <1>0, <1>4, <1>6, <2>0 DEF OneToken
  <2>5. \A q \in Procs : Mid(q)' /\ Apart(job'[q].inst) =>
           inst'[job'[q].inst].status = "running"
    BY <1>0, <1>4, <1>6, <2>0, <2>p DEF OneToken
  <2> QED
    BY <2>1, <2>2, <2>3, <2>4, <2>5, <2>p DEF OneToken, Apart
<1> QED
  BY <1>0, <1>4, <1>7, <1>8, <1>9, <1>10, StepKeepsInv

\* A step of a caller or a listener that moves no instance and writes no row.
LEMMA OutsideStep ==
    ASSUME EngineInv, NEW p \in Callers \union Listeners,
           NEW label, label \notin {"move", "enqueue", "finish", "condemn"},
           NEW j, Steps(p, label, j, batch[p]),
           UNCHANGED <<published, inst, context, row, notified, patched, crashes>>,
           OverlapsStay, JobOK(p)', p \in Callers => CallerOK(p)', p \in Listeners => ListenerOK(p)',
           \A u \in TaskIds : Holds(p, u)' =>
              Holds(p, u) \/ \A q \in Procs \ {p} : TakesAlone(p, q, u) => ~Holds(q, u)
    PROVE  EngineInv'
<1>0. EngineTypeOK /\ OneToken /\ p \in Procs /\ p \notin Workers
  BY Crews DEF EngineInv, Procs
<1>1. /\ RowsRemain /\ \A u \in TaskIds : TaskOK(u)'
      /\ \A q \in Procs \ {p} : Undisturbed(q)
      /\ \A u \in TaskIds : Live(u)' => Live(u) /\ row'[u].inst = row[u].inst
      /\ \A q \in Procs \ {p} : Mid(q)' => Mid(q) /\ job'[q].inst = job[q].inst
  BY <1>0, StillRows
<1>2. EngineTypeOK'
  <2>1. row' \in [TaskIds -> Rows \union {Null}]
    BY <1>0 DEF EngineTypeOK
  <2> QED
    BY <1>0, <2>1, TypesStay
<1>3. ~(Mid(p)')
  BY DEF Steps, Mid
<1>4. OneToken'
  <2>1. \A q \in Procs : Mid(q)' => Mid(q) /\ job'[q].inst = job[q].inst
    BY <1>1, <1>3
  <2> QED
    BY <1>0, <1>1, <2>1, TokensStay
<1>5. ProcOK(p)'
  BY <1>0 DEF ProcOK
<1> QED
  BY <1>0, <1>1, <1>2, <1>4, <1>5, StepKeepsInv

LEMMA OutsideReturns ==
    ASSUME EngineInv, NEW p \in Callers \union Listeners, Return(p),
           UNCHANGED <<published, inst, context, row, notified, patched, crashes, overlaps>>
    PROVE  EngineInv'
<1>0. EngineTypeOK /\ p \in Procs /\ p \notin Workers /\ OverlapsStay
  BY Crews, SameOverlaps DEF EngineInv, Procs
<1>1. Rests(p) /\ Steps(p, "idle", Null, batch[p])
  BY <1>0, ReturnSteps DEF Rests
<1>2. ProcOK(p)' /\ \A u \in TaskIds : Holds(p, u)' => Holds(p, u)
  BY <1>0, <1>1, RestingProcess
<1> QED
  BY <1>0, <1>1, <1>2, OutsideStep DEF ProcOK

\* A call that takes up a task puts an overlap on record, if there is one.
LEMMA TakingUp ==
    ASSUME EngineTypeOK, NEW t \in TaskIds, Exists(t), TakesUp(t)
    PROVE  /\ OverlapsStay /\ row[t].inst \in Instances
           /\ overlaps'[row[t].inst] = 0 => ~Completing(t) /\ Apart(row[t].inst)
<1>1. row[t].inst \in Instances /\ overlaps \in [Instances -> Nat]
  BY DEF EngineTypeOK, Exists, Rows
<1>2. CASE Completing(t)
  <2>1. overlaps' = [overlaps EXCEPT ![row[t].inst] = @ + 1]
    BY <1>2 DEF TakesUp
  <2> QED
    BY <1>1, <2>1 DEF OverlapsStay, Apart
<1>3. CASE ~Completing(t)
  BY <1>1, <1>3 DEF TakesUp, OverlapsStay, Apart
<1> QED
  BY <1>1, <1>2, <1>3

LEMMA CheckTaskKeepsInv ==
    ASSUME EngineInv, NEW p \in Callers, NEW t \in TaskIds,
           CheckTask(p, t)
    PROVE  EngineInv'
<1> DEFINE j == Job(t, row[t].attempts, Null)
<1>0. EngineTypeOK /\ p \in Procs /\ p \notin Workers /\ p \notin Listeners
      /\ Exists(t) /\ Waiting(t) /\ TaskOK(t)
  BY Crews DEF EngineInv, Procs, CheckTask, Live, Exists, Waiting
<1>1. /\ j \in Jobs /\ j # Null /\ j.task = t /\ j.inst = row[t].inst
  BY <1>0, JobTyped
<1>2. job' = [job EXCEPT ![p] = j] /\ pc' = [pc EXCEPT ![p] = "fetch"] /\ batch' = batch
      /\ UNCHANGED <<published, inst, context, row, notified, patched, crashes>>
      /\ OverlapsStay /\ (overlaps'[row[t].inst] = 0 => ~Completing(t))
  BY <1>0, TakingUp DEF CheckTask
<1> HIDE DEF j
<1>3. Steps(p, "fetch", j, batch[p])
  BY <1>0, <1>1, <1>2, ProcessSteps DEF Labels
<1>4. pc'[p] = "fetch" /\ job'[p] = j
  BY <1>3 DEF Steps
<1>5. Parked(t)
  BY <1>0 DEF Parked, Waiting, TaskOK
<1>6. JobOK(p)'
  BY <1>0, <1>1, <1>2, <1>4, NullAssumption DEF JobOK, NoJob, Exists
<1>7. CallerOK(p)'
  BY <1>0, <1>1, <1>2, <1>4, <1>5 DEF CallerOK, Parked, Waiting, Exists
<1>8. ASSUME NEW u \in TaskIds, Holds(p, u)', NEW q \in Procs \ {p}, TakesAlone(p, q, u)
      PROVE  ~Holds(q, u)
  <2>1. u = t /\ q \in Callers /\ overlaps'[row[t].inst] = 0
    BY <1>0, <1>1, <1>4, <1>8 DEF Holds, SameCrew, TakesAlone
  <2> QED
    BY <1>2, <2>1, Crews DEF Completing, Holds
<1> QED
  BY <1>0, <1>2, <1>3, <1>6, <1>7, <1>8, OutsideStep

LEMMA FetchKeepsInv ==
    ASSUME EngineInv, NEW p \in Callers, FetchInstance(p)
    PROVE  EngineInv'
<1> DEFINE t == job[p].task
           node == Node(published, row[t].node)
<1>0. EngineTypeOK /\ p \in Procs /\ p \notin Workers /\ p \notin Listeners
      /\ JobOK(p) /\ CallerOK(p) /\ pc[p] = "fetch"
      /\ UNCHANGED <<published, inst, context, row, notified, patched, crashes, overlaps>>
      /\ OverlapsStay
  BY Crews, SameOverlaps DEF EngineInv, ProcOK, Procs, FetchInstance
<1>1. /\ t \in TaskIds /\ Exists(t) /\ row[t] \in Rows /\ row[t].node \in Nodes
      /\ job[p] \in Jobs /\ job[p].inst = row[t].inst /\ job[p].inst \in Instances
      /\ published \in 1..Len(Definitions)
  BY <1>0 DEF JobOK, NoJob, EngineTypeOK, Exists, Rows
<1>2. CASE node.kind \in External
  <2>1. PICK n \in node.next :
           /\ job' = [job EXCEPT ![p] = [job[p] EXCEPT !.def = published, !.next = n,
                                                       !.ctx = context[job[p].inst]]]
           /\ pc' = [pc EXCEPT ![p] = "patch"] /\ batch' = batch
    BY <1>2 DEF FetchInstance
  <2> DEFINE j == [job[p] EXCEPT !.def = published, !.next = n, !.ctx = context[job[p].inst]]
  <2>2. n \in Nodes /\ n # Null
    BY <1>1, <2>1, Definitive, NullAssumption
  <2>3. /\ j \in Jobs /\ j # Null /\ j.task = t /\ j.inst = job[p].inst
        /\ j.ctx = context[job[p].inst] /\ j.next = n
    <3>1. context[job[p].inst] \in SUBSET TaskIds
      BY <1>0, <1>1 DEF EngineTypeOK
    <3>2. j \in Jobs /\ j.task = t /\ j.inst = job[p].inst
          /\ j.ctx = context[job[p].inst] /\ j.next = n
      BY <1>1, <2>2, <3>1 DEF Jobs
    <3> QED
      BY <3>2, NullAssumption
  <2> HIDE DEF j
  <2>4. Steps(p, "patch", j, batch[p])
    BY <1>0, <2>1, <2>3, ProcessSteps DEF Labels, j
  <2>5. pc'[p] = "patch" /\ job'[p] = j
    BY <2>4 DEF Steps
  <2>7. JobOK(p)'
    BY <1>0, <1>1, <2>2, <2>3, <2>5, NullAssumption DEF JobOK, NoJob, Exists
  <2>8. CallerOK(p)'
    BY <1>0, <2>3, <2>5 DEF CallerOK, Parked, Waiting, Exists, Apart
  <2>9. \A u \in TaskIds : Holds(p, u)' => Holds(p, u)
    BY <1>0, <2>3, <2>5 DEF Holds
  <2> QED
    BY <1>0, <2>4, <2>7, <2>8, <2>9, OutsideStep
<1>3. CASE ~(node.kind \in External)
  BY <1>0, <1>3, OutsideReturns DEF FetchInstance
<1> QED
  BY <1>2, <1>3

LEMMA ReadWaitKeepsInv ==
    ASSUME EngineInv, NEW p \in Listeners, ReadWait(p)
    PROVE  EngineInv'
<1> DEFINE t == job[p].task
           node == Node(published, row[t].node)
<1>0. EngineTypeOK /\ p \in Procs /\ p \notin Workers /\ p \notin Callers
      /\ JobOK(p) /\ ListenerOK(p) /\ pc[p] = "resume"
      /\ UNCHANGED <<published, inst, context, row, notified, patched, crashes, overlaps>>
      /\ OverlapsStay
  BY Crews, SameOverlaps DEF EngineInv, ProcOK, Procs, ReadWait
<1>1. /\ t \in TaskIds /\ Exists(t) /\ row[t] \in Rows /\ row[t].node \in Nodes
      /\ job[p] \in Jobs /\ job[p].inst = row[t].inst
      /\ published \in 1..Len(Definitions)
  BY <1>0 DEF JobOK, NoJob, EngineTypeOK, Exists, Rows
<1>2. CASE node.kind \in Waits
  <2>1. PICK n \in node.next :
           /\ job' = [job EXCEPT ![p].def = published, ![p].next = n]
           /\ pc' = [pc EXCEPT ![p] = "succeed"] /\ batch' = batch
    BY <1>2 DEF ReadWait
  <2> DEFINE j == [job[p] EXCEPT !.def = published, !.next = n]
  <2>2. n \in Nodes /\ n # Null
    BY <1>1, <2>1, Definitive, NullAssumption
  <2>3. j \in Jobs /\ j # Null /\ j.task = t /\ j.inst = job[p].inst /\ j.next = n
    <3>1. j \in Jobs /\ j.task = t /\ j.inst = job[p].inst /\ j.next = n
      BY <1>1, <2>2 DEF Jobs
    <3> QED
      BY <3>1, NullAssumption
  <2>4. job' = [job EXCEPT ![p] = j]
    BY <1>0, <2>1 DEF EngineTypeOK
  <2> HIDE DEF j
  <2>5. Steps(p, "succeed", j, batch[p])
    BY <1>0, <2>1, <2>3, <2>4, ProcessSteps DEF Labels
  <2>6. pc'[p] = "succeed" /\ job'[p] = j
    BY <2>5 DEF Steps
  <2>7. JobOK(p)'
    BY <1>0, <1>1, <2>2, <2>3, <2>6, NullAssumption DEF JobOK, NoJob, Exists
  <2>8. ListenerOK(p)'
    BY <1>0, <2>3, <2>6 DEF ListenerOK, Parked, Resumed, Exists, Apart
  <2>9. \A u \in TaskIds : Holds(p, u)' => Holds(p, u)
    BY <1>0, <2>3, <2>6 DEF Holds
  <2> QED
    BY <1>0, <2>5, <2>7, <2>8, <2>9, OutsideStep
<1>3. CASE ~(node.kind \in Waits)
  BY <1>0, <1>3, OutsideReturns DEF ReadWait
<1> QED
  BY <1>2, <1>3

LEMMA PatchKeepsInv ==
    ASSUME EngineInv, NEW p \in Callers, PatchContext(p)
    PROVE  EngineInv'
<1> DEFINE t == job[p].task
           i == job[p].inst
<1>0. EngineTypeOK /\ p \in Procs /\ p \notin Workers /\ p \notin Listeners
      /\ JobOK(p) /\ CallerOK(p) /\ pc[p] = "patch" /\ OneToken /\ OneHolder
      /\ UNCHANGED <<published, inst, row, notified, crashes, overlaps>> /\ OverlapsStay
  BY Crews, SameOverlaps DEF EngineInv, ProcOK, Procs, PatchContext
<1>1. /\ t \in TaskIds /\ Exists(t) /\ row[t] \in Rows /\ job[p] \in Jobs /\ i = row[t].inst
      /\ i \in Instances /\ Parked(t) /\ job[p].ctx \in SUBSET TaskIds
      /\ Apart(i) => job[p].ctx = context[i] /\ Waiting(t)
  BY <1>0 DEF JobOK, NoJob, EngineTypeOK, Exists, Rows, CallerOK, Jobs
<1>2. Steps(p, "succeed", job[p], batch[p])
  BY <1>0, GotoSteps DEF PatchContext, Labels
<1>3. pc'[p] = "succeed" /\ job'[p] = job[p]
  BY <1>2 DEF Steps
<1>4. /\ context' \in [Instances -> SUBSET TaskIds]
      /\ Apart(i) => context'[i] = context[i] \union {t}
      /\ \A k \in Instances \ {i} : context'[k] = context[k]
      /\ patched' = patched \union {t}
  BY <1>0, <1>1 DEF PatchContext, EngineTypeOK
<1>5. EngineTypeOK'
  BY <1>0, <1>1, <1>2, <1>4 DEF EngineTypeOK, Steps
<1>6. RowsRemain
  BY <1>0 DEF RowsRemain, Parked, Exists
<1>7. ASSUME NEW u \in TaskIds PROVE TaskOK(u)'
  <2>1. TaskOK(u) /\ (Exists(u) => row[u].inst \in Instances)
    BY <1>0 DEF EngineInv, EngineTypeOK, Exists, Rows
  <2>2. u \in patched' => Exists(u) /\ (Apart(row[u].inst) => u \in context'[row[u].inst])
    BY <1>1, <1>4, <2>1 DEF TaskOK
  <2> QED
    BY <1>0, <2>1, <2>2 DEF TaskOK, Parked, Exists, Apart
<1>8. ASSUME NEW q \in Procs \ {p} PROVE Undisturbed(q)
  <2>1. Idles(q)
    BY <1>0, <1>2, StepsIdle
  <2>2. ASSUME q \in Callers, pc[q] = "patch", Apart(job[q].inst)
        PROVE  context'[job[q].inst] = context[job[q].inst]
    <3>1. /\ job[q].task \in TaskIds /\ Waiting(job[q].task) /\ job[q] \in Jobs
          /\ job[q].inst = row[job[q].task].inst /\ Holds(q, job[q].task)
      BY <1>0, <2>2 DEF EngineInv, ProcOK, JobOK, NoJob, CallerOK, Holds, EngineTypeOK
    <3>2. ASSUME job[q].inst = i PROVE FALSE
      <4>1. Live(t) /\ Live(job[q].task)
        BY <1>1, <2>2, <3>1, <3>2 DEF Waiting, Exists, Live, LiveStatuses
      <4>2. Holds(p, t)
        BY <1>0 DEF Holds
      <4>3. job[q].task # t
        BY <1>0, <1>1, <2>2, <3>1, <3>2, <4>2 DEF OneHolder, SameCrew
      <4> QED
        BY <1>0, <1>1, <2>2, <3>1, <3>2, <4>1, <4>3 DEF OneToken
    <3> QED
      BY <1>4, <3>1, <3>2 DEF Jobs
  <2> QED
    BY <1>0, <2>1, <2>2 DEF Undisturbed, Leased, Waiting, Resumed, Exists, Apart
<1>9. ProcOK(p)'
  <2>1. JobOK(p)'
    BY <1>0, <1>3 DEF JobOK, NoJob, Exists
  <2>2. CallerOK(p)'
    BY <1>0, <1>1, <1>3 DEF CallerOK, Parked, Waiting, Exists, Apart
  <2> QED
    BY <1>0, <2>1, <2>2 DEF ProcOK
<1>10. \A u \in TaskIds : Holds(p, u)' => Holds(p, u)
  BY <1>0, <1>3 DEF Holds
<1>11. OneToken'
  <2>1. \A u \in TaskIds : Live(u)' => Live(u) /\ row'[u].inst = row[u].inst
    BY <1>0 DEF Live
  <2>2. \A q \in Procs \ {p} : Mid(q)' => Mid(q) /\ job'[q].inst = job[q].inst
    BY <1>0, <1>2, StepsIdle
  <2>3. ~(Mid(p)')
    BY <1>3 DEF Mid
  <2>4. \A q \in Procs : Mid(q)' => Mid(q) /\ job'[q].inst = job[q].inst
    BY <2>2, <2>3
  <2> QED
    BY <1>0, <2>1, <2>4, TokensStay
<1> QED
  BY <1>0, <1>5, <1>6, <1>7, <1>8, <1>9, <1>10, <1>11, StepKeepsInv

LEMMA ResolveKeepsInv ==
    ASSUME EngineInv, NEW p \in Listeners, NEW t \in TaskIds,
           ResolveEventWait(p, t)
    PROVE  EngineInv'
<1> DEFINE j == Job(t, row[t].attempts, Null)
           r == [row[t] EXCEPT !.status = "running"]
<1>0. EngineTypeOK /\ p \in Procs /\ p \notin Workers /\ p \notin Callers /\ OneToken
      /\ Exists(t) /\ Waiting(t) /\ TaskOK(t) /\ Live(t) /\ pc[p] = "idle"
  BY Crews DEF EngineInv, Procs, ResolveEventWait, Live, Exists, Waiting
<1>1. /\ j \in Jobs /\ j # Null /\ j.task = t /\ j.inst = row[t].inst /\ row[t] \in Rows
  BY <1>0, JobTyped
<1>2. /\ job' = [job EXCEPT ![p] = j] /\ pc' = [pc EXCEPT ![p] = "resume"] /\ batch' = batch
      /\ UNCHANGED <<published, inst, context, notified, patched, crashes>>
      /\ SetRow(t, r) /\ OverlapsStay
      /\ overlaps'[row[t].inst] = 0 => ~Completing(t) /\ Apart(row[t].inst)
  BY <1>0, TakingUp DEF ResolveEventWait
<1> HIDE DEF j
<1>3. Steps(p, "resume", j, batch[p])
  BY <1>0, <1>1, <1>2, ProcessSteps DEF Labels
<1>4. pc'[p] = "resume" /\ job'[p] = j
  BY <1>3 DEF Steps
<1>5. Rewrites(t, r) /\ Same(r, row[t], "running", "none")
  <2>1. Same(r, row[t], "running", row[t].lease) /\ row[t].lease = "none"
    BY <1>0, <1>1, RowForms DEF Waiting, TaskOK
  <2>2. r \in Rows
    BY <2>1 DEF Same
  <2> HIDE DEF r
  <2> QED
    BY <1>0, <1>2, <2>1, <2>2, SetRowRewrites
<1> HIDE DEF r
<1>6. row'[t] = r /\ r # Null /\ r.status = "running" /\ r.lease = "none" /\ r.inst = row[t].inst
      /\ r.node = row[t].node
  BY <1>5 DEF Rewrites, Same
<1>7. ~Leased(t) /\ ~Resumed(t) /\ Parked(t)' /\ Live(t)
  BY <1>0, <1>6 DEF Waiting, Leased, Resumed, Parked, Exists
<1>8. RowsRemain /\ \A u \in TaskIds : TaskOK(u)'
  BY <1>0, <1>2, <1>5, <1>6, <1>7, TasksStay DEF Waiting
<1>9. \A q \in Procs \ {p} : Undisturbed(q)
  <2>1. \A q \in Callers : overlaps'[row[t].inst] = 0 => ~Holds(q, t)
    BY <1>2, Crews DEF Completing, Holds
  <2> QED
    BY <1>0, <1>2, <1>3, <1>5, <1>7, <2>1, StepsIdle, OthersUndisturbed
<1>10. EngineTypeOK'
  BY <1>0, <1>2, <1>3, <1>5, TypesStay DEF Rewrites
<1>11. ProcOK(p)'
  <2>1. JobOK(p)'
    BY <1>0, <1>1, <1>4, <1>6, NullAssumption DEF JobOK, NoJob, Exists
  <2>2. ListenerOK(p)'
    BY <1>1, <1>4, <1>6, <1>7 DEF ListenerOK, Parked, Resumed, Exists
  <2> QED
    BY <1>0, <2>1, <2>2 DEF ProcOK
<1>12. ASSUME NEW u \in TaskIds, Holds(p, u)', NEW q \in Procs \ {p}, TakesAlone(p, q, u)
       PROVE  ~Holds(q, u)
  <2>1. u = t /\ q \in Listeners /\ Apart(row[t].inst)
    BY <1>0, <1>1, <1>2, <1>4, <1>12 DEF Holds, SameCrew, TakesAlone
  <2>2. ListenerOK(q) /\ JobOK(q)
    BY <2>1 DEF EngineInv, ProcOK
  <2> QED
    BY <1>7, <2>1, <2>2, Crews DEF Holds, ListenerOK, JobOK, NoJob
<1>13. OneToken'
  <2>1. \A u \in TaskIds : Live(u)' => Live(u) /\ row'[u].inst = row[u].inst
    BY <1>5, <1>6, <1>7 DEF Rewrites, Live
  <2>2. \A q \in Procs \ {p} : Mid(q)' => Mid(q) /\ job'[q].inst = job[q].inst
    BY <1>0, <1>3, StepsIdle
  <2>3. ~(Mid(p)')
    BY <1>4 DEF Mid
  <2>4. \A q \in Procs : Mid(q)' => Mid(q) /\ job'[q].inst = job[q].inst
    BY <2>2, <2>3
  <2> QED
    BY <1>0, <1>2, <2>1, <2>4, TokensStay
<1> QED
  BY <1>0, <1>2, <1>8, <1>9, <1>10, <1>11, <1>12, <1>13, StepKeepsInv

-----------------------------------------------------------------------------
(***************************************************************************)
(* Steps that change rows nobody holds.                                    *)
(***************************************************************************)
LEMMA RowsMove ==
    ASSUME EngineInv, NEW S \in SUBSET TaskIds,
           \A u \in TaskIds \ S : row'[u] = row[u],
           \A u \in S :
              /\ Exists(u) /\ ~Parked(u) /\ row[u].status \notin {"succeeded", "dead_letter"}
              /\ row'[u] # Null /\ row'[u].inst = row[u].inst /\ row'[u].node = row[u].node
              /\ row'[u].status # "running" => row'[u].lease = "none"
              /\ \A q \in Procs : ~Holds(q, u),
           UNCHANGED <<context, notified, patched, overlaps>>
    PROVE  /\ RowsRemain /\ \A u \in TaskIds : TaskOK(u)'
           /\ \A q \in Procs : Idles(q) => Undisturbed(q)
           /\ \A u \in TaskIds : Live(u)' => Live(u) /\ row'[u].inst = row[u].inst
<1>1. RowsRemain
  BY DEF RowsRemain, Parked, Exists
<1>2. ASSUME NEW u \in TaskIds PROVE TaskOK(u)'
  <2>1. TaskOK(u)
    BY DEF EngineInv
  <2> QED
    BY <2>1 DEF TaskOK, Parked, Exists, Apart
<1>3. ASSUME NEW q \in Procs, Idles(q) PROVE Undisturbed(q)
  BY <1>3 DEF Undisturbed, Leased, Waiting, Resumed, Exists
<1>4. ASSUME NEW u \in TaskIds, Live(u)' PROVE Live(u) /\ row'[u].inst = row[u].inst
  <2>1. CASE u \in S
    <3>1. row[u] \in Rows /\ Exists(u)
      BY <2>1 DEF EngineInv, EngineTypeOK, Exists
    <3> QED
      BY <2>1, <3>1 DEF Live, Exists, Rows
  <2>2. CASE u \notin S
    BY <1>4, <2>2 DEF Live
  <2> QED
    BY <2>1, <2>2
<1> QED
  BY <1>1, <1>2, <1>3, <1>4

\* A step no process takes.
LEMMA WorldKeepsInv ==
    ASSUME EngineInv, RowsRemain, OverlapsStay, \A q \in Procs : Undisturbed(q),
           EngineTypeOK', \A u \in TaskIds : TaskOK(u)',
           \A u \in TaskIds : Live(u)' => Live(u) /\ row'[u].inst = row[u].inst,
           inst' = inst
    PROVE  EngineInv'
<1>1. \A q \in Procs : ProcOK(q)' /\ \A u \in TaskIds : Holds(q, u)' => Holds(q, u)
  BY Bystander
<1>2. OneHolder'
  <2>1. CASE Procs = {}
    BY <2>1 DEF OneHolder
  <2>2. ASSUME NEW p \in Procs PROVE OneHolder'
    BY <1>1, HoldersStay
  <2> QED
    BY <2>1, <2>2
<1>3. OneToken'
  <2>1. \A q \in Procs : Mid(q)' => Mid(q) /\ job'[q].inst = job[q].inst
    BY DEF Undisturbed, Idles, Mid
  <2> QED
    BY <2>1, TokensStay DEF EngineInv
<1> QED
  BY <1>1, <1>2, <1>3 DEF EngineInv

LEMMA ReclaimKeepsInv ==
    ASSUME EngineInv, NEW w \in Workers, ReclaimExpiredLeases(w)
    PROVE  EngineInv'
<1> DEFINE S == {t \in TaskIds : Live(t) /\ row[t].status = "running"
                                 /\ row[t].lease = "expired"}
<1>0. EngineTypeOK /\ w \in Procs /\ pc[w] = "idle" /\ ProcOK(w) /\ OneToken
      /\ UNCHANGED <<published, inst, context, notified, patched, crashes, overlaps>>
  BY DEF ReclaimExpiredLeases, EngineInv, Procs
<1>a. OverlapsStay
  BY <1>0, SameOverlaps
<1>1. Steps(w, "claim", job[w], batch[w]) /\ job' = job /\ batch' = batch
  BY <1>0, GotoSteps DEF ReclaimExpiredLeases, Labels
<1>2. \A t \in TaskIds \ S : row'[t] = row[t]
  BY DEF ReclaimExpiredLeases
<1>3. ASSUME NEW t \in S
      PROVE  Same(row'[t], row[t], "pending", "none") /\ row'[t] # Null /\ row[t] \in Rows
  <2>1. row[t] \in Rows
    BY <1>0 DEF EngineTypeOK, Live
  <2>2. row'[t] = [Released(row[t]) EXCEPT !.status = "pending"]
    BY DEF ReclaimExpiredLeases
  <2>3. Same(row'[t], row[t], "pending", "none")
    BY <2>1, <2>2, RowForms
  <2> QED
    BY <2>1, <2>3, NullAssumption DEF Same
<1>4. \A t \in S : /\ t \in TaskIds /\ Exists(t) /\ ~Parked(t) /\ ~Leased(t) /\ Live(t)
                   /\ row[t].status \notin {"succeeded", "dead_letter"}
  BY DEF Live, Exists, Parked, Leased
<1>5. row' \in [TaskIds -> Rows \union {Null}]
  <2>1. row' = [t \in TaskIds |-> row'[t]]
    BY DEF ReclaimExpiredLeases
  <2>2. \A t \in TaskIds : row'[t] \in Rows \union {Null}
    BY <1>0, <1>2, <1>3 DEF EngineTypeOK, Same
  <2> QED
    BY <2>1, <2>2
<1> HIDE DEF S
<1>6. \A t \in S : \A q \in Procs : ~Holds(q, t)
  BY <1>4, HeldRows
<1>7. S \in SUBSET TaskIds
  BY <1>4
<1>8. /\ RowsRemain /\ \A u \in TaskIds : TaskOK(u)'
      /\ \A q \in Procs : Idles(q) => Undisturbed(q)
      /\ \A u \in TaskIds : Live(u)' => Live(u) /\ row'[u].inst = row[u].inst
  BY <1>0, <1>2, <1>3, <1>4, <1>6, <1>7, RowsMove DEF Same
<1>9. EngineTypeOK'
  BY <1>0, <1>a, <1>1, <1>5, TypesStay
<1>10. pc'[w] = "claim" /\ job'[w] = job[w] /\ batch'[w] = batch[w]
  BY <1>1 DEF Steps
<1>11. ProcOK(w)' /\ ~(Mid(w)') /\ \A u \in TaskIds : ~(Holds(w, u)')
  <2>1. JobOK(w) /\ WorkerOK(w)
    BY <1>0 DEF ProcOK
  <2>2. JobOK(w)'
    BY <1>0, <1>10, <2>1 DEF JobOK, NoJob
  <2>3. WorkerOK(w)' /\ batch'[w] = {}
    BY <1>0, <1>10, <2>1 DEF WorkerOK, Claims
  <2> QED
    BY <1>10, <2>2, <2>3, Crews DEF ProcOK, Mid, Holds, Claims
<1>12. \A q \in Procs \ {w} : Undisturbed(q) /\ (Mid(q)' => Mid(q) /\ job'[q].inst = job[q].inst)
  BY <1>0, <1>1, <1>8, StepsIdle
<1>13. OneToken'
  BY <1>0, <1>a, <1>8, <1>11, <1>12, TokensStay
<1> QED
  BY <1>0, <1>a, <1>8, <1>9, <1>11, <1>12, <1>13, StepKeepsInv

LEMMA ClaimKeepsInv ==
    ASSUME EngineInv, NEW w \in Workers, Claim(w)
    PROVE  EngineInv'
<1>0. EngineTypeOK /\ w \in Procs /\ pc[w] = "claim" /\ ProcOK(w) /\ OneToken
      /\ UNCHANGED <<published, inst, context, notified, patched, crashes, job, overlaps>>
  BY DEF Claim, EngineInv, Procs
<1>a. OverlapsStay
  BY <1>0, SameOverlaps
<1>1. PICK B \in SUBSET DueTasks :
         /\ row' = [t \in TaskIds |->
                      IF t \in B THEN [row[t] EXCEPT !.status = "running",
                                         !.lease = "valid", !.attempts = @ + 1]
                                 ELSE row[t]]
         /\ batch' = [batch EXCEPT ![w] =
                        {[task |-> t, attempts |-> row'[t].attempts] : t \in B}]
         /\ pc' = [pc EXCEPT ![w] = IF B = {} THEN "idle" ELSE "pick"]
  BY DEF Claim
<1>2. \A t \in B : /\ t \in TaskIds /\ row[t] \in Rows /\ Exists(t) /\ ~Parked(t) /\ ~Leased(t)
                   /\ Live(t) /\ row[t].status \notin {"succeeded", "dead_letter"}
  BY <1>0 DEF DueTasks, Live, Exists, Parked, Leased, EngineTypeOK
<1>3. ASSUME NEW t \in B
      PROVE  Same(row'[t], row[t], "running", "valid") /\ row'[t] # Null
  <2> DEFINE r == [row[t] EXCEPT !.status = "running", !.lease = "valid", !.attempts = @ + 1]
  <2>1. Same(r, row[t], "running", "valid") /\ row'[t] = r
    BY <1>1, <1>2, RowForms
  <2> HIDE DEF r
  <2> QED
    BY <2>1, NullAssumption DEF Same
<1>4. \A t \in TaskIds \ B : row'[t] = row[t]
  BY <1>1
<1>5. row' \in [TaskIds -> Rows \union {Null}]
  <2>1. row' = [t \in TaskIds |-> row'[t]]
    BY <1>1
  <2>2. \A t \in TaskIds : row'[t] \in Rows \union {Null}
    BY <1>0, <1>3, <1>4 DEF EngineTypeOK, Same
  <2> QED
    BY <2>1, <2>2
<1>6. \A t \in B : \A q \in Procs : ~Holds(q, t)
  BY <1>2, HeldRows
<1>7. /\ RowsRemain /\ \A u \in TaskIds : TaskOK(u)'
      /\ \A q \in Procs : Idles(q) => Undisturbed(q)
      /\ \A u \in TaskIds : Live(u)' => Live(u) /\ row'[u].inst = row[u].inst
  <2>1. B \in SUBSET TaskIds
    BY <1>2
  <2> QED
    BY <1>0, <1>2, <1>3, <1>4, <1>6, <2>1, RowsMove DEF Same
<1> DEFINE C == {[task |-> t, attempts |-> row'[t].attempts] : t \in B}
           label == IF B = {} THEN "idle" ELSE "pick"
<1>8. /\ C \in SUBSET [task : TaskIds, attempts : Nat]
      /\ \A c \in C : c.task \in B /\ Leased(c.task)'
      /\ \A c, d \in C : c.task = d.task => c = d
      /\ B = {} => C = {}
  <2>1. \A t \in B : row'[t] \in Rows /\ row'[t].attempts \in Nat /\ Leased(t)'
    BY <1>3 DEF Same, Rows, Leased, Exists
  <2> QED
    BY <1>2, <2>1
<1>9. batch' = [batch EXCEPT ![w] = C] /\ pc' = [pc EXCEPT ![w] = label]
  BY <1>1
<1> HIDE DEF C
<1>10. Steps(w, label, job[w], C)
  <2>1. job[w] \in Jobs \union {Null} /\ label \in Labels
    BY <1>0 DEF EngineTypeOK, Labels
  <2> HIDE DEF label
  <2> QED
    BY <1>0, <1>8, <1>9, <2>1, ProcessSteps
<1>11. EngineTypeOK'
  <2> HIDE DEF label
  <2> QED
    BY <1>0, <1>a, <1>5, <1>10, TypesStay
<1>12. pc'[w] = label /\ job'[w] = job[w] /\ batch'[w] = C
  BY <1>10 DEF Steps
<1>13. ProcOK(w)' /\ ~(Mid(w)')
  <2>1. JobOK(w)
    BY <1>0 DEF ProcOK
  <2>2. JobOK(w)' /\ ~(Mid(w)')
    BY <1>0, <1>12, <2>1 DEF JobOK, NoJob, Mid
  <2>3. WorkerOK(w)'
    BY <1>8, <1>12 DEF WorkerOK, Claims
  <2> QED
    BY <2>2, <2>3, Crews DEF ProcOK
<1>14. \A u \in TaskIds : Holds(w, u)' => \A q \in Procs : ~Holds(q, u)
  BY <1>6, <1>8, <1>12, Crews DEF Holds, Claims
<1>15. \A q \in Procs \ {w} : Undisturbed(q) /\ (Mid(q)' => Mid(q) /\ job'[q].inst = job[q].inst)
  <2> HIDE DEF label
  <2> QED
    BY <1>0, <1>7, <1>10, StepsIdle
<1>16. OneToken'
  BY <1>0, <1>a, <1>7, <1>13, <1>15, TokensStay
<1> QED
  BY <1>0, <1>a, <1>7, <1>11, <1>13, <1>14, <1>15, <1>16, StepKeepsInv

\* What executeTask does next with a task.
LEMMA DispatchForms ==
    ASSUME EngineTypeOK, NEW t \in TaskIds, Exists(t), NEW d \in Dispatch(t)
    PROVE  /\ d.pc \in Claims /\ d.next \in Nodes \union {Null}
           /\ d.pc = "succeed" /\ d.next = Null =>
                 Node(published, row[t].node).kind \in Terminal
<1> DEFINE node == Node(published, row[t].node)
<1>1. row[t].node \in Nodes /\ published \in 1..Len(Definitions)
  BY DEF EngineTypeOK, Exists, Rows
<1>2. node.kind \in Kinds /\ node.next \subseteq Nodes
  BY <1>1, Definitive
<1>3. \/ d.next = Null /\ d.pc \in {"fail", "park", "defer"}
      \/ d.next = Null /\ d.pc = "succeed" /\ node.kind \in Terminal
      \/ d.next \in node.next /\ d.pc = "succeed"
  BY <1>2 DEF Dispatch, Kinds, External, Terminal, Waits
<1> QED
  BY <1>2, <1>3, NullAssumption DEF Claims

LEMMA ExecuteKeepsInv ==
    ASSUME EngineInv, NEW w \in Workers, ExecuteTask(w)
    PROVE  EngineInv'
<1>0. EngineTypeOK /\ w \in Procs /\ pc[w] = "pick" /\ JobOK(w) /\ WorkerOK(w) /\ OneToken
      /\ UNCHANGED <<published, inst, context, row, notified, patched, crashes, overlaps>>
  BY DEF ExecuteTask, EngineInv, Procs, ProcOK
<1>a. OverlapsStay
  BY <1>0, SameOverlaps
<1>1. PICK c \in batch[w] : \E d \in Dispatch(c.task) :
         /\ job' = [job EXCEPT ![w] = Job(c.task, c.attempts, d.next)]
         /\ batch' = [batch EXCEPT ![w] = @ \ {c}]
         /\ pc' = [pc EXCEPT ![w] = d.pc]
  BY DEF ExecuteTask
<1> DEFINE t == c.task
<1>2. PICK d \in Dispatch(t) :
         /\ job' = [job EXCEPT ![w] = Job(t, c.attempts, d.next)]
         /\ batch' = [batch EXCEPT ![w] = @ \ {c}]
         /\ pc' = [pc EXCEPT ![w] = d.pc]
  BY <1>1
<1>3. t \in TaskIds /\ c.attempts \in Nat /\ Leased(t) /\ Exists(t) /\ row[t] \in Rows
  <2>1. t \in TaskIds /\ c.attempts \in Nat /\ Leased(t)
    BY <1>0, BatchTasks DEF WorkerOK
  <2> QED
    BY <1>0, <2>1 DEF Leased, Exists, EngineTypeOK
<1>4. /\ d.pc \in Claims /\ d.next \in Nodes \union {Null}
      /\ d.pc = "succeed" /\ d.next = Null =>
            Node(published, row[t].node).kind \in Terminal
  BY <1>0, <1>3, DispatchForms
<1> DEFINE j == Job(t, c.attempts, d.next)
           B == batch[w] \ {c}
<1>5. /\ j \in Jobs /\ j # Null /\ j.task = t /\ j.inst = row[t].inst /\ j.next = d.next
      /\ j.def = published
  <2>1. j \in Jobs
    BY <1>0, <1>3, <1>4 DEF Job, Jobs, Rows, EngineTypeOK
  <2> QED
    BY <2>1, NullAssumption DEF Job
<1>6. /\ job' = [job EXCEPT ![w] = j] /\ pc' = [pc EXCEPT ![w] = d.pc]
      /\ batch' = [batch EXCEPT ![w] = B] /\ B \in SUBSET [task : TaskIds, attempts : Nat]
      /\ d.pc \in Labels
  BY <1>0, <1>2, <1>4 DEF EngineTypeOK, Claims, Labels
<1> HIDE DEF j
<1>7. Steps(w, d.pc, j, B)
  <2> HIDE DEF B
  <2> QED
    BY <1>0, <1>5, <1>6, ProcessSteps
<1>8. pc'[w] = d.pc /\ job'[w] = j /\ batch'[w] = B
  BY <1>7 DEF Steps
<1>9. /\ RowsRemain /\ \A u \in TaskIds : TaskOK(u)'
      /\ \A q \in Procs \ {w} : Undisturbed(q)
      /\ \A u \in TaskIds : Live(u)' => Live(u) /\ row'[u].inst = row[u].inst
      /\ \A q \in Procs \ {w} : Mid(q)' => Mid(q) /\ job'[q].inst = job[q].inst
  <2> HIDE DEF B
  <2> QED
    BY <1>0, <1>a, <1>7, StillRows
<1>10. EngineTypeOK'
  <2> HIDE DEF B
  <2>1. row' \in [TaskIds -> Rows \union {Null}]
    BY <1>0 DEF EngineTypeOK
  <2> QED
    BY <1>0, <1>a, <1>7, <2>1, TypesStay
<1>11. JobOK(w)'
  BY <1>0, <1>3, <1>4, <1>5, <1>8, NullAssumption DEF JobOK, NoJob, Claims, Exists
<1>12. WorkerOK(w)'
  <2>1. \A e \in B : e \in batch[w] /\ e.task # t /\ Leased(e.task)
    BY <1>0 DEF WorkerOK
  <2>2. \A e \in B : Leased(e.task)'
    BY <1>0, <2>1 DEF Leased, Exists
  <2>3. Leased(t)'
    BY <1>0, <1>3 DEF Leased, Exists
  <2>4. \A e, f \in B : e.task = f.task => e = f
    BY <1>0, <2>1 DEF WorkerOK
  <2>5. Leased(job[w].task)'
    BY <1>0, <1>3, <1>5, <1>8 DEF Leased, Exists
  <2> HIDE DEF B
  <2> QED
    BY <1>4, <1>5, <1>8, <2>1, <2>2, <2>4, <2>5 DEF WorkerOK, Claims
<1>13. \A u \in TaskIds : Holds(w, u)' => Holds(w, u)
  BY <1>5, <1>8, Crews DEF Holds
<1>14. OneToken'
  <2>1. ~(Mid(w)')
    BY <1>4, <1>8 DEF Mid, Claims
  <2> QED
    BY <1>0, <1>a, <1>9, <2>1, TokensStay
<1>15. ProcOK(w)'
  BY <1>11, <1>12, Crews DEF ProcOK
<1> QED
  BY <1>0, <1>a, <1>9, <1>10, <1>13, <1>14, <1>15, StepKeepsInv

\* Time: a row comes due, a lease nobody works under runs out.
LEMMA TimeKeepsInv ==
    ASSUME EngineInv, NEW t \in TaskIds, ComesDue(t) \/ LeaseRunsOut(t)
    PROVE  EngineInv'
<1>0. /\ EngineTypeOK /\ TaskOK(t) /\ Live(t) /\ Exists(t) /\ row[t] \in Rows
      /\ UNCHANGED <<published, inst, context, notified, patched, pc, job, batch, crashes,
                     overlaps>>
      /\ \A q \in Procs : Idles(q)
  BY DEF ComesDue, LeaseRunsOut, EngineInv, EngineTypeOK, Live, Exists, Idles
<1>a. OverlapsStay
  BY <1>0, SameOverlaps
<1>1. ASSUME NEW r \in Rows, SetRow(t, r) PROVE Rewrites(t, r) /\ EngineTypeOK'
  <2>1. Rewrites(t, r)
    BY <1>0, <1>1, SetRowRewrites
  <2> QED
    BY <1>0, <2>1 DEF EngineTypeOK, Rewrites
<1>2. CASE ComesDue(t)
  <2> DEFINE r == [row[t] EXCEPT !.later = FALSE]
  <2>1. Same(r, row[t], row[t].status, row[t].lease) /\ SetRow(t, r)
    BY <1>0, <1>2, RowForms DEF ComesDue
  <2>2. r \in Rows
    BY <2>1 DEF Same
  <2> HIDE DEF r
  <2>3. Rewrites(t, r) /\ EngineTypeOK'
    BY <1>1, <2>1, <2>2
  <2>4. PICK p : p \notin Procs
    BY NoSetContainsEverything
  <2>5. /\ RowsRemain /\ \A u \in TaskIds : TaskOK(u)'
        /\ \A q \in Procs \ {p} : Undisturbed(q)
        /\ \A u \in TaskIds : Live(u)' => Live(u) /\ row'[u].inst = row[u].inst
    BY <1>0, <1>a, <2>1, <2>3, RowTouched
  <2>6. \A q \in Procs : Undisturbed(q)
    BY <2>4, <2>5
  <2> QED
    BY <1>0, <1>a, <2>3, <2>5, <2>6, WorldKeepsInv
<1>3. CASE LeaseRunsOut(t)
  <2> DEFINE r == [row[t] EXCEPT !.lease = "expired"]
  <2>1. Same(r, row[t], row[t].status, "expired") /\ SetRow(t, r) /\ row[t].lease = "valid"
        /\ ~HeldByWorker(t)
    BY <1>0, <1>3, RowForms DEF LeaseRunsOut
  <2>2. r \in Rows
    BY <2>1 DEF Same
  <2> HIDE DEF r
  <2>3. Rewrites(t, r) /\ EngineTypeOK'
    BY <1>1, <2>1, <2>2
  <2>4. row[t].status = "running" /\ ~Parked(t)
    BY <1>0, <2>1 DEF TaskOK, Parked
  <2>5. \A q \in Procs : ~Holds(q, t)
    <3>1. ASSUME NEW q \in Workers, Holds(q, t) PROVE FALSE
      <4>1. JobOK(q)
        BY DEF EngineInv, ProcOK, Procs
      <4> QED
        BY <2>1, <3>1, <4>1, Crews DEF Holds, HeldByWorker, JobOK, NoJob, Claims
    <3> QED
      BY <2>4, <3>1, HeldRows
  <2>6. /\ RowsRemain /\ \A u \in TaskIds : TaskOK(u)'
        /\ \A q \in Procs : Idles(q) => Undisturbed(q)
        /\ \A u \in TaskIds : Live(u)' => Live(u) /\ row'[u].inst = row[u].inst
    <3>1. \A u \in TaskIds \ {t} : row'[u] = row[u]
      BY <2>3 DEF Rewrites
    <3>2. /\ row'[t] # Null /\ row'[t].inst = row[t].inst /\ row'[t].node = row[t].node
          /\ row'[t].status = "running"
      BY <2>1, <2>3, <2>4 DEF Rewrites, Same
    <3>3. {t} \in SUBSET TaskIds
      OBVIOUS
    <3> QED
      BY <1>0, <2>4, <2>5, <3>1, <3>2, <3>3, RowsMove
  <2> QED
    BY <1>0, <1>a, <2>3, <2>6, WorldKeepsInv
<1> QED
  BY <1>2, <1>3

LEMMA CrashKeepsInv ==
    ASSUME EngineInv, NEW p \in Procs, Crash(p)
    PROVE  EngineInv'
<1>0. EngineTypeOK /\ OneToken /\ crashes' = crashes + 1
      /\ UNCHANGED <<published, inst, context, row, notified, patched, overlaps>>
  BY DEF Crash, EngineInv
<1>a. OverlapsStay
  BY <1>0, SameOverlaps
<1>1. Steps(p, "idle", Null, {})
  <2>1. batch' \in [Workers -> SUBSET [task : TaskIds, attempts : Nat]]
    <3>1. \A w \in Workers : (IF w = p THEN {} ELSE batch[w])
                               \in SUBSET [task : TaskIds, attempts : Nat]
      BY <1>0 DEF EngineTypeOK
    <3> QED
      BY <3>1 DEF Crash
  <2>2. /\ p \in Workers => batch'[p] = {}
        /\ \A q \in Procs \ {p} : q \in Workers => batch'[q] = batch[q]
    BY DEF Crash
  <2>3. /\ pc' \in [Procs -> Labels] /\ pc'[p] = "idle"
        /\ \A q \in Procs \ {p} : pc'[q] = pc[q]
    BY <1>0 DEF Crash, EngineTypeOK, Labels
  <2>4. /\ job' \in [Procs -> Jobs \union {Null}] /\ job'[p] = Null
        /\ \A q \in Procs \ {p} : job'[q] = job[q]
    BY <1>0 DEF Crash, EngineTypeOK
  <2> QED
    BY <2>1, <2>2, <2>3, <2>4 DEF Steps
<1>2. /\ RowsRemain /\ \A u \in TaskIds : TaskOK(u)'
      /\ \A q \in Procs \ {p} : Undisturbed(q)
      /\ \A u \in TaskIds : Live(u)' => Live(u) /\ row'[u].inst = row[u].inst
      /\ \A q \in Procs \ {p} : Mid(q)' => Mid(q) /\ job'[q].inst = job[q].inst
  BY <1>0, <1>a, <1>1, StillRows
<1>3. EngineTypeOK'
  <2>1. crashes' \in Nat
    BY <1>0 DEF EngineTypeOK
  <2> QED
    BY <1>0, <1>1, <2>1 DEF EngineTypeOK, Steps
<1>4. pc'[p] = "idle" /\ job'[p] = Null /\ (p \in Workers => batch'[p] = {})
  BY <1>1 DEF Steps
<1>5. ProcOK(p)' /\ ~(Mid(p)') /\ \A u \in TaskIds : ~(Holds(p, u)')
  <2>1. JobOK(p)'
    BY <1>4 DEF JobOK, NoJob
  <2>2. p \in Workers => WorkerOK(p)'
    BY <1>4 DEF WorkerOK, Claims
  <2> QED
    BY <1>4, <2>1, <2>2 DEF ProcOK, CallerOK, ListenerOK, Mid, Holds, Claims
<1>6. OneToken'
  BY <1>0, <1>a, <1>2, <1>5, TokensStay
<1> QED
  BY <1>a, <1>2, <1>3, <1>5, <1>6, StepKeepsInv

LEMMA RepublishKeepsInv ==
    ASSUME EngineInv, Republish
    PROVE  EngineInv'
<1>1. /\ UNCHANGED <<inst, context, row, notified, patched, pc, job, batch, crashes, overlaps>>
      /\ published' = published + 1 /\ published < Len(Definitions)
  BY DEF Republish
<1>2. EngineTypeOK'
  <2>1. published' \in 1..Len(Definitions)
    BY <1>1, Definitive DEF EngineInv, EngineTypeOK
  <2> QED
    BY <1>1, <2>1 DEF EngineInv, EngineTypeOK
<1>a. OverlapsStay
  BY <1>1, SameOverlaps DEF EngineInv
<1>3. RowsRemain
  BY <1>1 DEF RowsRemain, Parked, Exists
<1>4. \A q \in Procs : Undisturbed(q)
  BY <1>1 DEF Undisturbed, Idles, Leased, Waiting, Resumed, Exists
<1>5. \A u \in TaskIds : TaskOK(u)'
  BY <1>1 DEF EngineInv, TaskOK, Parked, Exists, Apart
<1>6. \A u \in TaskIds : Live(u)' => Live(u) /\ row'[u].inst = row[u].inst
  BY <1>1 DEF Live
<1> QED
  BY <1>1, <1>a, <1>2, <1>3, <1>4, <1>5, <1>6, WorldKeepsInv

-----------------------------------------------------------------------------
(***************************************************************************)
(* The invariant, and what follows from it.                                *)
(***************************************************************************)
LEMMA EngineInitInv == EngineInit => EngineInv
<1> SUFFICES ASSUME EngineInit PROVE EngineInv
  OBVIOUS
<1>1. EngineTypeOK
  <2>1. published \in 1..Len(Definitions)
    <3>1. Len(Definitions) > 0
      BY EngineAssumption, Definitive
    <3> QED
      BY <3>1, Definitive DEF EngineInit
  <2> QED
    BY <2>1 DEF EngineInit, EngineTypeOK, Labels
<1>2. \A t \in TaskIds : TaskOK(t) /\ ~Live(t)
  BY DEF EngineInit, TaskOK, Exists, Live
<1>3. \A p \in Procs : ProcOK(p) /\ ~Mid(p)
  BY DEF EngineInit, ProcOK, JobOK, NoJob, WorkerOK, CallerOK, ListenerOK, Mid, Claims
<1>4. \A p \in Procs : \A t \in TaskIds : ~Holds(p, t)
  BY DEF EngineInit, Holds, Claims, Procs
<1> QED
  BY <1>1, <1>2, <1>3, <1>4 DEF EngineInv, OneHolder, OneToken

LEMMA EngineNextInv ==
    ASSUME EngineInv, [EngineNext]_engineVars
    PROVE  EngineInv'
<1>1. ASSUME NEW w \in Workers, WorkerStep(w) PROVE EngineInv'
  BY <1>1, ReclaimKeepsInv, ClaimKeepsInv, ExecuteKeepsInv, ParkKeepsInv,
     AssignmentKeepsInv, ReminderKeepsInv, DeferKeepsInv DEF WorkerStep
<1>2. ASSUME NEW p \in Procs, Advance(p) PROVE EngineInv'
  BY <1>2, SucceedKeepsInv, MoveKeepsInv, EnqueueKeepsInv, EndKeepsInv, FailKeepsInv
     DEF Advance
<1>3. ASSUME NEW p \in Callers, CompletionStep(p) PROVE EngineInv'
  BY <1>3, FetchKeepsInv, PatchKeepsInv DEF CompletionStep
<1>4. ASSUME NEW p \in Callers, NEW i \in Instances, Start(p, i) PROVE EngineInv'
  BY <1>4, StartKeepsInv
<1>5. ASSUME NEW p \in Callers, NEW t \in TaskIds, CheckTask(p, t) PROVE EngineInv'
  BY <1>5, CheckTaskKeepsInv
<1>6. ASSUME NEW p \in Listeners, NEW t \in TaskIds, ResolveEventWait(p, t) PROVE EngineInv'
  BY <1>6, ResolveKeepsInv
<1>7. ASSUME NEW p \in Listeners, ReadWait(p) PROVE EngineInv'
  BY <1>7, ReadWaitKeepsInv
<1>8. ASSUME NEW t \in TaskIds, ComesDue(t) \/ LeaseRunsOut(t) PROVE EngineInv'
  BY <1>8, TimeKeepsInv
<1>9. ASSUME NEW p \in Procs, Crash(p) PROVE EngineInv'
  BY <1>9, CrashKeepsInv
<1>10. CASE Republish
  BY <1>10, RepublishKeepsInv
<1>11. CASE UNCHANGED engineVars
  <2>1. UNCHANGED <<published, inst, context, row, notified, patched, pc, job, batch,
                    crashes, overlaps>>
    BY <1>11 DEF engineVars
  <2>2. EngineTypeOK'
    BY <2>1 DEF EngineInv, EngineTypeOK
  <2>3. ASSUME NEW t \in TaskIds PROVE TaskOK(t)'
    BY <2>1 DEF EngineInv, TaskOK, Parked, Exists, Apart
  <2>4. ASSUME NEW p \in Procs PROVE ProcOK(p)'
    <3>1. JobOK(p)'
      BY <2>1 DEF EngineInv, ProcOK, JobOK, Exists
    <3>2. p \in Workers => WorkerOK(p)'
      BY <2>1 DEF EngineInv, ProcOK, WorkerOK, Leased, Parked, Exists
    <3>3. p \in Callers => CallerOK(p)'
      BY <2>1 DEF EngineInv, ProcOK, CallerOK, Parked, Exists, Waiting, Apart
    <3>4. p \in Listeners => ListenerOK(p)'
      BY <2>1 DEF EngineInv, ProcOK, ListenerOK, Parked, Resumed, Exists, Apart
    <3> QED
      BY <3>1, <3>2, <3>3, <3>4 DEF ProcOK
  <2>5. OneHolder'
    BY <2>1 DEF EngineInv, OneHolder, Holds, SameCrew, Apart
  <2>6. OneToken'
    BY <2>1 DEF EngineInv, OneToken, Mid, Live, Exists, Apart
  <2> QED
    BY <2>2, <2>3, <2>4, <2>5, <2>6 DEF EngineInv
<1> QED
  BY <1>1, <1>2, <1>3, <1>4, <1>5, <1>6, <1>7, <1>8, <1>9, <1>10, <1>11 DEF EngineNext

LEMMA EngineInvAlways ==
    EngineSafetySpec => []EngineInv
<1>1. EngineInit => EngineInv
  BY EngineInitInv
<1>2. EngineInv /\ [EngineNext]_engineVars => EngineInv'
  BY EngineNextInv
<1> QED
  BY <1>1, <1>2, PTL DEF EngineSafetySpec

\* A set whose members are all equal has at most one.
LEMMA AtMostOne ==
    ASSUME NEW S, \A x, y \in S : x = y
    PROVE  /\ Cardinality(S) \in {0, 1}
           /\ S = {} => Cardinality(S) = 0
<1>1. CASE S = {}
  BY <1>1, FS_EmptySet
<1>2. ASSUME NEW x \in S PROVE Cardinality(S) = 1
  <2>1. S = {x}
    OBVIOUS
  <2> QED
    BY <2>1, FS_Singleton
<1> QED
  BY <1>1, <1>2

LEMMA OneTokenEach ==
    ASSUME EngineInv, NEW i \in Instances, Apart(i)
    PROVE  Cardinality(LiveTasks(i)) + Cardinality(MidAdvance(i)) <= 1
<1>0. OneToken
  BY DEF EngineInv
<1>1. \A t, u \in LiveTasks(i) : t = u
  BY <1>0 DEF LiveTasks, OneToken
<1>2. \A p, q \in MidAdvance(i) : p = q
  BY <1>0 DEF MidAdvance, OneToken, Mid
<1>3. LiveTasks(i) = {} \/ MidAdvance(i) = {}
  BY <1>0 DEF LiveTasks, MidAdvance, OneToken, Mid
<1>4. /\ Cardinality(LiveTasks(i)) \in {0, 1} /\ Cardinality(MidAdvance(i)) \in {0, 1}
      /\ LiveTasks(i) = {} => Cardinality(LiveTasks(i)) = 0
      /\ MidAdvance(i) = {} => Cardinality(MidAdvance(i)) = 0
  BY <1>1, <1>2, AtMostOne
<1> QED
  BY <1>3, <1>4

LEMMA SettlesWhatItTook == EngineInv => SettledOnce
<1> SUFFICES ASSUME EngineInv, NEW p \in Procs
             PROVE  /\ pc[p] \in {"succeed", "fail", "park", "defer", "resume"} =>
                         \/ Live(job[p].task) /\ row[job[p].task].status # "pending"
                         \/ p \notin Workers /\ ~Apart(job[p].inst)
                    /\ pc[p] \in {"move", "finish"} => row[job[p].task].status = "succeeded"
                    /\ pc[p] = "condemn" => row[job[p].task].status = "dead_letter"
  BY DEF SettledOnce
<1>1. ProcOK(p)
  BY DEF EngineInv
<1>2. ASSUME pc[p] \in {"succeed", "fail", "park", "defer", "resume"}
      PROVE  \/ Live(job[p].task) /\ row[job[p].task].status # "pending"
             \/ p \notin Workers /\ ~Apart(job[p].inst)
  <2>1. \/ Leased(job[p].task) \/ Waiting(job[p].task) \/ Resumed(job[p].task)
        \/ p \notin Workers /\ ~Apart(job[p].inst)
    BY <1>1, <1>2, Crews DEF ProcOK, WorkerOK, CallerOK, ListenerOK, Claims
  <2> QED
    BY <2>1 DEF Leased, Waiting, Resumed, Exists, Live, LiveStatuses
<1> QED
  BY <1>1, <1>2 DEF ProcOK, JobOK

LEMMA RaisedAndPatched == EngineInv => DispatchedOnce /\ PatchesSurvive
<1> SUFFICES ASSUME EngineInv PROVE DispatchedOnce /\ PatchesSurvive
  OBVIOUS
<1>1. \A t \in TaskIds : TaskOK(t)
  BY DEF EngineInv
<1>2. ASSUME NEW t \in TaskIds PROVE notified[t] <= 1
  BY <1>1 DEF TaskOK
<1>3. patched \subseteq TaskIds
  BY DEF EngineInv, EngineTypeOK
<1>4. ASSUME NEW t \in patched, Apart(row[t].inst) PROVE t \in context[row[t].inst]
  BY <1>1, <1>3, <1>4 DEF TaskOK
<1> QED
  BY <1>2, <1>4 DEF DispatchedOnce, PatchesSurvive

\* Only who carries an instance's token writes its row, and start.
LEMMA InstanceMoves ==
    ASSUME EngineInv, [EngineNext]_engineVars, NEW i \in Instances
    PROVE  inst'[i] = inst[i] \/ inst[i].status \in {"none", "running"} \/ ~Apart(i)
<1>1. CASE UNCHANGED inst
  BY <1>1
<1>2. ASSUME NEW p \in Procs,
             MoveInstance(p) \/ FinishInstance(p) \/ FailInstance(p)
      PROVE  inst'[i] = inst[i] \/ inst[i].status \in {"none", "running"} \/ ~Apart(i)
  <2>1. Mid(p)
    BY <1>2 DEF MoveInstance, FinishInstance, FailInstance, Mid
  <2>2. /\ job[p].inst \in Instances
        /\ Apart(job[p].inst) => inst[job[p].inst].status = "running"
    BY <2>1, MidInstance
  <2>3. inst \in [Instances -> [status : Final \union {"none", "running"},
                                node : Nodes \union {Null}]]
    BY DEF EngineInv, EngineTypeOK
  <2> QED
    BY <1>2, <2>2, <2>3 DEF MoveInstance, FinishInstance, FailInstance
<1>3. ASSUME NEW p \in Callers, NEW k \in Instances, Start(p, k)
      PROVE  inst'[i] = inst[i] \/ inst[i].status \in {"none", "running"}
  BY <1>3 DEF Start, EngineInv, EngineTypeOK
<1>4. \/ UNCHANGED inst
      \/ \E p \in Procs : MoveInstance(p) \/ FinishInstance(p) \/ FailInstance(p)
      \/ \E p \in Callers : \E k \in Instances : Start(p, k)
  <2>1. ASSUME NEW w \in Workers, WorkerStep(w) PROVE UNCHANGED inst
    BY <2>1 DEF WorkerStep, ReclaimExpiredLeases, Claim, ExecuteTask, Park, RaiseAssignment,
       ScheduleReminder, DeferUntil
  <2>2. ASSUME NEW p \in Procs, Advance(p)
        PROVE  UNCHANGED inst \/ MoveInstance(p) \/ FinishInstance(p) \/ FailInstance(p)
    BY <2>2 DEF Advance, Succeed, EnqueueNode, Fail
  <2>3. ASSUME NEW p \in Callers, CompletionStep(p) PROVE UNCHANGED inst
    BY <2>3 DEF CompletionStep, FetchInstance, PatchContext
  <2>4. ASSUME NEW p \in Callers, NEW t \in TaskIds, CheckTask(p, t) PROVE UNCHANGED inst
    BY <2>4 DEF CheckTask
  <2>5. ASSUME NEW p \in Listeners, NEW t \in TaskIds, ResolveEventWait(p, t)
        PROVE  UNCHANGED inst
    BY <2>5 DEF ResolveEventWait
  <2>6. ASSUME NEW p \in Listeners, ReadWait(p) PROVE UNCHANGED inst
    BY <2>6 DEF ReadWait
  <2>7. ASSUME NEW t \in TaskIds, ComesDue(t) \/ LeaseRunsOut(t) PROVE UNCHANGED inst
    BY <2>7 DEF ComesDue, LeaseRunsOut
  <2>8. ASSUME NEW p \in Procs, Crash(p) PROVE UNCHANGED inst
    BY <2>8 DEF Crash
  <2>9. CASE Republish
    BY <2>9 DEF Republish
  <2>10. CASE UNCHANGED engineVars
    BY <2>10 DEF engineVars
  <2> QED
    BY <2>1, <2>2, <2>3, <2>4, <2>5, <2>6, <2>7, <2>8, <2>9, <2>10 DEF EngineNext
<1> QED
  BY <1>1, <1>2, <1>3, <1>4

\* Only a call that takes up a live task of an instance puts an overlap on its
\* record.
LEMMA OverlapsMove ==
    ASSUME EngineInv, [EngineNext]_engineVars, NEW i \in Instances, Apart(i)
    PROVE  overlaps'[i] = 0 \/ \E t \in TaskIds : Live(t) /\ row[t].inst = i
<1>1. CASE UNCHANGED overlaps
  BY <1>1 DEF Apart
<1>2. ASSUME NEW t \in TaskIds, TakesUp(t), Live(t)
      PROVE  overlaps'[i] = 0 \/ row[t].inst = i
  BY <1>2 DEF TakesUp, Apart, EngineInv, EngineTypeOK
<1>3. UNCHANGED overlaps \/ \E t \in TaskIds : TakesUp(t) /\ Live(t)
  <2>1. ASSUME NEW w \in Workers, WorkerStep(w) PROVE UNCHANGED overlaps
    BY <2>1 DEF WorkerStep, ReclaimExpiredLeases, Claim, ExecuteTask, Park, RaiseAssignment,
       ScheduleReminder, DeferUntil
  <2>2. ASSUME NEW p \in Procs, Advance(p) PROVE UNCHANGED overlaps
    BY <2>2 DEF Advance, Succeed, MoveInstance, EnqueueNode, FinishInstance, Fail, FailInstance
  <2>3. ASSUME NEW p \in Callers, CompletionStep(p) PROVE UNCHANGED overlaps
    BY <2>3 DEF CompletionStep, FetchInstance, PatchContext
  <2>4. ASSUME NEW p \in Callers, NEW k \in Instances, Start(p, k) PROVE UNCHANGED overlaps
    BY <2>4 DEF Start
  <2>5. ASSUME NEW p \in Callers, NEW t \in TaskIds, CheckTask(p, t)
        PROVE  TakesUp(t) /\ Live(t)
    BY <2>5 DEF CheckTask
  <2>6. ASSUME NEW p \in Listeners, NEW t \in TaskIds, ResolveEventWait(p, t)
        PROVE  TakesUp(t) /\ Live(t)
    BY <2>6 DEF ResolveEventWait
  <2>7. ASSUME NEW p \in Listeners, ReadWait(p) PROVE UNCHANGED overlaps
    BY <2>7 DEF ReadWait
  <2>8. ASSUME NEW t \in TaskIds, ComesDue(t) \/ LeaseRunsOut(t) PROVE UNCHANGED overlaps
    BY <2>8 DEF ComesDue, LeaseRunsOut
  <2>9. ASSUME NEW p \in Procs, Crash(p) PROVE UNCHANGED overlaps
    BY <2>9 DEF Crash
  <2>10. CASE Republish
    BY <2>10 DEF Republish
  <2>11. CASE UNCHANGED engineVars
    BY <2>11 DEF engineVars
  <2> QED
    BY <2>1, <2>2, <2>3, <2>4, <2>5, <2>6, <2>7, <2>8, <2>9, <2>10, <2>11 DEF EngineNext
<1> QED
  BY <1>1, <1>2, <1>3

LEMMA EndedStaysEnded ==
    ASSUME EngineInv, EngineInv', [EngineNext]_engineVars, NEW i \in Instances,
           inst[i].status \in Final, Apart(i)
    PROVE  inst'[i] = inst[i] /\ LiveTasks(i)' = {}
<1>1. inst'[i] = inst[i]
  BY InstanceMoves DEF Final, Terminal
<1>2. \A t \in TaskIds : ~(Live(t) /\ row[t].inst = i)
  BY DEF EngineInv, OneToken, Final, Terminal
<1>3. overlaps'[i] = 0
  BY <1>2, OverlapsMove
<1>4. \A t \in TaskIds : Live(t)' /\ overlaps'[row'[t].inst] = 0 =>
         inst'[row'[t].inst].status = "running"
  BY DEF EngineInv, OneToken, Apart
<1> QED
  BY <1>1, <1>3, <1>4 DEF LiveTasks, Final, Terminal

-----------------------------------------------------------------------------
(***************************************************************************)
(* The theorems, for any definitions published over one another.           *)
(***************************************************************************)
\* However workers, callers and listeners interleave and die, an instance is
\* in one place, as long as no two of its completions overlapped: one live task
\* carries it or one process is moving it on.
THEOREM OneThreadPerInstance ==
    EngineSafetySpec =>
        [](\A i \in Instances :
              Apart(i) => Cardinality(LiveTasks(i)) + Cardinality(MidAdvance(i)) <= 1)
<1>1. EngineSafetySpec => []EngineInv
  BY EngineInvAlways
<1>2. EngineInv =>
         \A i \in Instances :
            Apart(i) => Cardinality(LiveTasks(i)) + Cardinality(MidAdvance(i)) <= 1
  BY OneTokenEach
<1> QED
  BY <1>1, <1>2, PTL

\* A completion's merge over the context it read erases no other's patch, unless
\* the two overlapped: nobody else writes that instance's context in between.
THEOREM NoPatchIsLost ==
    EngineSafetySpec => []PatchesSurvive
<1>1. EngineSafetySpec => []EngineInv
  BY EngineInvAlways
<1>2. EngineInv => PatchesSurvive
  BY RaisedAndPatched
<1> QED
  BY <1>1, <1>2, PTL

\* A task is put in front of its queue at most once and settled by the one
\* process that took it, and an ended instance is never revived, but for what
\* overlapping completions do to theirs.
THEOREM TasksHappenOnce ==
    EngineSafetySpec => EachTaskOnce
<1>1. EngineSafetySpec => []EngineInv
  BY EngineInvAlways
<1>2. EngineInv => EngineTypeOK /\ DispatchedOnce /\ SettledOnce
  BY SettlesWhatItTook, RaisedAndPatched DEF EngineInv
<1>3. ASSUME EngineInv, EngineInv', [EngineNext]_engineVars
      PROVE  [\A i \in Instances : Apart(i) /\ inst[i].status \in Final =>
                 /\ inst'[i] = inst[i]
                 /\ LiveTasks(i)' = {}]_engineVars
  BY <1>3, EndedStaysEnded
<1> QED
  BY <1>1, <1>2, <1>3, PTL DEF EngineSafetySpec, EachTaskOnce, FinishedIsFinal
=============================================================================
