------------------------------ MODULE Workflows ------------------------------
(***************************************************************************)
(* One durable Workflow of an Agent: the tables agent_workflows and        *)
(* agent_workflow_stages, the class Workflows, its deliverable in the      *)
(* object store with the intent that recovers it, and its deletion.        *)
(*                                                                         *)
(* Three workers call the owner: the Workflow's runtime, whose steps are   *)
(* retried after a timeout while the first call may still be running; the  *)
(* owner's alarm, which recovers what the runtime leaves; and the owner.   *)
(* What a worker reads before an await may be replaced when it goes on.    *)
(* The owner object serves the call of a worker to an await at a time and  *)
(* may be evicted at each.                                                 *)
(*                                                                         *)
(* Every guard of the owner record is in the code of the owner, so the     *)
(* runtime is not trusted to ask for the right stage: it may ask for any.  *)
(* Budgets, prompts and output contracts are left out. A Run is named by   *)
(* its stage and attempt, as its idempotency key is.                       *)
(***************************************************************************)
EXTENDS Integers

CONSTANTS
  LastStage,       \* stageCount: the stages are numbered from 1
  Deferrable,      \* the stages with maxWaitSeconds
  Delayed,         \* the stages with delayBeforeSeconds
  MaxStageRuns,    \* bound on the attempts of a stage
  MaxDeferrals     \* MAXIMUM_AGENT_WORKFLOW_DEFERRALS

ASSUME WorkflowsAssumption ==
  /\ LastStage \in Nat \ {0}
  /\ Deferrable \subseteq 1..LastStage /\ Delayed \subseteq 1..LastStage
  /\ MaxStageRuns \in Nat \ {0} /\ MaxDeferrals \in Nat

VARIABLES
  workflow,      \* the row of agent_workflows
  stages,        \* agent_workflow_stages
  stageRuns,     \* the Run of each stage and attempt
  deliverable,   \* the object and the intent of the final deliverable
  deletion,      \* the deletion intent, and whether the Session is gone
  work           \* what each worker is doing

workflowVars == <<workflow, stages, stageRuns, deliverable, deletion, work>>

Stages == 1..LastStage

Workers == {"runtime", "alarm", "owner"}

Attempts == 0..MaxStageRuns

NoRun == <<0, 0>>

RunIds == Stages \X (Attempts \ {0})

Workflow ==
  [status : {"none", "queued", "running", "waiting", "cancelling",
             "completed", "failed", "cancelled", "deleted"},
   requested : BOOLEAN,                          \* cancellationRequestedAt
   stage : {0} \cup Stages,                      \* currentStageIndex
   run : {NoRun} \cup RunIds,                    \* currentRunId
   completed : {0} \cup Stages,                  \* completedStages
   wait : {"none", "until", "passed"},           \* waitingUntil
   deferrals : 0..MaxDeferrals,
   session : BOOLEAN,
   attached : BOOLEAN]                           \* the deliverable columns

Stage ==
  [status : {"pending", "running", "waiting", "completed", "failed", "cancelled"},
   attempts : Attempts,                          \* attemptCount
   run : Attempts,                               \* runId, by its attempt
   checkpoint : {"none", "wait", "done"}]

\* The step a worker does next, the stage and attempt it is about, and what the
\* worker has read or has been answered.
Work ==
  [step : {"idle", "materialize", "start", "claim", "abort", "attached",
           "inspect", "defer", "commit", "finalize", "cancelRun", "finishCancel",
           "deleteSession", "deleteObject", "deleteRow", "dropObject"},
   stage : {0} \cup Stages,
   attempt : Attempts,
   requested : BOOLEAN,
   checkpoint : {"none", "wait", "done"},
   result : {"none", "completed", "missing", "failed", "cancelled"}]

NoWork == [step |-> "idle", stage |-> 0, attempt |-> 0, requested |-> FALSE,
           checkpoint |-> "none", result |-> "none"]

Ends == {"completed", "failed", "cancelled"}

Terminal == workflow.status \in Ends
Exists == workflow.status \notin {"none", "deleted"}

Become(w, step) == work' = [work EXCEPT ![w].step = step]
Rest(w) == work' = [work EXCEPT ![w] = NoWork]

\* Every write of the row moves its revision; an intent of an earlier revision is
\* not finished by the alarm.
RevisionMoves ==
  deletion' = IF deletion.intent = "exact" THEN [deletion EXCEPT !.intent = "stale"] ELSE deletion

-----------------------------------------------------------------------------
(* start and #ensureStarted *)

StartWorkflow ==
  /\ workflow.status = "none"
  /\ workflow' = [workflow EXCEPT !.status = "queued"]
  /\ UNCHANGED <<stages, stageRuns, deliverable, deletion, work>>

RuntimeStarted ==
  /\ workflow.status = "queued"
  /\ workflow' = [workflow EXCEPT !.status = "running"]
  /\ RevisionMoves
  /\ UNCHANGED <<stages, stageRuns, deliverable, work>>

-----------------------------------------------------------------------------
(* prepareStage and dispatch *)

Advancing == workflow.status \in {"queued", "running", "waiting"} /\ ~workflow.requested

NextStage(s) ==
  /\ Advancing /\ workflow.completed = s - 1 /\ workflow.run = NoRun
  /\ stages[s].status \in {"pending", "waiting"}

PrepareStage(s) ==
  /\ NextStage(s) /\ s \in Delayed
  /\ workflow.stage = 0 /\ workflow.wait = "none"
  /\ stages[s].status = "pending" /\ stages[s].attempts = 0
  /\ workflow' = [workflow EXCEPT !.stage = s, !.status = "waiting", !.wait = "until"]
  /\ RevisionMoves
  /\ UNCHANGED <<stages, stageRuns, deliverable, work>>

WaitPasses ==
  /\ workflow.wait = "until"
  /\ workflow' = [workflow EXCEPT !.wait = "passed"]
  /\ UNCHANGED <<stages, stageRuns, deliverable, deletion, work>>

Reservable(s) ==
  /\ NextStage(s)
  /\ stages[s].run = 0 /\ workflow.wait # "until" /\ workflow.stage \in {0, s}

\* The delay of a stage that was not prepared holds its first dispatch back.
Prepared(s) == (s \in Delayed /\ stages[s].attempts = 0) => workflow.wait = "passed"

\* The runtime asks for what it likes; the alarm reconciles an active Workflow.
Advances(w) ==
  /\ work[w] = NoWork /\ w # "owner"
  /\ w = "alarm" => workflow.status \in {"running", "waiting"}

\* The row is reserved before Briefs and start are awaited.
Dispatch(w, s) ==
  /\ Advances(w)
  /\ Reservable(s) /\ Prepared(s)
  /\ stages[s].attempts < MaxStageRuns
  /\ workflow' = [workflow EXCEPT !.stage = s, !.status = "running", !.wait = "none"]
  /\ RevisionMoves
  /\ work' = [work EXCEPT ![w] =
       [NoWork EXCEPT !.step = "materialize", !.stage = s, !.attempt = stages[s].attempts + 1]]
  /\ UNCHANGED <<stages, stageRuns, deliverable>>

\* #failBeforeDispatch: only a pending stage without a Run is failed with it.
FailBeforeDispatch(s) ==
  /\ workflow' = IF Terminal \/ ~Exists THEN workflow
                 ELSE [workflow EXCEPT !.stage = 0, !.wait = "none",
                         !.status = IF workflow.requested THEN "cancelled" ELSE "failed"]
  /\ stages' = IF Terminal \/ ~Exists \/ workflow.requested
                  \/ stages[s].status # "pending" \/ stages[s].run # 0
               THEN stages ELSE [stages EXCEPT ![s].status = "failed"]
  /\ IF Terminal \/ ~Exists THEN UNCHANGED deletion ELSE RevisionMoves

\* The authority of the Workflow has changed: dispatch fails it at once.
DispatchRefused(s) ==
  /\ Reservable(s)
  /\ FailBeforeDispatch(s)
  /\ UNCHANGED <<stageRuns, deliverable, work>>

Materialize(w, available) ==
  /\ work[w].step = "materialize"
  /\ IF available
     THEN Become(w, "start") /\ UNCHANGED <<workflow, stages, deletion>>
     ELSE FailBeforeDispatch(work[w].stage) /\ Rest(w)
  /\ UNCHANGED <<stageRuns, deliverable>>

\* #releaseDispatchReservation
ReleaseReservation(s) ==
  IF workflow.run # NoRun \/ workflow.stage # s
  THEN UNCHANGED <<workflow, deletion>>
  ELSE /\ workflow' = [workflow EXCEPT !.stage = 0, !.wait = "none",
             !.status = IF workflow.requested THEN "cancelled" ELSE "running"]
       /\ RevisionMoves

BoundTo(s) ==
  /\ workflow.run = <<s, stages[s].run>> /\ workflow.stage = s /\ workflow.session

\* start admits the Run that stage and attempt name, once; its answer may be a
\* refusal, or an unavailability that hides an admitted Run.
StartStageRun(w, admitted, answer) ==
  /\ work[w].step = "start"
  /\ LET s == work[w].stage
         a == work[w].attempt IN
     /\ admitted => stageRuns[s][a] = "none" /\ answer # "refused"
     /\ answer = "ok" => admitted \/ stageRuns[s][a] # "none"
     /\ stageRuns' = IF admitted THEN [stageRuns EXCEPT ![s][a] = "working"] ELSE stageRuns
     /\ IF answer = "ok" THEN Become(w, "claim") ELSE Rest(w)
     /\ IF answer = "ok" \/ BoundTo(s) THEN UNCHANGED <<workflow, stages, deletion>>
        ELSE IF answer = "refused" THEN FailBeforeDispatch(s)
        ELSE ReleaseReservation(s) /\ UNCHANGED stages
  /\ UNCHANGED deliverable

Claimable(s) ==
  /\ workflow.stage = s /\ workflow.run = NoRun /\ stages[s].run = 0
  /\ stages[s].status \in {"pending", "waiting"}
  /\ workflow.status \in {"running", "cancelling"}

ClaimStageRun(w) ==
  /\ work[w].step = "claim"
  /\ LET s == work[w].stage
         a == work[w].attempt IN
     IF Claimable(s)
     THEN /\ stages' = [stages EXCEPT ![s] =
               [status |-> "running", attempts |-> a, run |-> a, checkpoint |-> "none"]]
          /\ workflow' = [workflow EXCEPT !.run = <<s, a>>, !.session = TRUE]
          /\ RevisionMoves
          /\ Become(w, "attached")
     ELSE /\ IF workflow.run = <<s, a>> /\ stages[s].run = a
             THEN Become(w, "attached") ELSE Become(w, "abort")
          /\ UNCHANGED <<workflow, stages, deletion>>
  /\ UNCHANGED <<stageRuns, deliverable>>

\* agentChannel.cancel stops a working Run, or it fails and leaves it.
CancelRun(s, a, succeeds) ==
  stageRuns' = IF succeeds /\ stageRuns[s][a] = "working"
               THEN [stageRuns EXCEPT ![s][a] = "cancelled"] ELSE stageRuns

AbortStageRun(w, succeeds) ==
  /\ work[w].step = "abort"
  /\ CancelRun(work[w].stage, work[w].attempt, succeeds)
  /\ Rest(w)
  /\ UNCHANGED <<workflow, stages, deliverable, deletion>>

\* After the route of the Run is attached, a cancellation that came meanwhile is
\* passed on to it.
AttachStageRun(w, succeeds) ==
  /\ work[w].step = "attached"
  /\ LET s == work[w].stage
         a == work[w].attempt IN
     IF workflow.requested /\ workflow.run = <<s, a>>
     THEN CancelRun(s, a, succeeds) ELSE UNCHANGED stageRuns
  /\ Rest(w)
  /\ UNCHANGED <<workflow, stages, deliverable, deletion>>

-----------------------------------------------------------------------------
(* The Run: checkpoint, markWaiting and its end *)

CurrentRun(s, a) ==
  /\ workflow.run = <<s, a>> /\ workflow.status = "running"
  /\ stages[s].status = "running" /\ stages[s].run = a /\ stageRuns[s][a] = "working"

Checkpoint(s, a, state) ==
  /\ s \in Deferrable /\ CurrentRun(s, a) /\ stages[s].checkpoint = "none"
  /\ state = "wait" => workflow.deferrals < MaxDeferrals
  /\ stages' = [stages EXCEPT ![s].checkpoint = state]
  /\ UNCHANGED <<workflow, stageRuns, deliverable, deletion, work>>

MarkWaiting(s, a) ==
  /\ CurrentRun(s, a)
  /\ stages' = [stages EXCEPT ![s].status = "waiting"]
  /\ workflow' = [workflow EXCEPT !.status = "waiting"]
  /\ RevisionMoves
  /\ UNCHANGED <<stageRuns, deliverable, work>>

StageRunEnds(s, a, result) ==
  /\ stageRuns[s][a] = "working"
  /\ stageRuns' = [stageRuns EXCEPT ![s][a] = result]
  /\ UNCHANGED <<workflow, stages, deliverable, deletion, work>>

-----------------------------------------------------------------------------
(* complete *)

\* The row and the stage are read before the Run is inspected.
Completable(s) ==
  /\ Exists /\ stages[s].run # 0 /\ workflow.run = <<s, stages[s].run>>
  /\ stages[s].status \in {"running", "waiting"}

BeginCompletion(w, s) ==
  work' = [work EXCEPT ![w] =
    [NoWork EXCEPT !.step = "inspect", !.stage = s, !.attempt = stages[s].run,
                   !.requested = workflow.requested, !.checkpoint = stages[s].checkpoint]]

Complete(w, s) ==
  /\ Advances(w) /\ Completable(s) /\ BeginCompletion(w, s)
  /\ UNCHANGED <<workflow, stages, stageRuns, deliverable, deletion>>

\* A deferrable stage succeeds only if its checkpoint, as it was read, is done.
StageResult(w) ==
  LET s == work[w].stage
      result == stageRuns[s][work[w].attempt] IN
  IF result = "completed" /\ s \in Deferrable /\ work[w].checkpoint # "done"
  THEN "failed" ELSE result

Defers(w) ==
  /\ stageRuns[work[w].stage][work[w].attempt] = "completed"
  /\ work[w].checkpoint = "wait" /\ ~work[w].requested

\* The final stage puts the intent of its deliverable before it stores the object.
InspectStageRun(w, answered, output) ==
  /\ work[w].step = "inspect"
  /\ LET s == work[w].stage IN
     IF ~answered \/ stageRuns[s][work[w].attempt] \notin Ends
     THEN Rest(w) /\ UNCHANGED deliverable
     ELSE IF Defers(w)
     THEN Become(w, "defer") /\ UNCHANGED deliverable
     ELSE IF StageResult(w) = "completed" /\ s = LastStage /\ output
     THEN /\ deliverable' = [deliverable EXCEPT !.intent = "leased"]
          /\ work' = [work EXCEPT ![w].step = "commit", ![w].result = "completed"]
     ELSE /\ work' = [work EXCEPT ![w].step = "finalize", ![w].result =
               IF StageResult(w) = "completed" /\ s = LastStage THEN "missing" ELSE StageResult(w)]
          /\ UNCHANGED deliverable
  /\ UNCHANGED <<workflow, stages, stageRuns, deletion>>

StillDeferrableUnread(w) == TRUE

StillDeferrable(w) ==
  /\ stages[work[w].stage].run = work[w].attempt
  /\ stages[work[w].stage].checkpoint = "wait"
  /\ workflow.run = <<work[w].stage, work[w].attempt>>
  /\ workflow.deferrals < MaxDeferrals

\* Whether a cancellation was requested is not looked at again.
DeferStage(w) ==
  /\ work[w].step = "defer"
  /\ IF Exists /\ StillDeferrable(w)
     THEN /\ stages' = [stages EXCEPT ![work[w].stage] =
               [@ EXCEPT !.status = "waiting", !.run = 0, !.checkpoint = "none"]]
          /\ workflow' = [workflow EXCEPT !.run = NoRun, !.stage = work[w].stage,
               !.deferrals = @ + 1, !.status = "waiting", !.wait = "until"]
          /\ RevisionMoves
     ELSE UNCHANGED <<workflow, stages, deletion>>
  /\ Rest(w)
  /\ UNCHANGED <<stageRuns, deliverable>>

CommitDeliverable(w, stored) ==
  /\ work[w].step = "commit"
  /\ IF stored
     THEN deliverable' = [deliverable EXCEPT !.object = TRUE] /\ Become(w, "finalize")
     ELSE Rest(w) /\ UNCHANGED deliverable
  /\ UNCHANGED <<workflow, stages, stageRuns, deletion>>

\* The intent goes when the object is attached; otherwise the object goes first.
Settle(attached) ==
  deliverable' = [object |-> deliverable.object /\ attached, intent |-> "none"]

NextStatus(w, s) ==
  IF workflow.requested THEN "cancelled"
  ELSE CASE work[w].result = "cancelled" -> "cancelled"
         [] work[w].result \in {"failed", "missing"} -> "failed"
         [] work[w].result = "completed" -> IF s = LastStage THEN "completed" ELSE "running"
         [] work[w].result = "none" -> "running"

StageEnd(w) ==
  CASE workflow.requested -> "cancelled"
    [] ~workflow.requested /\ work[w].result = "missing" -> "completed"
    [] OTHER -> work[w].result

\* Mutation: a second completion of the Run is taken as well.
FinalizableAgain(w) == Exists /\ stages[work[w].stage].run = work[w].attempt /\ ~Terminal

Finalizable(w) ==
  /\ Exists /\ stages[work[w].stage].run = work[w].attempt /\ ~Terminal
  /\ workflow.run = <<work[w].stage, work[w].attempt>>

FinalizeStage(w) ==
  /\ work[w].step = "finalize"
  /\ LET s == work[w].stage
         a == work[w].attempt
         prepared == work[w].result = "completed" /\ s = LastStage IN
     IF Finalizable(w)
     THEN /\ stages' = IF stages[s].status \in {"running", "waiting"}
                       THEN [stages EXCEPT ![s].status = StageEnd(w)] ELSE stages
          /\ workflow' = [workflow EXCEPT
               !.status = NextStatus(w, s), !.run = NoRun, !.stage = 0, !.wait = "none",
               !.completed = IF StageEnd(w) = "completed" THEN @ + 1 ELSE @,
               !.attached = prepared /\ NextStatus(w, s) = "completed"]
          /\ IF prepared THEN Settle(NextStatus(w, s) = "completed") ELSE UNCHANGED deliverable
          /\ RevisionMoves
     ELSE /\ IF prepared
             THEN Settle(Exists /\ stages[s].run = a /\ Terminal /\ workflow.attached)
             ELSE UNCHANGED deliverable
          /\ UNCHANGED <<workflow, stages, deletion>>
  /\ Rest(w)
  /\ UNCHANGED stageRuns

-----------------------------------------------------------------------------
(* cancel and failRuntime *)

\* Nothing is in flight: no Run, and no stage reserved unless it waits.
Quiet == workflow.run = NoRun /\ (workflow.stage = 0 \/ workflow.wait # "none")

\* The stage that is current, and was when the row was read, is cancelled with it.
CancelledStages(s) ==
  IF s # 0 /\ stages[s].status \in {"running", "waiting"}
  THEN [stages EXCEPT ![s].status = "cancelled"] ELSE stages

Cancelled == [workflow EXCEPT !.status = "cancelled", !.requested = TRUE, !.run = NoRun,
                              !.stage = 0, !.wait = "none"]

\* The owner's request, or the alarm's recovery of a cancelling Workflow.
Cancel(w) ==
  /\ work[w] = NoWork /\ Exists /\ ~Terminal
  /\ w = "alarm" => workflow.status = "cancelling"
  /\ w # "runtime"
  /\ RevisionMoves
  /\ IF Quiet
     THEN /\ workflow' = Cancelled
          /\ stages' = CancelledStages(workflow.stage)
          /\ UNCHANGED work
     ELSE /\ workflow' = [workflow EXCEPT !.status = "cancelling", !.requested = TRUE]
          /\ IF workflow.run = NoRun THEN UNCHANGED work
             ELSE work' = [work EXCEPT ![w] =
                    [NoWork EXCEPT !.step = "cancelRun", !.stage = workflow.stage,
                                   !.attempt = workflow.run[2]]]
          /\ UNCHANGED stages
  /\ UNCHANGED <<stageRuns, deliverable>>

\* If the Run cannot be cancelled, the stage is completed with what became of it.
CancelCurrentRun(w, succeeds) ==
  /\ work[w].step = "cancelRun"
  /\ LET s == work[w].stage
         a == work[w].attempt IN
     /\ CancelRun(s, a, succeeds)
     /\ IF succeeds /\ stageRuns'[s][a] = "cancelled"
        THEN Become(w, "finishCancel")
        ELSE IF Completable(s) THEN BeginCompletion(w, s) ELSE Rest(w)
  /\ UNCHANGED <<workflow, stages, deliverable, deletion>>

\* The row is written whatever became of it during the await.
FinishCancel(w) ==
  /\ work[w].step = "finishCancel"
  /\ IF Exists
     THEN /\ workflow' = Cancelled
          /\ stages' = CancelledStages(work[w].stage)
          /\ RevisionMoves
     ELSE UNCHANGED <<workflow, stages, deletion>>
  /\ Rest(w)
  /\ UNCHANGED <<stageRuns, deliverable>>

\* The runtime ended with an error.
FailRuntime ==
  /\ Exists /\ ~Terminal /\ workflow.status # "queued"
  /\ LET s == IF workflow.stage # 0 THEN workflow.stage
              ELSE IF workflow.completed < LastStage THEN workflow.completed + 1 ELSE LastStage
         open == IF workflow.requested THEN {"running", "waiting"}
                 ELSE {"pending", "running", "waiting"}
         end == IF workflow.requested THEN "cancelled" ELSE "failed" IN
     /\ stages' = IF stages[s].status \in open THEN [stages EXCEPT ![s].status = end] ELSE stages
     /\ workflow' = [workflow EXCEPT !.status = end, !.run = NoRun, !.stage = 0, !.wait = "none"]
  /\ RevisionMoves
  /\ UNCHANGED <<stageRuns, deliverable, work>>

-----------------------------------------------------------------------------
(* delete, cleanup and the recovery of intents *)

BeginDeletion(w) ==
  /\ work' = [work EXCEPT ![w] = [NoWork EXCEPT !.step = "deleteSession"]]
  /\ deletion' = [deletion EXCEPT !.intent = IF @ = "none" THEN "exact" ELSE @, !.marked = TRUE]

\* The owner deletes under the current revision; the intent of another revision
\* makes its request busy.
DeleteWorkflow ==
  /\ work["owner"] = NoWork /\ Terminal
  /\ deletion.intent # "stale"
  /\ BeginDeletion("owner")
  /\ UNCHANGED <<workflow, stages, stageRuns, deliverable>>

\* Past its retention, if nobody began its deletion.
ExpireWorkflow ==
  /\ work["alarm"] = NoWork /\ Terminal /\ ~deletion.marked
  /\ BeginDeletion("alarm")
  /\ UNCHANGED <<workflow, stages, stageRuns, deliverable>>

Resumable == deletion.intent = "exact" /\ Terminal

ResumeDeletion ==
  /\ work["alarm"] = NoWork /\ Resumable
  /\ work' = [work EXCEPT !["alarm"] = [NoWork EXCEPT !.step = "deleteSession"]]
  /\ UNCHANGED <<workflow, stages, stageRuns, deliverable, deletion>>

\* A Session is not deleted while a Run of it works.
DeleteSession(w, succeeds) ==
  /\ work[w].step = "deleteSession"
  /\ IF succeeds /\ \A run \in RunIds : stageRuns[run[1]][run[2]] # "working"
     THEN deletion' = [deletion EXCEPT !.sessionGone = TRUE] /\ Become(w, "deleteObject")
     ELSE Rest(w) /\ UNCHANGED deletion
  /\ UNCHANGED <<workflow, stages, stageRuns, deliverable>>

\* The runtime is deleted, and then the deliverable the row refers to.
DeleteObject(w, succeeds) ==
  /\ work[w].step = "deleteObject"
  /\ IF succeeds
     THEN /\ deliverable' = IF workflow.attached THEN [deliverable EXCEPT !.object = FALSE]
                            ELSE deliverable
          /\ Become(w, "deleteRow")
     ELSE Rest(w) /\ UNCHANGED deliverable
  /\ UNCHANGED <<workflow, stages, stageRuns, deletion>>

DeleteRow(w) ==
  /\ work[w].step = "deleteRow"
  /\ workflow' = [workflow EXCEPT !.status = "deleted"]
  /\ deletion' = [deletion EXCEPT !.intent = "none"]
  /\ Rest(w)
  /\ UNCHANGED <<stages, stageRuns, deliverable>>

\* The lease of thirty seconds outlasts the completion that put the intent.
LeaseEnds ==
  /\ deliverable.intent = "leased"
  /\ \A w \in Workers : ~(work[w].step \in {"commit", "finalize"} /\ work[w].stage = LastStage)
  /\ deliverable' = [deliverable EXCEPT !.intent = "expired"]
  /\ UNCHANGED <<workflow, stages, stageRuns, deletion, work>>

\* The alarm decides by the row whether the object is attached, and then awaits
\* the deletion of the object and of the intent.
RecoverDeliverable ==
  /\ work["alarm"] = NoWork /\ deliverable.intent = "expired"
  /\ IF Exists /\ workflow.attached
     THEN deliverable' = [deliverable EXCEPT !.intent = "none"] /\ UNCHANGED work
     ELSE Become("alarm", "dropObject") /\ UNCHANGED deliverable
  /\ UNCHANGED <<workflow, stages, stageRuns, deletion>>

DropObject(w, succeeds) ==
  /\ work[w].step = "dropObject"
  /\ IF succeeds THEN Settle(FALSE) ELSE UNCHANGED deliverable
  /\ Rest(w)
  /\ UNCHANGED <<workflow, stages, stageRuns, deletion>>

\* The owner object is evicted, or the call throws.
AbandonWork(w) ==
  /\ work[w] # NoWork
  /\ Rest(w)
  /\ UNCHANGED <<workflow, stages, stageRuns, deliverable, deletion>>

-----------------------------------------------------------------------------

WorkflowsInit ==
  /\ workflow = [status |-> "none", requested |-> FALSE, stage |-> 0, run |-> NoRun,
                 completed |-> 0, wait |-> "none", deferrals |-> 0, session |-> FALSE,
                 attached |-> FALSE]
  /\ stages = [s \in Stages |-> [status |-> "pending", attempts |-> 0, run |-> 0,
                                 checkpoint |-> "none"]]
  /\ stageRuns = [s \in Stages |-> [a \in Attempts \ {0} |-> "none"]]
  /\ deliverable = [object |-> FALSE, intent |-> "none"]
  /\ deletion = [intent |-> "none", marked |-> FALSE, sessionGone |-> FALSE]
  /\ work = [w \in Workers |-> NoWork]

WorkerNext(w) ==
  \/ \E s \in Stages : Dispatch(w, s) \/ Complete(w, s)
  \/ \E available \in BOOLEAN : Materialize(w, available)
  \/ \E admitted \in BOOLEAN, answer \in {"ok", "refused", "unavailable"} :
       StartStageRun(w, admitted, answer)
  \/ ClaimStageRun(w)
  \/ \E succeeds \in BOOLEAN :
       \/ AbortStageRun(w, succeeds) \/ AttachStageRun(w, succeeds)
       \/ CancelCurrentRun(w, succeeds) \/ CommitDeliverable(w, succeeds)
       \/ DeleteSession(w, succeeds) \/ DeleteObject(w, succeeds) \/ DropObject(w, succeeds)
  \/ \E answered, output \in BOOLEAN : InspectStageRun(w, answered, output)
  \/ DeferStage(w) \/ FinalizeStage(w) \/ Cancel(w) \/ FinishCancel(w)
  \/ DeleteRow(w) \/ AbandonWork(w)

WorkflowsNext ==
  \/ StartWorkflow \/ RuntimeStarted \/ WaitPasses \/ FailRuntime
  \/ \E s \in Stages : PrepareStage(s) \/ DispatchRefused(s)
  \/ \E s \in Stages, a \in Attempts \ {0} :
       \/ \E state \in {"wait", "done"} : Checkpoint(s, a, state)
       \/ MarkWaiting(s, a)
       \/ \E result \in Ends : StageRunEnds(s, a, result)
  \/ \E w \in Workers : WorkerNext(w)
  \/ DeleteWorkflow \/ ExpireWorkflow \/ ResumeDeletion
  \/ LeaseEnds \/ RecoverDeliverable

WorkflowsSpec == WorkflowsInit /\ [][WorkflowsNext]_workflowVars

-----------------------------------------------------------------------------

\* The tables and the work of the callers hold what their schemas allow.
WorkflowsTypeOK ==
  /\ workflow \in Workflow
  /\ stages \in [Stages -> Stage]
  /\ stageRuns \in [Stages -> [Attempts \ {0} -> {"none", "working"} \cup Ends]]
  /\ deliverable \in [object : BOOLEAN, intent : {"none", "leased", "expired"}]
  /\ deletion \in [intent : {"none", "exact", "stale"}, marked : BOOLEAN, sessionGone : BOOLEAN]
  /\ work \in [Workers -> Work]

\* The stages run one after the other, however many callers dispatch, complete,
\* defer or cancel a stage side by side: a Run of a stage is admitted only after
\* the stages before it have completed, the Workflow counts those that have, and
\* once its cancellation was requested it neither completes nor fails.
WorkflowKeepsItsOrder ==
  /\ \A s \in Stages :
       (\E a \in Attempts \ {0} : stageRuns[s][a] # "none")
         => \A earlier \in 1..(s - 1) : stages[earlier].status = "completed"
  /\ Exists => \A s \in Stages : stages[s].status = "completed" <=> s <= workflow.completed
  /\ workflow.requested => workflow.status \notin {"completed", "failed"}

=============================================================================
