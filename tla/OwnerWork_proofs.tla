---------------------------- MODULE OwnerWork_proofs ----------------------------
(***************************************************************************)
(* What the owner's object does between provider, runtime and registry:    *)
(* the order of the stages of a Workflow, the Briefs that Runs and         *)
(* Workflows hold, the library of Skills with the receipts of the          *)
(* installations that fill it, and the publication of a Recipe at the      *)
(* Registry; and the types of all of them, and of the triggers, together.  *)
(***************************************************************************)
EXTENDS MCOwnerWork, StandingWork_proofs

-----------------------------------------------------------------------------
(* The row of a Workflow and its stages *)

\* The stages up to the count are those that completed, a Run is current only of the
\* stage after them, which waits or runs, and a cancelled Workflow ends as that.
Order(row, table) ==
  /\ row \in Workflow /\ table \in [Stages -> Stage]
  /\ \A s \in Stages : table[s].status = "completed" <=> s <= row.completed
  /\ row.run # NoRun =>
       /\ row.run \in RunIds /\ row.run[1] = row.completed + 1
       /\ table[row.run[1]].status \in {"running", "waiting"}
       /\ row.stage = row.run[1] \/ row.status \in Ends \cup {"deleted"}
  /\ row.requested => row.status \notin {"completed", "failed"}

\* A stage that completed stays completed.
StagesKept(table, new) ==
  \A s \in Stages : table[s].status = "completed" => new[s].status = "completed"

AtStage == {"materialize", "start", "claim", "abort", "attached", "inspect", "defer",
            "commit", "finalize", "cancelRun", "finishCancel"}

\* A worker that is about to admit or claim a Run was told to after the stages before.
WorkSound(x, table) ==
  /\ x.step \in AtStage => x.stage \in Stages /\ x.attempt \in Attempts \ {0}
  /\ x.step \in {"commit", "finalize"} => x.result # "none"
  /\ x.step \in {"materialize", "start", "claim"} =>
       \A earlier \in 1..(x.stage - 1) : table[earlier].status = "completed"

RunsFollow(made, table) ==
  \A s \in Stages :
    (\E a \in Attempts \ {0} : made[s][a] # "none")
      => \A earlier \in 1..(s - 1) : table[earlier].status = "completed"

WorkflowInv ==
  /\ WorkflowsTypeOK /\ Order(workflow, stages) /\ RunsFollow(stageRuns, stages)
  /\ \A w \in Workers : WorkSound(work[w], stages)

\* What the fields of the row hold.
LEMMA WorkflowFields ==
  ASSUME NEW row \in Workflow
  PROVE  /\ row.status \in {"none", "queued", "running", "waiting", "cancelling",
                            "completed", "failed", "cancelled", "deleted"}
         /\ row.requested \in BOOLEAN /\ row.stage \in {0} \cup Stages
         /\ row.run \in {NoRun} \cup RunIds /\ row.completed \in {0} \cup Stages
         /\ row.wait \in {"none", "until", "passed"} /\ row.deferrals \in 0..MaxDeferrals
         /\ row.session \in BOOLEAN /\ row.attached \in BOOLEAN
BY DEF Workflow

\* Moving on and ending without a Run keep the order of the stages.
LEMMA RowMoves ==
  ASSUME NEW row, NEW table, NEW new, Order(row, table), new \in Workflow,
         new.completed = row.completed,
         new.run = NoRun \/ (new.run = row.run /\ (new.stage = row.stage \/ new.status \in Ends)
                             /\ (new.status = row.status \/ new.status \in Ends \cup {"deleted"}
                                 \/ new.stage = row.run[1])),
         new.requested => new.status \notin {"completed", "failed"}
  PROVE  Order(new, table)
BY DEF Order

\* A stage that did not complete and has no current Run may be anything but completed.
LEMMA StageMoves ==
  ASSUME NEW row, NEW table, NEW s \in Stages, NEW stage \in Stage, Order(row, table),
         table[s].status # "completed", stage.status # "completed",
         row.run # NoRun => row.run[1] # s \/ stage.status \in {"running", "waiting"}
  PROVE  /\ Order(row, [table EXCEPT ![s] = stage])
         /\ StagesKept(table, [table EXCEPT ![s] = stage])
<1> DEFINE new == [table EXCEPT ![s] = stage]
<1>1. /\ new \in [Stages -> Stage] /\ new[s] = stage
      /\ \A o \in Stages \ {s} : new[o] = table[o]
  BY DEF Order
<1> HIDE DEF new
<1>2. \A o \in Stages : new[o].status = "completed" <=> table[o].status = "completed"
  BY <1>1
<1>3. ASSUME row.run # NoRun
      PROVE  new[row.run[1]].status \in {"running", "waiting"}
  <2>1. row.run \in RunIds /\ row.run[1] \in Stages
    BY <1>3 DEF Order, RunIds
  <2> QED BY <1>1, <1>3, <2>1 DEF Order
<1>4. Order(row, new)
  BY <1>1, <1>2, <1>3 DEF Order
<1> QED BY <1>2, <1>4 DEF new, StagesKept

-----------------------------------------------------------------------------

(* What each operation makes of the row and the stages *)

\* start, #ensureStarted, prepareStage, the passing of a wait and dispatch.
LEMMA AdvanceOrder ==
  ASSUME WorkflowInv,
         \/ StartWorkflow \/ RuntimeStarted \/ WaitPasses
         \/ \E s \in Stages : PrepareStage(s) \/ \E w \in Workers : Dispatch(w, s)
  PROVE  Order(workflow', stages') /\ stages' = stages
<1>0. Order(workflow, stages) /\ workflow \in Workflow
  BY DEF WorkflowInv, Order
<1>1. CASE StartWorkflow
  BY <1>0, <1>1 DEF StartWorkflow, Order, Workflow, Ends
<1>2. CASE RuntimeStarted
  BY <1>0, <1>2 DEF RuntimeStarted, Order, Workflow, Ends
<1>3. CASE WaitPasses
  BY <1>0, <1>3 DEF WaitPasses, Order, Workflow, Ends
<1>4. ASSUME NEW s \in Stages, PrepareStage(s)
      PROVE  Order(workflow', stages') /\ stages' = stages
  BY <1>0, <1>4 DEF PrepareStage, NextStage, Advancing, Order, Workflow, Ends
<1>5. ASSUME NEW s \in Stages, NEW w \in Workers, Dispatch(w, s)
      PROVE  Order(workflow', stages') /\ stages' = stages
  BY <1>0, <1>5 DEF Dispatch, Reservable, NextStage, Advancing, Order, Workflow, Ends
<1> QED BY <1>1, <1>2, <1>3, <1>4, <1>5

\* #failBeforeDispatch
LEMMA FailOrder ==
  ASSUME WorkflowInv, NEW s \in Stages, FailBeforeDispatch(s)
  PROVE  Order(workflow', stages') /\ StagesKept(stages, stages')
<1>0. Order(workflow, stages) /\ workflow \in Workflow
  BY DEF WorkflowInv, Order
<1>1. CASE Terminal \/ ~Exists
  BY <1>0, <1>1 DEF FailBeforeDispatch, StagesKept
<1>2. CASE ~Terminal /\ Exists
  <2>1. Order(workflow', stages)
    <3>1. /\ workflow' \in Workflow /\ workflow'.completed = workflow.completed
          /\ workflow'.run = workflow.run /\ workflow'.requested = workflow.requested
          /\ workflow'.status = IF workflow.requested THEN "cancelled" ELSE "failed"
      BY <1>0, <1>2 DEF FailBeforeDispatch, Workflow
    <3> QED BY <1>0, <3>1 DEF Order, Ends
  <2>2. CASE stages' = stages
    BY <2>1, <2>2 DEF StagesKept
  <2>3. CASE stages' # stages
    <3> DEFINE failed == [stages[s] EXCEPT !.status = "failed"]
    <3>1. stages[s].status = "pending" /\ stages' = [stages EXCEPT ![s] = failed]
      BY <1>2, <2>3 DEF FailBeforeDispatch
    <3>2. failed \in Stage /\ failed.status = "failed"
      BY <1>0 DEF Order, Stage
    <3>3. workflow'.run # NoRun => workflow'.run[1] # s
      BY <2>1, <3>1 DEF Order
    <3> QED BY <2>1, <3>1, <3>2, <3>3, StageMoves
  <2> QED BY <2>2, <2>3
<1> QED BY <1>1, <1>2

\* #releaseDispatchReservation
LEMMA ReleaseOrder ==
  ASSUME WorkflowInv, NEW s \in Stages, ReleaseReservation(s)
  PROVE  Order(workflow', stages)
<1>0. Order(workflow, stages) /\ workflow \in Workflow
  BY DEF WorkflowInv, Order
<1>1. CASE workflow.run # NoRun \/ workflow.stage # s
  BY <1>0, <1>1 DEF ReleaseReservation
<1>2. CASE ~(workflow.run # NoRun \/ workflow.stage # s)
  <2> DEFINE status == IF workflow.requested THEN "cancelled" ELSE "running"
  <2>1. workflow' = [workflow EXCEPT !.stage = 0, !.wait = "none", !.status = status]
    BY <1>2 DEF ReleaseReservation
  <2>2. /\ status \in {"cancelled", "running"} /\ workflow.run = NoRun
        /\ workflow.requested => status = "cancelled"
    BY <1>2
  <2> HIDE DEF status
  <2>3. /\ workflow' \in Workflow /\ workflow'.completed = workflow.completed
        /\ workflow'.run = NoRun /\ workflow'.requested = workflow.requested
        /\ workflow'.status = status
    BY <1>0, <2>1, <2>2 DEF Workflow
  <2> QED BY <1>0, <2>2, <2>3 DEF Order
<1> QED BY <1>1, <1>2

\* The Run is claimed for a stage that was reserved, after those before it.
LEMMA ClaimOrder ==
  ASSUME WorkflowInv, NEW w \in Workers, ClaimStageRun(w)
  PROVE  Order(workflow', stages') /\ StagesKept(stages, stages')
<1> DEFINE s == work[w].stage
           a == work[w].attempt
           claimed == [status |-> "running", attempts |-> a, run |-> a, checkpoint |-> "none"]
<1>0. Order(workflow, stages) /\ workflow \in Workflow /\ WorkSound(work[w], stages)
  BY DEF WorkflowInv, Order
<1>1. CASE ~Claimable(s)
  BY <1>0, <1>1 DEF ClaimStageRun, StagesKept
<1>2. CASE Claimable(s)
  <2>1. /\ s \in Stages /\ a \in Attempts \ {0}
        /\ \A earlier \in 1..(s - 1) : stages[earlier].status = "completed"
    BY <1>0 DEF ClaimStageRun, WorkSound, AtStage
  <2>2. /\ workflow' = [workflow EXCEPT !.run = <<s, a>>, !.session = TRUE]
        /\ stages' = [stages EXCEPT ![s] = claimed]
        /\ workflow.run = NoRun /\ workflow.stage = s
        /\ stages[s].status \in {"pending", "waiting"}
    BY <1>2 DEF ClaimStageRun, Claimable
  <2> HIDE DEF s, a
  <2>3. claimed \in Stage /\ claimed.status = "running"
    BY <2>1 DEF Stage
  <2> HIDE DEF claimed
  <2>4. Order(workflow, stages') /\ StagesKept(stages, stages') /\ stages'[s].status = "running"
    <3>1. stages'[s] = claimed
      BY <1>0, <2>1, <2>2 DEF Order
    <3> QED BY <1>0, <2>1, <2>2, <2>3, <3>1, StageMoves
  <2>5. s = workflow.completed + 1
    <3>1. ~(s <= workflow.completed)
      BY <1>0, <2>1, <2>2 DEF Order
    <3>2. s - 1 <= workflow.completed
      <4>1. CASE s = 1
        BY <1>0, <4>1 DEF Order, Workflow, Stages
      <4>2. CASE s # 1
        BY <1>0, <2>1, <4>2, WorkflowsAssumption DEF Order, Stages
      <4> QED BY <4>1, <4>2
    <3> QED BY <1>0, <2>1, <3>1, <3>2, WorkflowsAssumption, WorkflowFields DEF Stages
  <2>6. /\ workflow' \in Workflow /\ workflow'.run = <<s, a>> /\ workflow'.completed = workflow.completed
        /\ workflow'.stage = workflow.stage /\ workflow'.status = workflow.status
        /\ workflow'.requested = workflow.requested /\ <<s, a>> \in RunIds
    BY <1>0, <2>1, <2>2 DEF Workflow, RunIds
  <2> QED BY <2>2, <2>4, <2>5, <2>6 DEF Order
<1> QED BY <1>1, <1>2

-----------------------------------------------------------------------------

\* A checkpoint keeps the status of the stage.
LEMMA CheckpointOrder ==
  ASSUME WorkflowInv, NEW s \in Stages, NEW a \in Attempts \ {0}, NEW state \in {"wait", "done"},
         Checkpoint(s, a, state)
  PROVE  Order(workflow', stages') /\ StagesKept(stages, stages')
<1> DEFINE marked == [stages[s] EXCEPT !.checkpoint = state]
<1>0. Order(workflow, stages)
  BY DEF WorkflowInv
<1>1. /\ stages' = [stages EXCEPT ![s] = marked] /\ workflow' = workflow
      /\ stages[s].status = "running"
  BY DEF Checkpoint, CurrentRun
<1>2. marked \in Stage /\ marked.status = "running"
  BY <1>0, <1>1 DEF Order, Stage
<1> HIDE DEF marked
<1> QED BY <1>0, <1>1, <1>2, StageMoves

\* markWaiting
LEMMA WaitingOrder ==
  ASSUME WorkflowInv, NEW s \in Stages, NEW a \in Attempts \ {0}, MarkWaiting(s, a)
  PROVE  Order(workflow', stages') /\ StagesKept(stages, stages')
<1> DEFINE waits == [stages[s] EXCEPT !.status = "waiting"]
<1>0. Order(workflow, stages) /\ workflow \in Workflow
  BY DEF WorkflowInv, Order
<1>1. /\ stages' = [stages EXCEPT ![s] = waits]
      /\ workflow' = [workflow EXCEPT !.status = "waiting"]
      /\ stages[s].status = "running" /\ workflow.status = "running"
  BY DEF MarkWaiting, CurrentRun
<1>2. waits \in Stage /\ waits.status = "waiting"
  BY <1>0 DEF Order, Stage
<1> HIDE DEF waits
<1>3. Order(workflow, stages') /\ StagesKept(stages, stages')
  BY <1>0, <1>1, <1>2, StageMoves
<1>4. /\ workflow' \in Workflow /\ workflow'.completed = workflow.completed
      /\ workflow'.run = workflow.run /\ workflow'.requested = workflow.requested
      /\ workflow'.stage = workflow.stage /\ workflow'.status = "waiting"
  BY <1>0, <1>1 DEF Workflow
<1> QED BY <1>1, <1>3, <1>4 DEF Order, Ends

\* The stage of the Run that was current waits for another Run.
LEMMA DeferOrder ==
  ASSUME WorkflowInv, NEW w \in Workers, DeferStage(w)
  PROVE  Order(workflow', stages') /\ StagesKept(stages, stages')
<1> DEFINE s == work[w].stage
           deferred == [stages[s] EXCEPT !.status = "waiting", !.run = 0, !.checkpoint = "none"]
<1>0. /\ Order(workflow, stages) /\ workflow \in Workflow /\ WorkSound(work[w], stages)
      /\ work[w] \in Work
  BY DEF WorkflowInv, Order, WorkflowsTypeOK
<1>1. CASE ~(Exists /\ StillDeferrable(w))
  BY <1>0, <1>1 DEF DeferStage, StagesKept
<1>2. CASE Exists /\ StillDeferrable(w)
  <2>1. s \in Stages
    BY <1>0 DEF DeferStage, WorkSound, AtStage
  <2>2. /\ workflow.run = <<s, work[w].attempt>> /\ workflow.deferrals < MaxDeferrals
        /\ stages' = [stages EXCEPT ![s] = deferred]
        /\ workflow' = [workflow EXCEPT !.run = NoRun, !.stage = s,
             !.deferrals = workflow.deferrals + 1, !.status = "waiting", !.wait = "until"]
    BY <1>2 DEF DeferStage, StillDeferrable
  <2>3. workflow.run # NoRun /\ stages[s].status \in {"running", "waiting"}
    BY <1>0, <2>1, <2>2 DEF Order, NoRun, Stages
  <2> HIDE DEF s
  <2>4. deferred \in Stage /\ deferred.status = "waiting"
    <3>1. stages[s] \in Stage /\ 0 \in Attempts
      BY <1>0, <2>1, WorkflowsAssumption DEF Order, Attempts
    <3> QED BY <3>1 DEF Stage
  <2> HIDE DEF deferred
  <2>5. Order(workflow, stages') /\ StagesKept(stages, stages')
    BY <1>0, <2>1, <2>2, <2>3, <2>4, StageMoves
  <2>6. /\ workflow' \in Workflow /\ workflow'.completed = workflow.completed
        /\ workflow'.run = NoRun /\ workflow'.requested = workflow.requested
        /\ workflow'.status = "waiting"
    <3>1. workflow.deferrals + 1 \in 0..MaxDeferrals
      BY <1>0, <2>2, WorkflowsAssumption, WorkflowFields
    <3> QED BY <1>0, <2>1, <2>2, <3>1 DEF Workflow
  <2> QED BY <2>5, <2>6 DEF Order
<1> QED BY <1>1, <1>2

\* complete counts the stage of the current Run if it ends completed.
LEMMA FinalizeOrder ==
  ASSUME WorkflowInv, NEW w \in Workers, FinalizeStage(w)
  PROVE  Order(workflow', stages') /\ StagesKept(stages, stages')
<1> DEFINE s == work[w].stage
           ended == [stages[s] EXCEPT !.status = StageEnd(w)]
           status == NextStatus(w, s)
           count == IF StageEnd(w) = "completed" THEN workflow.completed + 1 ELSE workflow.completed
           attached == work[w].result = "completed" /\ s = LastStage /\ status = "completed"
<1>0. /\ Order(workflow, stages) /\ workflow \in Workflow /\ WorkSound(work[w], stages)
      /\ work[w] \in Work
  BY DEF WorkflowInv, Order, WorkflowsTypeOK
<1>1. CASE ~Finalizable(w)
  BY <1>0, <1>1 DEF FinalizeStage, StagesKept
<1>2. CASE Finalizable(w)
  <2>1. /\ s \in Stages /\ work[w].result \in {"completed", "missing", "failed", "cancelled"}
        /\ workflow.run = <<s, work[w].attempt>>
    BY <1>0, <1>2 DEF FinalizeStage, WorkSound, AtStage, Work, Finalizable
  <2>2. /\ workflow.run # NoRun /\ stages[s].status \in {"running", "waiting"}
        /\ s = workflow.completed + 1
    BY <1>0, <2>1 DEF Order, NoRun, Stages
  <2>3. /\ stages' = [stages EXCEPT ![s] = ended]
        /\ workflow' = [workflow EXCEPT !.status = status, !.run = NoRun, !.stage = 0,
             !.wait = "none", !.completed = count, !.attached = attached]
    BY <1>2, <2>2 DEF FinalizeStage
  <2>4. /\ StageEnd(w) \in {"completed", "failed", "cancelled"}
        /\ status \in {"running", "completed", "failed", "cancelled"}
        /\ workflow.requested => status = "cancelled"
    BY <1>0, <2>1, WorkflowFields DEF StageEnd, NextStatus
  <2> HIDE DEF s, status, attached
  <2>5. ended \in Stage /\ ended.status = StageEnd(w)
    BY <1>0, <2>1, <2>4 DEF Order, Stage
  <2> HIDE DEF ended
  <2>6. count \in {0} \cup Stages
    BY <1>0, <2>1, <2>2, WorkflowFields
  <2>7. attached \in BOOLEAN
    BY DEF attached
  <2>8. /\ workflow' \in Workflow /\ workflow'.completed = count
        /\ workflow'.run = NoRun /\ workflow'.requested = workflow.requested
        /\ workflow'.status = status
    <3> HIDE DEF count
    <3> QED BY <1>0, <2>3, <2>4, <2>6, <2>7 DEF Workflow
  <2>9. /\ stages' \in [Stages -> Stage] /\ stages'[s].status = StageEnd(w)
        /\ \A o \in Stages \ {s} : stages'[o] = stages[o]
    BY <1>0, <2>1, <2>3, <2>5 DEF Order
  <2>10. \A o \in Stages : stages'[o].status = "completed" <=> o <= count
    BY <1>0, <2>1, <2>2, <2>9, WorkflowFields DEF Order, Stages
  <2>11. Order(workflow', stages')
    BY <2>4, <2>8, <2>9, <2>10 DEF Order
  <2> QED BY <1>0, <2>2, <2>9, <2>11 DEF StagesKept
<1> QED BY <1>1, <1>2

\* A stage is cancelled only if it waits or runs, and then no Run is current.
LEMMA CancelledOrder ==
  ASSUME WorkflowInv, NEW s \in {0} \cup Stages
  PROVE  /\ Order(Cancelled, CancelledStages(s)) /\ StagesKept(stages, CancelledStages(s))
<1> DEFINE cancelled == [stages[s] EXCEPT !.status = "cancelled"]
<1>0. Order(workflow, stages) /\ workflow \in Workflow
  BY DEF WorkflowInv, Order
<1>1. /\ Cancelled \in Workflow /\ Cancelled.completed = workflow.completed
      /\ Cancelled.run = NoRun /\ Cancelled.status = "cancelled"
  BY <1>0 DEF Cancelled, Workflow
<1>2. Order(Cancelled, stages)
  BY <1>0, <1>1 DEF Order
<1>3. CASE CancelledStages(s) = stages
  BY <1>2, <1>3 DEF StagesKept
<1>4. CASE CancelledStages(s) # stages
  <2>1. /\ s \in Stages /\ stages[s].status \in {"running", "waiting"}
        /\ CancelledStages(s) = [stages EXCEPT ![s] = cancelled]
    BY <1>4 DEF CancelledStages
  <2>2. cancelled \in Stage /\ cancelled.status = "cancelled"
    BY <1>0, <2>1 DEF Order, Stage
  <2> HIDE DEF cancelled
  <2>3. ~(Cancelled.run # NoRun)
    BY <1>1
  <2>4. /\ Order(Cancelled, [stages EXCEPT ![s] = cancelled])
        /\ StagesKept(stages, [stages EXCEPT ![s] = cancelled])
    <3> HIDE DEF Cancelled
    <3> QED BY <1>2, <2>1, <2>2, <2>3, StageMoves
  <2> QED BY <2>1, <2>4
<1> QED BY <1>3, <1>4

\* cancel and failRuntime
LEMMA CancelOrder ==
  ASSUME WorkflowInv,
         FailRuntime \/ \E w \in Workers : Cancel(w) \/ FinishCancel(w)
  PROVE  Order(workflow', stages') /\ StagesKept(stages, stages')
<1>0. /\ Order(workflow, stages) /\ workflow \in Workflow
      /\ \A w \in Workers : work[w] \in Work
  BY DEF WorkflowInv, Order, WorkflowsTypeOK
<1>1. ASSUME NEW w \in Workers, Cancel(w)
      PROVE  Order(workflow', stages') /\ StagesKept(stages, stages')
  <2>1. CASE Quiet
    <3>1. workflow.stage \in {0} \cup Stages
      BY <1>0, WorkflowFields
    <3> QED BY <1>1, <2>1, <3>1, CancelledOrder DEF Cancel
  <2>2. CASE ~Quiet
    <3>1. workflow' = [workflow EXCEPT !.status = "cancelling", !.requested = TRUE]
          /\ stages' = stages /\ ~Terminal /\ Exists
      BY <1>1, <2>2 DEF Cancel
    <3>2. /\ workflow' \in Workflow /\ workflow'.completed = workflow.completed
          /\ workflow'.run = workflow.run /\ workflow'.stage = workflow.stage
          /\ workflow'.status = "cancelling"
      BY <1>0, <3>1 DEF Workflow
    <3> QED BY <1>0, <3>1, <3>2 DEF Order, StagesKept, Terminal, Exists
  <2> QED BY <2>1, <2>2
<1>2. ASSUME NEW w \in Workers, FinishCancel(w)
      PROVE  Order(workflow', stages') /\ StagesKept(stages, stages')
  <2>1. CASE Exists
    <3>1. work[w].stage \in {0} \cup Stages
      BY <1>0 DEF Work
    <3> QED BY <1>2, <2>1, <3>1, CancelledOrder DEF FinishCancel
  <2>2. CASE ~Exists
    BY <1>0, <1>2, <2>2 DEF FinishCancel, StagesKept
  <2> QED BY <2>1, <2>2
<1>3. CASE FailRuntime
  <2> DEFINE s == IF workflow.stage # 0 THEN workflow.stage
              ELSE IF workflow.completed < LastStage THEN workflow.completed + 1 ELSE LastStage
             end == IF workflow.requested THEN "cancelled" ELSE "failed"
             ended == [stages[s] EXCEPT !.status = end]
  <2>1. s \in Stages
    BY <1>0, WorkflowsAssumption, WorkflowFields DEF Stages
  <2>2. /\ workflow' = [workflow EXCEPT !.status = end, !.run = NoRun, !.stage = 0, !.wait = "none"]
        /\ \/ stages' = stages
           \/ /\ stages[s].status \in {"pending", "running", "waiting"}
              /\ stages' = [stages EXCEPT ![s] = ended]
    BY <1>3 DEF FailRuntime
  <2>3. end \in {"cancelled", "failed"} /\ (workflow.requested => end = "cancelled")
    OBVIOUS
  <2> HIDE DEF s, end
  <2>4. ended \in Stage /\ ended.status = end
    BY <1>0, <2>1, <2>3 DEF Order, Stage
  <2> HIDE DEF ended
  <2>5. /\ workflow' \in Workflow /\ workflow'.completed = workflow.completed
        /\ workflow'.run = NoRun /\ workflow'.status = end
        /\ workflow'.requested = workflow.requested
    BY <1>0, <2>2, <2>3 DEF Workflow
  <2>6. Order(workflow', stages)
    BY <1>0, <2>3, <2>5 DEF Order
  <2>7. CASE stages' = stages
    BY <2>6, <2>7 DEF StagesKept
  <2>8. CASE stages' = [stages EXCEPT ![s] = ended] /\ stages[s].status \in {"pending", "running", "waiting"}
    BY <2>1, <2>3, <2>4, <2>5, <2>6, <2>8, StageMoves
  <2> QED BY <2>2, <2>7, <2>8
<1> QED BY <1>1, <1>2, <1>3

\* Whatever a step makes of the row, the stages stay in their order.
LEMMA RowOrder ==
  ASSUME WorkflowInv, WorkflowsNext
  PROVE  Order(workflow', stages') /\ StagesKept(stages, stages')
<1>0. Order(workflow, stages) /\ workflow \in Workflow
  BY DEF WorkflowInv, Order
<1>1. CASE UNCHANGED <<workflow, stages>>
  BY <1>0, <1>1 DEF StagesKept
<1>2. ASSUME stages' = stages, Order(workflow', stages')
      PROVE  Order(workflow', stages') /\ StagesKept(stages, stages')
  BY <1>2 DEF StagesKept
<1>3. ASSUME NEW w \in Workers, WorkerNext(w)
      PROVE  Order(workflow', stages') /\ StagesKept(stages, stages')
  <2>0. WorkSound(work[w], stages)
    BY DEF WorkflowInv
  <2>1. ASSUME NEW s \in Stages, Dispatch(w, s) \/ Complete(w, s)
        PROVE  Order(workflow', stages') /\ StagesKept(stages, stages')
    BY <1>1, <1>2, <2>1, AdvanceOrder DEF Complete
  <2>2. ASSUME NEW available \in BOOLEAN, Materialize(w, available)
        PROVE  Order(workflow', stages') /\ StagesKept(stages, stages')
    <3>1. work[w].stage \in Stages
      BY <2>0, <2>2 DEF Materialize, WorkSound, AtStage
    <3> QED BY <1>1, <2>2, <3>1, FailOrder DEF Materialize
  <2>3. ASSUME NEW admitted \in BOOLEAN, NEW answer \in {"ok", "refused", "unavailable"},
               StartStageRun(w, admitted, answer)
        PROVE  Order(workflow', stages') /\ StagesKept(stages, stages')
    <3>1. work[w].stage \in Stages
      BY <2>0, <2>3 DEF StartStageRun, WorkSound, AtStage
    <3>2. \/ UNCHANGED <<workflow, stages>> \/ FailBeforeDispatch(work[w].stage)
          \/ ReleaseReservation(work[w].stage) /\ stages' = stages
      BY <2>3 DEF StartStageRun
    <3> QED BY <1>1, <1>2, <3>1, <3>2, FailOrder, ReleaseOrder
  <2>4. ASSUME NEW succeeds \in BOOLEAN,
               \/ AbortStageRun(w, succeeds) \/ AttachStageRun(w, succeeds)
               \/ CancelCurrentRun(w, succeeds) \/ CommitDeliverable(w, succeeds)
               \/ DeleteSession(w, succeeds) \/ DeleteObject(w, succeeds) \/ DropObject(w, succeeds)
        PROVE  UNCHANGED <<workflow, stages>>
    BY <2>4 DEF AbortStageRun, AttachStageRun, CancelCurrentRun, CommitDeliverable,
                DeleteSession, DeleteObject, DropObject
  <2>5. ASSUME NEW answered \in BOOLEAN, NEW output \in BOOLEAN,
               InspectStageRun(w, answered, output)
        PROVE  UNCHANGED <<workflow, stages>>
    BY <2>5 DEF InspectStageRun
  <2>6. ASSUME AbandonWork(w)
        PROVE  UNCHANGED <<workflow, stages>>
    BY <2>6 DEF AbandonWork
  <2>7. CASE DeleteRow(w)
    <3>1. /\ workflow' \in Workflow /\ workflow'.completed = workflow.completed
          /\ workflow'.run = workflow.run /\ workflow'.requested = workflow.requested
          /\ workflow'.status = "deleted" /\ stages' = stages
      BY <1>0, <2>7 DEF DeleteRow, Workflow
    <3>2. Order(workflow', stages')
      BY <1>0, <3>1 DEF Order
    <3> QED BY <1>2, <3>1, <3>2
  <2>8. CASE ClaimStageRun(w)
    BY <2>8, ClaimOrder
  <2>9. CASE DeferStage(w)
    BY <2>9, DeferOrder
  <2>10. CASE FinalizeStage(w)
    BY <2>10, FinalizeOrder
  <2>11. CASE Cancel(w) \/ FinishCancel(w)
    BY <2>11, CancelOrder
  <2> QED BY <1>1, <1>3, <2>1, <2>2, <2>3, <2>4, <2>5, <2>6, <2>7, <2>8, <2>9, <2>10, <2>11
          DEF WorkerNext
<1>4. CASE StartWorkflow \/ RuntimeStarted \/ WaitPasses
  BY <1>2, <1>4, AdvanceOrder
<1>5. CASE FailRuntime
  BY <1>5, CancelOrder
<1>6. ASSUME NEW s \in Stages, PrepareStage(s) \/ DispatchRefused(s)
      PROVE  Order(workflow', stages') /\ StagesKept(stages, stages')
  BY <1>2, <1>6, AdvanceOrder, FailOrder DEF DispatchRefused
<1>7. ASSUME NEW s \in Stages, NEW a \in Attempts \ {0}, NEW state \in {"wait", "done"},
             Checkpoint(s, a, state)
      PROVE  Order(workflow', stages') /\ StagesKept(stages, stages')
  BY <1>7, CheckpointOrder
<1>8. ASSUME NEW s \in Stages, NEW a \in Attempts \ {0}, MarkWaiting(s, a)
      PROVE  Order(workflow', stages') /\ StagesKept(stages, stages')
  BY <1>8, WaitingOrder
<1>9. ASSUME NEW s \in Stages, NEW a \in Attempts \ {0}, NEW result \in Ends,
             StageRunEnds(s, a, result)
      PROVE  UNCHANGED <<workflow, stages>>
  BY <1>9 DEF StageRunEnds
<1>10. CASE DeleteWorkflow \/ ExpireWorkflow \/ ResumeDeletion \/ LeaseEnds \/ RecoverDeliverable
  BY <1>1, <1>10 DEF DeleteWorkflow, ExpireWorkflow, ResumeDeletion, LeaseEnds, RecoverDeliverable
<1> QED BY <1>1, <1>3, <1>4, <1>5, <1>6, <1>7, <1>8, <1>9, <1>10 DEF WorkflowsNext

-----------------------------------------------------------------------------

(* The Runs of the stages, and the workers *)

\* A Run ends, is cancelled, or is admitted by a worker that reserved its stage.
LEMMA StageRunsFollow ==
  ASSUME WorkflowInv, WorkflowsNext
  PROVE  /\ stageRuns' \in [Stages -> [Attempts \ {0} -> {"none", "working"} \cup Ends]]
         /\ RunsFollow(stageRuns', stages')
<1>0. /\ stageRuns \in [Stages -> [Attempts \ {0} -> {"none", "working"} \cup Ends]]
      /\ RunsFollow(stageRuns, stages) /\ stages \in [Stages -> Stage]
      /\ \A w \in Workers : WorkSound(work[w], stages)
  BY DEF WorkflowInv, WorkflowsTypeOK
<1>1. /\ StagesKept(stages, stages') /\ \A s \in Stages : 1..(s - 1) \subseteq Stages
  BY RowOrder, WorkflowsAssumption DEF Stages
<1>2. ASSUME NEW made \in [Stages -> [Attempts \ {0} -> {"none", "working"} \cup Ends]],
             RunsFollow(made, stages)
      PROVE  RunsFollow(made, stages')
  BY <1>1, <1>2 DEF RunsFollow, StagesKept
<1>3. CASE UNCHANGED stageRuns
  BY <1>0, <1>2, <1>3
<1>4. ASSUME NEW s, NEW a, NEW v \in {"working"} \cup Ends,
             stageRuns' = [stageRuns EXCEPT ![s][a] = v],
             s \in Stages /\ a \in Attempts \ {0} =>
               \/ stageRuns[s][a] # "none"
               \/ \A earlier \in 1..(s - 1) : stages[earlier].status = "completed"
      PROVE  /\ stageRuns' \in [Stages -> [Attempts \ {0} -> {"none", "working"} \cup Ends]]
             /\ RunsFollow(stageRuns', stages')
  <2>1. stageRuns' \in [Stages -> [Attempts \ {0} -> {"none", "working"} \cup Ends]]
    BY <1>0, <1>4
  <2>2. \A t \in Stages, b \in Attempts \ {0} :
          stageRuns'[t][b] # "none" => stageRuns[t][b] # "none" \/ (t = s /\ b = a)
    BY <1>0, <1>4
  <2>3. RunsFollow(stageRuns', stages)
    BY <1>0, <1>4, <2>2 DEF RunsFollow
  <2> QED BY <1>2, <2>1, <2>3
<1>5. ASSUME NEW s, NEW a, NEW succeeds, CancelRun(s, a, succeeds)
      PROVE  /\ stageRuns' \in [Stages -> [Attempts \ {0} -> {"none", "working"} \cup Ends]]
             /\ RunsFollow(stageRuns', stages')
  BY <1>3, <1>4, <1>5 DEF CancelRun, Ends
<1>6. ASSUME NEW w \in Workers, NEW admitted \in BOOLEAN,
             NEW answer \in {"ok", "refused", "unavailable"}, StartStageRun(w, admitted, answer)
      PROVE  /\ stageRuns' \in [Stages -> [Attempts \ {0} -> {"none", "working"} \cup Ends]]
             /\ RunsFollow(stageRuns', stages')
  <2>1. \A earlier \in 1..(work[w].stage - 1) : stages[earlier].status = "completed"
    BY <1>0, <1>6 DEF StartStageRun, WorkSound
  <2> QED BY <1>3, <1>4, <1>6, <2>1 DEF StartStageRun
<1>7. ASSUME NEW s \in Stages, NEW a \in Attempts \ {0}, NEW result \in Ends, StageRunEnds(s, a, result)
      PROVE  /\ stageRuns' \in [Stages -> [Attempts \ {0} -> {"none", "working"} \cup Ends]]
             /\ RunsFollow(stageRuns', stages')
  BY <1>4, <1>7 DEF StageRunEnds
<1>8. ASSUME NEW w \in Workers, WorkerNext(w)
      PROVE  /\ stageRuns' \in [Stages -> [Attempts \ {0} -> {"none", "working"} \cup Ends]]
             /\ RunsFollow(stageRuns', stages')
  <2>1. ASSUME NEW s \in Stages, Dispatch(w, s) \/ Complete(w, s)
        PROVE  UNCHANGED stageRuns
    BY <2>1 DEF Dispatch, Complete
  <2>2. ASSUME NEW flag \in BOOLEAN,
               \/ Materialize(w, flag) \/ CommitDeliverable(w, flag) \/ DeleteSession(w, flag)
               \/ DeleteObject(w, flag) \/ DropObject(w, flag)
        PROVE  UNCHANGED stageRuns
    BY <2>2 DEF Materialize, CommitDeliverable, DeleteSession, DeleteObject, DropObject
  <2>3. ASSUME NEW succeeds \in BOOLEAN,
               AbortStageRun(w, succeeds) \/ AttachStageRun(w, succeeds) \/ CancelCurrentRun(w, succeeds)
        PROVE  /\ stageRuns' \in [Stages -> [Attempts \ {0} -> {"none", "working"} \cup Ends]]
               /\ RunsFollow(stageRuns', stages')
    BY <1>3, <1>5, <2>3 DEF AbortStageRun, AttachStageRun, CancelCurrentRun
  <2>4. ASSUME NEW answered \in BOOLEAN, NEW output \in BOOLEAN,
               InspectStageRun(w, answered, output)
        PROVE  UNCHANGED stageRuns
    BY <2>4 DEF InspectStageRun
  <2>5. CASE \/ ClaimStageRun(w) \/ DeferStage(w) \/ FinalizeStage(w) \/ Cancel(w)
             \/ FinishCancel(w) \/ DeleteRow(w) \/ AbandonWork(w)
    BY <1>3, <2>5 DEF ClaimStageRun, DeferStage, FinalizeStage, Cancel, FinishCancel, DeleteRow,
                      AbandonWork
  <2> QED BY <1>3, <1>6, <1>8, <2>1, <2>2, <2>3, <2>4, <2>5 DEF WorkerNext
<1>9. CASE StartWorkflow \/ RuntimeStarted \/ WaitPasses \/ FailRuntime
  BY <1>3, <1>9 DEF StartWorkflow, RuntimeStarted, WaitPasses, FailRuntime
<1>10. ASSUME NEW s \in Stages, PrepareStage(s) \/ DispatchRefused(s)
      PROVE  UNCHANGED stageRuns
  BY <1>10 DEF PrepareStage, DispatchRefused
<1>11. ASSUME NEW s \in Stages, NEW a \in Attempts \ {0},
              MarkWaiting(s, a) \/ \E state \in {"wait", "done"} : Checkpoint(s, a, state)
      PROVE  UNCHANGED stageRuns
  BY <1>11 DEF MarkWaiting, Checkpoint
<1>12. CASE DeleteWorkflow \/ ExpireWorkflow \/ ResumeDeletion \/ LeaseEnds \/ RecoverDeliverable
  BY <1>3, <1>12 DEF DeleteWorkflow, ExpireWorkflow, ResumeDeletion, LeaseEnds, RecoverDeliverable
<1> QED BY <1>3, <1>7, <1>8, <1>9, <1>10, <1>11, <1>12 DEF WorkflowsNext

\* A worker whose step is about no stage, or no new one.
LEMMA WorkMoves ==
  ASSUME WorkflowInv, StagesKept(stages, stages'), NEW w \in Workers, NEW x \in Work,
         work' = [work EXCEPT ![w] = x], WorkSound(x, stages)
  PROVE  work' \in [Workers -> Work] /\ \A v \in Workers : WorkSound(work'[v], stages')
<1>0. work \in [Workers -> Work] /\ \A v \in Workers : WorkSound(work[v], stages)
  BY DEF WorkflowInv, WorkflowsTypeOK
<1>1. \A y \in Work : WorkSound(y, stages) => WorkSound(y, stages')
  <2>1. \A s \in {0} \cup Stages : 1..(s - 1) \subseteq Stages
    BY WorkflowsAssumption DEF Stages
  <2>2. \A y \in Work : y.stage \in {0} \cup Stages
    BY DEF Work
  <2> QED BY <2>1, <2>2 DEF WorkSound, StagesKept
<1>2. work' \in [Workers -> Work] /\ work'[w] = x /\ \A v \in Workers \ {w} : work'[v] = work[v]
  BY <1>0
<1> QED BY <1>0, <1>1, <1>2

\* A worker goes on from one step to another of the same stage and attempt.
LEMMA WorkBecomes ==
  ASSUME WorkflowInv, NEW w \in Workers, NEW step,
         step \in {"idle", "start", "claim", "abort", "attached", "defer", "finalize",
                   "finishCancel", "deleteObject", "deleteRow", "dropObject"},
         work[w].step \in AtStage \/ step \notin AtStage,
         step = "finalize" => work[w].step = "commit",
         step \in {"start", "claim"} => work[w].step \in {"materialize", "start"}
  PROVE  /\ [work[w] EXCEPT !.step = step] \in Work
         /\ WorkSound([work[w] EXCEPT !.step = step], stages)
<1>0. work[w] \in Work /\ WorkSound(work[w], stages)
  BY DEF WorkflowInv, WorkflowsTypeOK
<1> DEFINE x == [work[w] EXCEPT !.step = step]
<1>1. /\ x \in Work /\ x.step = step /\ x.stage = work[w].stage /\ x.attempt = work[w].attempt
      /\ x.result = work[w].result
  BY <1>0 DEF Work
<1> HIDE DEF x
<1>2. WorkSound(x, stages)
  BY <1>0, <1>1 DEF WorkSound
<1> QED BY <1>1, <1>2 DEF x

\* A worker that rests.
LEMMA RestSound == NoWork \in Work /\ WorkSound(NoWork, stages)
BY WorkflowsAssumption DEF NoWork, Work, WorkSound, AtStage, Attempts

\* A worker that begins to complete a stage knows its Run.
LEMMA CompletionSound ==
  ASSUME WorkflowInv, NEW w \in Workers, NEW s \in Stages, Completable(s), BeginCompletion(w, s)
  PROVE  \E x \in Work : work' = [work EXCEPT ![w] = x] /\ WorkSound(x, stages)
<1>0. workflow \in Workflow /\ stages[s] \in Stage
  BY DEF WorkflowInv, WorkflowsTypeOK
<1> DEFINE x == [NoWork EXCEPT !.step = "inspect", !.stage = s, !.attempt = stages[s].run,
                   !.requested = workflow.requested, !.checkpoint = stages[s].checkpoint]
<1>1. /\ stages[s].run \in Attempts \ {0} /\ workflow.requested \in BOOLEAN
      /\ stages[s].checkpoint \in {"none", "wait", "done"}
  BY <1>0, WorkflowFields DEF Completable, Stage
<1>2. x \in Work /\ x.step = "inspect" /\ x.stage = s /\ x.attempt = stages[s].run
  BY <1>1 DEF Work, NoWork
<1>3. work' = [work EXCEPT ![w] = x]
  BY DEF BeginCompletion
<1> HIDE DEF x
<1>4. WorkSound(x, stages)
  BY <1>1, <1>2 DEF WorkSound
<1> QED BY <1>2, <1>3, <1>4

\* What each step makes of the workers.
LEMMA WorkersSound ==
  ASSUME WorkflowInv, WorkflowsNext
  PROVE  work' \in [Workers -> Work] /\ \A v \in Workers : WorkSound(work'[v], stages')
<1>0. /\ work \in [Workers -> Work] /\ workflow \in Workflow /\ stages \in [Stages -> Stage]
      /\ Order(workflow, stages) /\ \A v \in Workers : WorkSound(work[v], stages)
  BY DEF WorkflowInv, WorkflowsTypeOK
<1>1. StagesKept(stages, stages')
  BY RowOrder
<1>2. CASE UNCHANGED work
  <2>1. PICK w \in Workers : TRUE
    BY DEF Workers
  <2>2. work' = [work EXCEPT ![w] = work[w]]
    BY <1>0, <1>2
  <2>3. work[w] \in Work
    BY <1>0
  <2> QED BY <1>0, <1>1, <2>2, <2>3, WorkMoves
<1>3. ASSUME NEW w \in Workers, NEW step, Become(w, step),
             step \in {"start", "claim", "abort", "attached", "defer", "finalize",
                       "finishCancel", "deleteObject", "deleteRow", "dropObject"},
             work[w].step \in AtStage \/ step \notin AtStage,
             step = "finalize" => work[w].step = "commit",
             step \in {"start", "claim"} => work[w].step \in {"materialize", "start"}
      PROVE  work' \in [Workers -> Work] /\ \A v \in Workers : WorkSound(work'[v], stages')
  <2>1. work' = [work EXCEPT ![w] = [work[w] EXCEPT !.step = step]]
    BY <1>3 DEF Become
  <2>2. /\ [work[w] EXCEPT !.step = step] \in Work
        /\ WorkSound([work[w] EXCEPT !.step = step], stages)
    BY <1>3, WorkBecomes
  <2> QED BY <1>1, <2>1, <2>2, WorkMoves
<1>4. ASSUME NEW w \in Workers, Rest(w)
      PROVE  work' \in [Workers -> Work] /\ \A v \in Workers : WorkSound(work'[v], stages')
  BY <1>1, <1>4, RestSound, WorkMoves DEF Rest
<1>5. ASSUME NEW w \in Workers, work' = [work EXCEPT ![w] = [NoWork EXCEPT !.step = "deleteSession"]]
      PROVE  work' \in [Workers -> Work] /\ \A v \in Workers : WorkSound(work'[v], stages')
  <2> DEFINE x == [NoWork EXCEPT !.step = "deleteSession"]
  <2>1. x \in Work /\ WorkSound(x, stages)
    BY RestSound DEF NoWork, Work, WorkSound, AtStage
  <2> HIDE DEF x
  <2>2. work' = [work EXCEPT ![w] = x]
    BY <1>5 DEF x
  <2> QED BY <1>1, <2>1, <2>2, WorkMoves
<1>6. ASSUME NEW w \in Workers, NEW s \in Stages, Completable(s), BeginCompletion(w, s)
      PROVE  work' \in [Workers -> Work] /\ \A v \in Workers : WorkSound(work'[v], stages')
  <2>1. PICK x \in Work : work' = [work EXCEPT ![w] = x] /\ WorkSound(x, stages)
    BY <1>6, CompletionSound
  <2> QED BY <1>1, <2>1, WorkMoves
<1>7. ASSUME NEW w \in Workers, NEW s \in Stages, Dispatch(w, s)
      PROVE  work' \in [Workers -> Work] /\ \A v \in Workers : WorkSound(work'[v], stages')
  <2> DEFINE x == [NoWork EXCEPT !.step = "materialize", !.stage = s,
                                 !.attempt = stages[s].attempts + 1]
  <2>1. stages[s].attempts + 1 \in Attempts \ {0}
    BY <1>0, <1>7, WorkflowsAssumption DEF Dispatch, Stage, Attempts
  <2>2. x \in Work /\ x.step = "materialize" /\ x.stage = s /\ x.attempt = stages[s].attempts + 1
    BY <2>1 DEF Work, NoWork
  <2>3. work' = [work EXCEPT ![w] = x]
    BY <1>7 DEF Dispatch
  <2> HIDE DEF x
  <2>4. \A earlier \in 1..(s - 1) : stages[earlier].status = "completed"
    <3>1. workflow.completed = s - 1
      BY <1>7 DEF Dispatch, Reservable, NextStage
    <3> QED BY <1>0, <3>1, WorkflowsAssumption DEF Order, Stages
  <2>5. WorkSound(x, stages)
    BY <2>1, <2>2, <2>4 DEF WorkSound
  <2> QED BY <1>1, <2>2, <2>3, <2>5, WorkMoves
<1>8. ASSUME NEW w \in Workers, NEW answered \in BOOLEAN, NEW output \in BOOLEAN,
             InspectStageRun(w, answered, output)
      PROVE  work' \in [Workers -> Work] /\ \A v \in Workers : WorkSound(work'[v], stages')
  <2>1. work[w].step = "inspect"
    BY <1>8 DEF InspectStageRun
  <2>2. CASE Rest(w)
    BY <1>4, <2>2
  <2>3. CASE Become(w, "defer")
    BY <1>3, <2>1, <2>3 DEF AtStage
  <2>4. ASSUME NEW step \in {"commit", "finalize"}, NEW result \in {"missing"} \cup Ends,
               work' = [work EXCEPT ![w].step = step, ![w].result = result]
        PROVE  work' \in [Workers -> Work] /\ \A v \in Workers : WorkSound(work'[v], stages')
    <3> DEFINE x == [work[w] EXCEPT !.step = step, !.result = result]
    <3>1. work' = [work EXCEPT ![w] = x]
      BY <1>0, <2>4
    <3>2. /\ x \in Work /\ x.step = step /\ x.result = result /\ x.stage = work[w].stage
          /\ x.attempt = work[w].attempt
      BY <1>0, <2>4 DEF Work, Ends
    <3> HIDE DEF x
    <3>3. WorkSound(x, stages)
      BY <1>0, <2>1, <2>4, <3>2 DEF WorkSound, AtStage, Ends
    <3> QED BY <1>1, <3>1, <3>2, <3>3, WorkMoves
  <2>5. \/ Rest(w) \/ Become(w, "defer")
        \/ \E step \in {"commit", "finalize"}, result \in {"missing"} \cup Ends :
             work' = [work EXCEPT ![w].step = step, ![w].result = result]
    <3>1. CASE ~answered \/ stageRuns[work[w].stage][work[w].attempt] \notin Ends
      BY <1>8, <3>1 DEF InspectStageRun
    <3>2. CASE answered /\ stageRuns[work[w].stage][work[w].attempt] \in Ends
      <4>1. StageResult(w) \in Ends
        BY <3>2 DEF StageResult, Ends
      <4> QED BY <1>8, <3>2, <4>1 DEF InspectStageRun, Ends
    <3> QED BY <3>1, <3>2
  <2> QED BY <2>2, <2>3, <2>4, <2>5
<1>9. ASSUME NEW w \in Workers, Cancel(w)
      PROVE  work' \in [Workers -> Work] /\ \A v \in Workers : WorkSound(work'[v], stages')
  <2>1. CASE UNCHANGED work
    BY <1>2, <2>1
  <2>2. CASE ~UNCHANGED work
    <3> DEFINE x == [NoWork EXCEPT !.step = "cancelRun", !.stage = workflow.stage,
                                   !.attempt = workflow.run[2]]
    <3>1. /\ work' = [work EXCEPT ![w] = x] /\ workflow.run # NoRun /\ ~Terminal /\ Exists
      BY <1>9, <2>2 DEF Cancel
    <3>2. workflow.run \in RunIds /\ workflow.stage = workflow.run[1]
      BY <1>0, <3>1 DEF Order, Terminal, Exists
    <3>3. workflow.stage \in Stages /\ workflow.run[2] \in Attempts \ {0}
      BY <3>2 DEF RunIds
    <3>4. /\ x \in Work /\ x.step = "cancelRun" /\ x.stage = workflow.stage
          /\ x.attempt = workflow.run[2]
      BY <3>3 DEF Work, NoWork
    <3> HIDE DEF x
    <3>5. WorkSound(x, stages)
      BY <3>3, <3>4 DEF WorkSound
    <3> QED BY <1>1, <3>1, <3>4, <3>5, WorkMoves
  <2> QED BY <2>1, <2>2
<1>10. ASSUME NEW w \in Workers, NEW succeeds \in BOOLEAN, CancelCurrentRun(w, succeeds)
      PROVE  work' \in [Workers -> Work] /\ \A v \in Workers : WorkSound(work'[v], stages')
  <2>1. work[w].step = "cancelRun" /\ work[w].stage \in Stages
    BY <1>0, <1>10 DEF CancelCurrentRun, WorkSound, AtStage
  <2>2. \/ Become(w, "finishCancel") \/ Rest(w)
        \/ Completable(work[w].stage) /\ BeginCompletion(w, work[w].stage)
    BY <1>10 DEF CancelCurrentRun
  <2> QED BY <1>3, <1>4, <1>6, <2>1, <2>2 DEF AtStage
<1>11. ASSUME NEW w \in Workers, WorkerNext(w)
      PROVE  work' \in [Workers -> Work] /\ \A v \in Workers : WorkSound(work'[v], stages')
  <2>1. ASSUME NEW s \in Stages, Dispatch(w, s) \/ Complete(w, s)
        PROVE  work' \in [Workers -> Work] /\ \A v \in Workers : WorkSound(work'[v], stages')
    BY <1>6, <1>7, <2>1 DEF Complete
  <2>2. ASSUME NEW flag \in BOOLEAN,
               \/ Materialize(w, flag) \/ CommitDeliverable(w, flag) \/ DeleteSession(w, flag)
               \/ DeleteObject(w, flag) \/ DropObject(w, flag) \/ AbortStageRun(w, flag)
               \/ AttachStageRun(w, flag)
        PROVE  work' \in [Workers -> Work] /\ \A v \in Workers : WorkSound(work'[v], stages')
    <3>1. \/ Rest(w)
          \/ work[w].step = "materialize" /\ Become(w, "start")
          \/ work[w].step = "commit" /\ Become(w, "finalize")
          \/ Become(w, "deleteObject") \/ Become(w, "deleteRow")
      BY <2>2 DEF Materialize, CommitDeliverable, DeleteSession, DeleteObject, DropObject,
                  AbortStageRun, AttachStageRun
    <3> QED BY <1>3, <1>4, <3>1 DEF AtStage
  <2>3. ASSUME NEW admitted \in BOOLEAN, NEW answer \in {"ok", "refused", "unavailable"},
               StartStageRun(w, admitted, answer)
        PROVE  work' \in [Workers -> Work] /\ \A v \in Workers : WorkSound(work'[v], stages')
    <3>1. work[w].step = "start" /\ (Become(w, "claim") \/ Rest(w))
      BY <2>3 DEF StartStageRun
    <3> QED BY <1>3, <1>4, <3>1 DEF AtStage
  <2>4. CASE ClaimStageRun(w)
    <3>1. work[w].step = "claim" /\ (Become(w, "attached") \/ Become(w, "abort"))
      BY <2>4 DEF ClaimStageRun
    <3> QED BY <1>3, <3>1 DEF AtStage
  <2>5. CASE DeferStage(w) \/ FinalizeStage(w) \/ FinishCancel(w) \/ DeleteRow(w) \/ AbandonWork(w)
    BY <1>4, <2>5 DEF DeferStage, FinalizeStage, FinishCancel, DeleteRow, AbandonWork
  <2> QED BY <1>8, <1>9, <1>10, <1>11, <2>1, <2>2, <2>3, <2>4, <2>5 DEF WorkerNext
<1>12. CASE StartWorkflow \/ RuntimeStarted \/ WaitPasses \/ FailRuntime \/ LeaseEnds
  BY <1>2, <1>12 DEF StartWorkflow, RuntimeStarted, WaitPasses, FailRuntime, LeaseEnds
<1>13. ASSUME NEW s \in Stages, PrepareStage(s) \/ DispatchRefused(s)
      PROVE  UNCHANGED work
  BY <1>13 DEF PrepareStage, DispatchRefused
<1>14. ASSUME NEW s \in Stages, NEW a \in Attempts \ {0},
              \/ MarkWaiting(s, a) \/ \E state \in {"wait", "done"} : Checkpoint(s, a, state)
              \/ \E result \in Ends : StageRunEnds(s, a, result)
      PROVE  UNCHANGED work
  BY <1>14 DEF MarkWaiting, Checkpoint, StageRunEnds
<1>15. CASE DeleteWorkflow \/ ExpireWorkflow \/ ResumeDeletion
  BY <1>5, <1>15 DEF DeleteWorkflow, ExpireWorkflow, ResumeDeletion, BeginDeletion, Workers
<1>16. CASE RecoverDeliverable
  BY <1>2, <1>3, <1>16 DEF RecoverDeliverable, AtStage, Workers
<1> QED BY <1>2, <1>11, <1>12, <1>13, <1>14, <1>15, <1>16 DEF WorkflowsNext

\* The deliverable and the deletion stay well typed.
LEMMA DeliverableTyped ==
  ASSUME WorkflowInv, WorkflowsNext
  PROVE  /\ deliverable' \in [object : BOOLEAN, intent : {"none", "leased", "expired"}]
         /\ deletion' \in [intent : {"none", "exact", "stale"}, marked : BOOLEAN, sessionGone : BOOLEAN]
<1>0. /\ deliverable \in [object : BOOLEAN, intent : {"none", "leased", "expired"}]
      /\ deletion \in [intent : {"none", "exact", "stale"}, marked : BOOLEAN, sessionGone : BOOLEAN]
  BY DEF WorkflowInv, WorkflowsTypeOK
<1> DEFINE Typed ==
      /\ deliverable' \in [object : BOOLEAN, intent : {"none", "leased", "expired"}]
      /\ deletion' \in [intent : {"none", "exact", "stale"}, marked : BOOLEAN, sessionGone : BOOLEAN]
<1>1. CASE UNCHANGED <<deliverable, deletion>>
  BY <1>0, <1>1
<1>2. CASE UNCHANGED deliverable /\ (RevisionMoves \/ UNCHANGED deletion)
  BY <1>0, <1>2 DEF RevisionMoves
<1>3. ASSUME NEW w \in Workers, WorkerNext(w)
      PROVE  Typed
  <2>1. ASSUME NEW s \in Stages, Dispatch(w, s) \/ Complete(w, s)
        PROVE  Typed
    BY <1>1, <1>2, <2>1 DEF Dispatch, Complete
  <2>2. ASSUME NEW flag \in BOOLEAN,
               \/ Materialize(w, flag) \/ AbortStageRun(w, flag) \/ AttachStageRun(w, flag)
               \/ CancelCurrentRun(w, flag)
        PROVE  Typed
    BY <1>1, <1>2, <2>2 DEF Materialize, FailBeforeDispatch, AbortStageRun, AttachStageRun,
                            CancelCurrentRun
  <2>3. ASSUME NEW admitted \in BOOLEAN, NEW answer \in {"ok", "refused", "unavailable"},
               StartStageRun(w, admitted, answer)
        PROVE  Typed
    BY <1>1, <1>2, <2>3 DEF StartStageRun, FailBeforeDispatch, ReleaseReservation
  <2>4. ASSUME NEW flag \in BOOLEAN,
               \/ CommitDeliverable(w, flag) \/ DeleteSession(w, flag) \/ DeleteObject(w, flag)
               \/ DropObject(w, flag) \/ \E answered, output \in BOOLEAN : InspectStageRun(w, answered, output)
        PROVE  Typed
    <3>1. CASE CommitDeliverable(w, flag) \/ DeleteObject(w, flag)
      BY <1>0, <3>1 DEF CommitDeliverable, DeleteObject
    <3>2. CASE DeleteSession(w, flag)
      BY <1>0, <3>2 DEF DeleteSession
    <3>3. CASE DropObject(w, flag)
      <4>1. UNCHANGED deletion /\ (UNCHANGED deliverable \/ Settle(FALSE))
        BY <3>3 DEF DropObject
      <4>2. UNCHANGED deletion /\ (UNCHANGED deliverable \/ \E attached \in BOOLEAN : Settle(attached))
        BY <4>1
      <4> QED BY <1>0, <4>2 DEF Settle
    <3>4. ASSUME NEW answered \in BOOLEAN, NEW output \in BOOLEAN,
                 InspectStageRun(w, answered, output)
          PROVE  Typed
      <4>1. /\ UNCHANGED deletion
            /\ UNCHANGED deliverable \/ deliverable' = [deliverable EXCEPT !.intent = "leased"]
        BY <3>4 DEF InspectStageRun
      <4> QED BY <1>0, <4>1
    <3> QED BY <2>4, <3>1, <3>2, <3>3, <3>4
  <2>5. CASE ClaimStageRun(w) \/ DeferStage(w) \/ Cancel(w) \/ FinishCancel(w) \/ AbandonWork(w)
    BY <1>1, <1>2, <2>5 DEF ClaimStageRun, DeferStage, Cancel, FinishCancel, AbandonWork
  <2>6. CASE FinalizeStage(w)
    <3>1. RevisionMoves \/ UNCHANGED deletion
      BY <2>6 DEF FinalizeStage
    <3>2. UNCHANGED deliverable \/ \E attached \in BOOLEAN : Settle(attached)
      <4>1. (NextStatus(w, work[w].stage) = "completed") \in BOOLEAN
        OBVIOUS
      <4>2. workflow.attached \in BOOLEAN
        BY WorkflowFields DEF WorkflowInv, WorkflowsTypeOK
      <4> QED BY <2>6, <4>1, <4>2 DEF FinalizeStage
    <3> QED BY <1>0, <3>1, <3>2 DEF RevisionMoves, Settle
  <2>7. CASE DeleteRow(w)
    BY <1>0, <2>7 DEF DeleteRow
  <2> QED BY <1>3, <2>1, <2>2, <2>3, <2>4, <2>5, <2>6, <2>7 DEF WorkerNext
<1>4. CASE StartWorkflow \/ RuntimeStarted \/ WaitPasses \/ FailRuntime
  BY <1>1, <1>2, <1>4 DEF StartWorkflow, RuntimeStarted, WaitPasses, FailRuntime
<1>5. ASSUME NEW s \in Stages, PrepareStage(s) \/ DispatchRefused(s)
      PROVE  Typed
  BY <1>1, <1>2, <1>5 DEF PrepareStage, DispatchRefused, FailBeforeDispatch
<1>6. ASSUME NEW s \in Stages, NEW a \in Attempts \ {0},
             \/ MarkWaiting(s, a) \/ \E state \in {"wait", "done"} : Checkpoint(s, a, state)
             \/ \E result \in Ends : StageRunEnds(s, a, result)
      PROVE  Typed
  BY <1>1, <1>2, <1>6 DEF MarkWaiting, Checkpoint, StageRunEnds
<1>7. CASE DeleteWorkflow \/ ExpireWorkflow \/ ResumeDeletion \/ LeaseEnds \/ RecoverDeliverable
  BY <1>0, <1>7 DEF DeleteWorkflow, ExpireWorkflow, ResumeDeletion, BeginDeletion, LeaseEnds,
                    RecoverDeliverable
<1> QED BY <1>3, <1>4, <1>5, <1>6, <1>7 DEF WorkflowsNext

\* The invariant holds of a Workflow that was not started, and every step keeps it.
THEOREM WorkflowInvariant == WorkflowsSpec => []WorkflowInv
<1>1. ASSUME WorkflowsInit
      PROVE  WorkflowInv
  <2>1. /\ workflow \in Workflow /\ workflow.completed = 0 /\ workflow.run = NoRun
        /\ ~workflow.requested
    BY <1>1, WorkflowsAssumption DEF WorkflowsInit, Workflow, NoRun
  <2>2. stages \in [Stages -> Stage] /\ \A s \in Stages : stages[s].status = "pending"
    BY <1>1, WorkflowsAssumption DEF WorkflowsInit, Stage, Attempts
  <2>3. work \in [Workers -> Work] /\ \A w \in Workers : WorkSound(work[w], stages)
    BY <1>1, RestSound DEF WorkflowsInit
  <2>4. Order(workflow, stages)
    BY <2>1, <2>2 DEF Order, Stages
  <2>5. /\ stageRuns \in [Stages -> [Attempts \ {0} -> {"none", "working"} \cup Ends]]
        /\ \A s \in Stages, a \in Attempts \ {0} : stageRuns[s][a] = "none"
    BY <1>1 DEF WorkflowsInit
  <2>6. /\ deliverable \in [object : BOOLEAN, intent : {"none", "leased", "expired"}]
        /\ deletion \in [intent : {"none", "exact", "stale"}, marked : BOOLEAN, sessionGone : BOOLEAN]
    BY <1>1 DEF WorkflowsInit
  <2> QED BY <2>1, <2>2, <2>3, <2>4, <2>5, <2>6 DEF WorkflowInv, WorkflowsTypeOK, RunsFollow
<1>2. ASSUME WorkflowInv, [WorkflowsNext]_workflowVars
      PROVE  WorkflowInv'
  <2>1. CASE WorkflowsNext
    <3>1. Order(workflow', stages')
      BY <1>2, <2>1, RowOrder
    <3> QED BY <1>2, <2>1, <3>1, StageRunsFollow, WorkersSound, DeliverableTyped
            DEF WorkflowInv, WorkflowsTypeOK, Order
  <2>2. CASE UNCHANGED workflowVars
    BY <1>2, <2>2 DEF workflowVars, WorkflowInv, WorkflowsTypeOK
  <2> QED BY <1>2, <2>1, <2>2
<1> QED BY <1>1, <1>2, PTL DEF WorkflowsSpec

\* The tables of a Workflow and the work of its workers stay well typed.
THEOREM WorkflowTypeCorrect == WorkflowsSpec => []WorkflowsTypeOK
<1>1. WorkflowInv => WorkflowsTypeOK
  BY DEF WorkflowInv
<1> QED BY <1>1, WorkflowInvariant, PTL

\* The stages of a Workflow run one after the other, whichever workers dispatch,
\* complete, defer and cancel them side by side (workflows/module.ts).
THEOREM WorkflowOrderKept == WorkflowsSpec => []WorkflowKeepsItsOrder
<1>1. WorkflowInv => WorkflowKeepsItsOrder
  BY DEF WorkflowInv, WorkflowKeepsItsOrder, RunsFollow, Order
<1> QED BY <1>1, WorkflowInvariant, PTL

-----------------------------------------------------------------------------

(* Briefs *)

\* What a call that writes, deletes or reads a Brief was given.
BriefCallSound(x, rows) ==
  /\ x.phase \in {"putting", "comparing", "committing", "cleaning"}
       \/ (x.phase = "erasing" /\ x.op # "none") =>
       /\ x.op \in {"create", "revise"} /\ x.key \in BriefKeys /\ x.brief \in BriefKeys
       /\ x.content \in BriefContents /\ x.revision \in BriefRevisions
       /\ x.op = "create" => x.key = x.brief /\ x.name \in BriefNames
  /\ x.phase = "finishing" \/ (x.phase = "erasing" /\ x.op = "none") =>
       x.op = "none" /\ x.brief \in BriefKeys /\ rows[x.brief].status \in {"deleting", "deleted"}
  /\ x.phase \in {"loading", "freeze", "attach"} =>
       /\ x.op \in {"freeze", "attach"} /\ x.brief \in BriefKeys
       /\ x.content \in BriefContents /\ x.revision \in BriefRevisions

\* A Brief that ever was is one whose key was used.
KeysUsed == \A b \in BriefKeys : briefs[b].status # "none" => briefMutations[b] # {}

\* The current revision of an active Brief is one that was committed.
CurrentCommitted ==
  \A b \in BriefKeys : briefs[b].status = "active" => briefs[b].revision \in BriefRevisions

BriefsInv ==
  /\ BriefsTypeOK /\ FrozenBriefStands /\ KeysUsed /\ CurrentCommitted
  /\ briefMutations \in [BriefKeys -> SUBSET BriefRequest]
  /\ \A c \in BriefCallers : BriefCallSound(briefCalls[c], briefs)

\* A Brief that is being deleted, or is gone, does not come back.
SealedStay ==
  \A b \in BriefKeys :
    briefs[b].status \in {"deleting", "deleted"} => briefs'[b].status \in {"deleting", "deleted"}

\* The fields of a call.
LEMMA BriefCallFields ==
  ASSUME NEW x \in BriefCall
  PROVE  /\ x.phase \in BriefPhases /\ x.key \in BriefKeys \cup {"none"}
         /\ x.op \in {"none", "create", "revise", "freeze", "attach"}
         /\ x.brief \in BriefKeys \cup {"none"} /\ x.content \in BriefContents \cup {"none"}
         /\ x.revision \in 0..MaxBriefRevision /\ x.name \in BriefNames \cup {"none"}
         /\ x.created \in BOOLEAN /\ x.left \in SUBSET BriefRevisions
BY DEF BriefCall

\* A call that is over is one of the calls.
LEMMA IdleBriefCallTyped == IdleBriefCall \in BriefCall /\ IdleBriefCall.phase = "idle"
BY BriefsAssumption DEF IdleBriefCall, BriefCall, BriefPhases

\* A call moves and the others stay.
LEMMA BriefCallsMove ==
  ASSUME BriefsInv, SealedStay, NEW c \in BriefCallers, NEW x \in BriefCall,
         briefCalls' = [briefCalls EXCEPT ![c] = x], BriefCallSound(x, briefs')
  PROVE  /\ briefCalls' \in [BriefCallers -> BriefCall]
         /\ \A d \in BriefCallers : BriefCallSound(briefCalls'[d], briefs')
<1>0. briefCalls \in [BriefCallers -> BriefCall] /\ \A d \in BriefCallers : BriefCallSound(briefCalls[d], briefs)
  BY DEF BriefsInv, BriefsTypeOK
<1>1. /\ briefCalls' \in [BriefCallers -> BriefCall] /\ briefCalls'[c] = x
      /\ \A d \in BriefCallers \ {c} : briefCalls'[d] = briefCalls[d]
  BY <1>0
<1>2. \A d \in BriefCallers : BriefCallSound(briefCalls[d], briefs')
  BY <1>0 DEF BriefCallSound, SealedStay
<1> QED BY <1>1, <1>2

\* A call that goes on in another phase, with the same of everything else.
LEMMA BriefCallGoesOn ==
  ASSUME BriefsInv, UNCHANGED briefs, NEW c \in BriefCallers, NEW phase \in BriefPhases,
         BriefCallGoes(c, phase), BriefCallSound([briefCalls[c] EXCEPT !.phase = phase], briefs)
  PROVE  /\ briefCalls' \in [BriefCallers -> BriefCall]
         /\ \A d \in BriefCallers : BriefCallSound(briefCalls'[d], briefs')
<1> DEFINE x == [briefCalls[c] EXCEPT !.phase = phase]
<1>1. x \in BriefCall
  BY DEF BriefsInv, BriefsTypeOK, BriefCall
<1>2. briefCalls' = [briefCalls EXCEPT ![c] = x]
  BY DEF BriefCallGoes
<1>3. SealedStay
  BY DEF SealedStay
<1> HIDE DEF x
<1>4. BriefCallSound(x, briefs')
  BY DEF x
<1> QED BY <1>1, <1>2, <1>3, <1>4, BriefCallsMove

\* A call that is over.
LEMMA BriefCallEnds ==
  ASSUME BriefsInv, SealedStay, NEW c \in BriefCallers, BriefCallOver(c)
  PROVE  /\ briefCalls' \in [BriefCallers -> BriefCall]
         /\ \A d \in BriefCallers : BriefCallSound(briefCalls'[d], briefs')
<1>1. IdleBriefCall \in BriefCall /\ IdleBriefCall.phase = "idle"
  BY IdleBriefCallTyped
<1>2. BriefCallSound(IdleBriefCall, briefs')
  BY <1>1 DEF BriefCallSound
<1> HIDE DEF IdleBriefCall
<1> QED BY <1>1, <1>2, BriefCallsMove DEF BriefCallOver

\* Only the objects and the calls change.
LEMMA BriefObjectsMove ==
  ASSUME BriefsInv, UNCHANGED <<briefRows, briefHolders>>,
         briefObjects' \in [BriefKeys -> [BriefRevisions -> BriefContents \cup {"none"}]],
         briefCalls' \in [BriefCallers -> BriefCall],
         \A d \in BriefCallers : BriefCallSound(briefCalls'[d], briefs')
  PROVE  BriefsInv'
BY DEF BriefsInv, BriefsTypeOK, FrozenBriefStands, KeysUsed, CurrentCommitted, briefRows, briefHolders

\* The steps of a create or a revision.
LEMMA BriefWriting ==
  ASSUME BriefsInv, NEW c \in BriefCallers,
         \/ \E k \in BriefKeys, content \in BriefContents :
              \/ \E name \in BriefNames : CreateBrief(c, k, content, name)
              \/ \E b \in BriefKeys : ReviseBrief(c, k, b, content)
         \/ PutBrief(c) \/ CompareBrief(c)
         \/ \E flag \in BOOLEAN : PutBriefLost(c, flag) \/ RefuseBrief(c, flag)
         \/ HeadBriefObject(c) \/ BriefCallDies(c)
  PROVE  BriefsInv'
<1> DEFINE call == briefCalls[c]
<1>0. /\ call \in BriefCall /\ BriefCallSound(call, briefs)
      /\ briefCalls \in [BriefCallers -> BriefCall] /\ briefs \in [BriefKeys -> Brief]
      /\ briefObjects \in [BriefKeys -> [BriefRevisions -> BriefContents \cup {"none"}]]
  BY DEF BriefsInv, BriefsTypeOK
<1>1. UNCHANGED <<briefRows, briefHolders>> /\ SealedStay
  BY DEF CreateBrief, ReviseBrief, BeginBriefCall, PutBrief, CompareBrief, PutBriefLost,
         RefuseBrief, HeadBriefObject, BriefCallDies, SealedStay, briefRows
<1>2. ASSUME BriefCallOver(c),
             briefObjects' \in [BriefKeys -> [BriefRevisions -> BriefContents \cup {"none"}]]
      PROVE  BriefsInv'
  BY <1>1, <1>2, BriefCallEnds, BriefObjectsMove
<1>3. ASSUME NEW phase \in {"comparing", "committing", "cleaning", "erasing"}, BriefCallGoes(c, phase),
             call.phase \in {"putting", "comparing", "committing", "cleaning"}, UNCHANGED briefObjects
      PROVE  BriefsInv'
  <2> DEFINE x == [call EXCEPT !.phase = phase]
  <2>1. /\ x.phase = phase /\ x.op = call.op /\ x.key = call.key /\ x.brief = call.brief
        /\ x.content = call.content /\ x.revision = call.revision /\ x.name = call.name
    BY <1>0 DEF BriefCall
  <2> HIDE DEF x
  <2>2. BriefCallSound(x, briefs)
    BY <1>0, <1>3, <2>1 DEF BriefCallSound
  <2>3. phase \in BriefPhases
    BY DEF BriefPhases
  <2> QED BY <1>0, <1>1, <1>3, <2>2, <2>3, BriefCallGoesOn, BriefObjectsMove DEF x, briefRows
<1>4. ASSUME NEW x \in BriefCall, BeginBriefCall(c, x), BriefCallSound(x, briefs)
      PROVE  BriefsInv'
  <2>1. /\ briefCalls' = [briefCalls EXCEPT ![c] = x] /\ UNCHANGED <<briefs, briefObjects>>
    BY <1>4 DEF BeginBriefCall, briefRows
  <2> QED BY <1>0, <1>1, <1>4, <2>1, BriefCallsMove, BriefObjectsMove
<1>5. ASSUME NEW k \in BriefKeys, NEW content \in BriefContents, NEW name \in BriefNames,
             CreateBrief(c, k, content, name)
      PROVE  BriefsInv'
  <2> DEFINE x == [IdleBriefCall EXCEPT !.phase = "putting", !.key = k, !.op = "create",
                     !.brief = k, !.content = content, !.revision = 1, !.name = name]
  <2>1. /\ x \in BriefCall /\ x.phase = "putting" /\ x.op = "create" /\ x.key = k /\ x.brief = k
        /\ x.content = content /\ x.revision = 1 /\ x.name = name
    <3> DEFINE y == [IdleBriefCall EXCEPT !.phase = "putting", !.key = k, !.op = "create"]
               z == [y EXCEPT !.brief = k, !.content = content]
               w == [z EXCEPT !.revision = 1, !.name = name]
    <3> HIDE DEF IdleBriefCall
    <3>1. 1 \in 0..MaxBriefRevision
      BY BriefsAssumption
    <3>2. y \in BriefCall /\ y.phase = "putting" /\ y.op = "create" /\ y.key = k
      BY IdleBriefCallTyped DEF BriefCall, BriefPhases
    <3>3. x = w
      OBVIOUS
    <3> HIDE DEF y
    <3>4. /\ z \in BriefCall /\ z.brief = k /\ z.content = content
          /\ z.phase = "putting" /\ z.op = "create" /\ z.key = k
      BY <3>2 DEF BriefCall
    <3> HIDE DEF z
    <3>5. /\ w \in BriefCall /\ w.revision = 1 /\ w.name = name /\ w.brief = k
          /\ w.content = content /\ w.phase = "putting" /\ w.op = "create" /\ w.key = k
      BY <3>1, <3>4 DEF BriefCall
    <3> HIDE DEF w, x
    <3> QED BY <3>3, <3>5
  <2>2. BeginBriefCall(c, x)
    BY <1>5 DEF CreateBrief
  <2> HIDE DEF x
  <2>3. BriefCallSound(x, briefs)
    BY <2>1, BriefsAssumption DEF BriefCallSound, BriefRevisions
  <2> QED BY <1>4, <2>1, <2>2, <2>3
<1>6. ASSUME NEW k \in BriefKeys, NEW content \in BriefContents, NEW b \in BriefKeys,
             ReviseBrief(c, k, b, content)
      PROVE  BriefsInv'
  <2> DEFINE r == briefs[b].revision + 1
             x == [IdleBriefCall EXCEPT !.phase = "putting", !.key = k, !.op = "revise",
                     !.brief = b, !.content = content, !.revision = r]
  <2>1. r \in BriefRevisions
    <3>1. briefs[b].revision \in 0..MaxBriefRevision
      BY <1>0 DEF Brief
    <3>2. briefs[b].revision < MaxBriefRevision
      BY <1>6 DEF ReviseBrief, BriefRevisable
    <3> QED BY <3>1, <3>2, BriefsAssumption DEF BriefRevisions
  <2>2. BeginBriefCall(c, x)
    BY <1>6 DEF ReviseBrief
  <2> HIDE DEF r
  <2>3. /\ x \in BriefCall /\ x.phase = "putting" /\ x.op = "revise" /\ x.key = k /\ x.brief = b
        /\ x.content = content /\ x.revision = r
    <3> DEFINE y == [IdleBriefCall EXCEPT !.phase = "putting", !.key = k, !.op = "revise"]
               z == [y EXCEPT !.brief = b, !.content = content, !.revision = r]
    <3> HIDE DEF IdleBriefCall
    <3>1. r \in 0..MaxBriefRevision
      BY <2>1, BriefsAssumption DEF BriefRevisions
    <3>2. y \in BriefCall /\ y.phase = "putting" /\ y.op = "revise" /\ y.key = k
      BY IdleBriefCallTyped DEF BriefCall, BriefPhases
    <3>3. x = z
      OBVIOUS
    <3> HIDE DEF y
    <3>4. /\ z \in BriefCall /\ z.brief = b /\ z.content = content /\ z.revision = r
          /\ z.phase = "putting" /\ z.op = "revise" /\ z.key = k
      BY <3>1, <3>2 DEF BriefCall
    <3> HIDE DEF x, z
    <3> QED BY <3>3, <3>4
  <2> HIDE DEF x
  <2>4. BriefCallSound(x, briefs)
    BY <2>1, <2>3 DEF BriefCallSound
  <2> QED BY <1>4, <2>2, <2>3, <2>4
<1>7. ASSUME PutBrief(c)
      PROVE  BriefsInv'
  <2>1. CASE briefObjects[call.brief][call.revision] # "none"
    BY <1>3, <1>7, <2>1 DEF PutBrief, BriefCallIs
  <2>2. CASE briefObjects[call.brief][call.revision] = "none"
    <3> DEFINE x == [call EXCEPT !.phase = "committing", !.created = TRUE]
    <3>1. /\ briefObjects' = [briefObjects EXCEPT ![call.brief][call.revision] = call.content]
          /\ briefCalls' = [briefCalls EXCEPT ![c] = x]
      BY <1>0, <1>7, <2>2 DEF PutBrief
    <3>2. call.brief \in BriefKeys /\ call.revision \in BriefRevisions /\ call.content \in BriefContents
      BY <1>0, <1>7 DEF PutBrief, BriefCallIs, BriefCallSound
    <3>3. briefObjects' \in [BriefKeys -> [BriefRevisions -> BriefContents \cup {"none"}]]
      BY <1>0, <3>1, <3>2
    <3>4. /\ x \in BriefCall /\ x.phase = "committing" /\ x.op = call.op /\ x.key = call.key
          /\ x.brief = call.brief /\ x.content = call.content /\ x.revision = call.revision
          /\ x.name = call.name
      BY <1>0 DEF BriefCall, BriefPhases
    <3> HIDE DEF x
    <3>5. BriefCallSound(x, briefs')
      BY <1>0, <1>1, <1>7, <3>4 DEF PutBrief, BriefCallIs, BriefCallSound, briefRows
    <3> QED BY <1>1, <3>1, <3>3, <3>4, <3>5, BriefCallsMove, BriefObjectsMove
  <2> QED BY <2>1, <2>2
<1>8. ASSUME CompareBrief(c)
      PROVE  BriefsInv'
  BY <1>0, <1>2, <1>3, <1>8 DEF CompareBrief, BriefCallIs
<1>9. ASSUME NEW flag \in BOOLEAN, PutBriefLost(c, flag)
      PROVE  BriefsInv'
  <2>1. call.brief \in BriefKeys /\ call.revision \in BriefRevisions /\ call.content \in BriefContents
    BY <1>0, <1>9 DEF PutBriefLost, BriefCallIs, BriefCallSound
  <2>2. briefObjects' \in [BriefKeys -> [BriefRevisions -> BriefContents \cup {"none"}]]
    BY <1>0, <1>9, <2>1 DEF PutBriefLost
  <2> QED BY <1>2, <1>9, <2>2 DEF PutBriefLost
<1>10. ASSUME NEW flag \in BOOLEAN, RefuseBrief(c, flag)
      PROVE  BriefsInv'
  BY <1>0, <1>2, <1>3, <1>10 DEF RefuseBrief, BriefCallIs
<1>11. ASSUME HeadBriefObject(c)
      PROVE  BriefsInv'
  BY <1>0, <1>2, <1>3, <1>11 DEF HeadBriefObject, BriefCallIs
<1>12. ASSUME BriefCallDies(c)
      PROVE  BriefsInv'
  BY <1>0, <1>2, <1>12 DEF BriefCallDies
<1> QED BY <1>5, <1>6, <1>7, <1>8, <1>9, <1>10, <1>11, <1>12

\* A create or a revision commits its row.
LEMMA BriefCommitting ==
  ASSUME BriefsInv, NEW c \in BriefCallers, CommitBrief(c)
  PROVE  BriefsInv'
<1> DEFINE call == briefCalls[c]
           b == call.brief
           v == call.revision
           named == IF call.op = "create" THEN call.name ELSE briefs[b].name
           row == [briefs[b] EXCEPT !.status = "active", !.revision = v, !.name = named]
<1>0. /\ call \in BriefCall /\ briefs \in [BriefKeys -> Brief]
      /\ briefVersions \in [BriefKeys -> [BriefRevisions -> BriefContents \cup {"none"}]]
      /\ frozenBriefs \in [BriefKeys -> SUBSET BriefRevisions]
      /\ FrozenBriefStands /\ KeysUsed /\ CurrentCommitted
      /\ briefMutations \in [BriefKeys -> SUBSET BriefRequest]
  BY DEF BriefsInv, BriefsTypeOK
<1>1. /\ call.op \in {"create", "revise"} /\ call.key \in BriefKeys /\ b \in BriefKeys
      /\ call.content \in BriefContents /\ v \in BriefRevisions
      /\ call.op = "create" => call.key = b /\ call.name \in BriefNames
      /\ FreshBriefKey(call.key) /\ Valid(call)
  BY DEF BriefsInv, CommitBrief, BriefCallIs, BriefCallSound, BriefCommits
<1>2. /\ briefs' = [briefs EXCEPT ![b] = row]
      /\ briefVersions' = [briefVersions EXCEPT ![b][v] = call.content]
      /\ briefMutations' = [briefMutations EXCEPT ![call.key] = {BriefMutation(call)}]
      /\ BriefCallOver(c) /\ UNCHANGED <<briefObjects, frozenBriefs, standingBriefs>>
  <2>3. briefs' = [briefs EXCEPT ![b].status = "active", ![b].revision = v,
                                 ![b].name = IF call.op = "create" THEN call.name ELSE @]
    BY DEF CommitBrief
  <2>4. /\ briefVersions' = [briefVersions EXCEPT ![b][v] = call.content]
        /\ briefMutations' = [briefMutations EXCEPT ![call.key] = {BriefMutation(call)}]
        /\ BriefCallOver(c) /\ UNCHANGED <<briefObjects, frozenBriefs, standingBriefs>>
    BY DEF CommitBrief, briefHolders
  <2>5. briefs' = [briefs EXCEPT ![b] = row]
    BY <1>0, <1>1, <2>3
  <2> QED BY <2>4, <2>5
<1>3. row \in Brief /\ row.status = "active" /\ row.revision = v
  <2>1. v \in 0..MaxBriefRevision
    BY <1>1, BriefsAssumption DEF BriefRevisions
  <2>2. briefs[b] \in Brief /\ briefs[b].name \in BriefNames \cup {"none"}
    BY <1>0, <1>1 DEF Brief
  <2>3. named \in BriefNames \cup {"none"}
    BY <1>1, <2>2
  <2> HIDE DEF named
  <2> QED BY <2>1, <2>2, <2>3 DEF Brief
<1>4. BriefMutation(call) \in BriefRequest
  <2>1. call.name \in BriefNames \cup {"none"}
    BY <1>0 DEF BriefCall
  <2> QED BY <1>1, <2>1 DEF BriefMutation, BriefRequest
<1>5. briefs[b].status \notin {"deleting", "deleted"}
  <2>1. CASE call.op = "create"
    <3>1. briefs[b].status = "none"
      BY <1>0, <1>1, <2>1 DEF KeysUsed, FreshBriefKey
    <3> QED BY <3>1
  <2>2. CASE call.op = "revise"
    BY <1>1, <2>2 DEF Valid, BriefRevisable
  <2> QED BY <1>1, <2>1, <2>2
<1> HIDE DEF call, b, v, row
<1>6. SealedStay
  BY <1>0, <1>1, <1>2, <1>5 DEF SealedStay
<1>7. FrozenBriefStands'
  BY <1>0, <1>1, <1>2, <1>3, BriefsAssumption DEF FrozenBriefStands
<1>8. KeysUsed'
  <2>1. /\ briefMutations'[call.key] # {}
        /\ \A k \in BriefKeys : briefMutations[k] # {} => briefMutations'[k] # {}
    BY <1>0, <1>1, <1>2
  <2>2. \A k \in BriefKeys \ {b} : briefs'[k] = briefs[k]
    BY <1>0, <1>1, <1>2
  <2>3. briefMutations'[b] # {}
    <3>1. CASE call.op = "create"
      BY <1>1, <2>1, <3>1
    <3>2. CASE call.op # "create"
      <4>1. briefs[b].status = "active"
        BY <1>1, <3>2 DEF Valid, BriefRevisable, b
      <4> QED BY <1>0, <1>1, <2>1, <4>1 DEF KeysUsed
    <3> QED BY <3>1, <3>2
  <2> QED BY <1>0, <2>1, <2>2, <2>3 DEF KeysUsed
<1>9. /\ briefs' \in [BriefKeys -> Brief]
      /\ briefVersions' \in [BriefKeys -> [BriefRevisions -> BriefContents \cup {"none"}]]
      /\ briefMutations' \in [BriefKeys -> SUBSET BriefRequest]
  <2>1. briefs' \in [BriefKeys -> Brief]
    BY <1>0, <1>1, <1>2, <1>3
  <2>2. briefVersions' \in [BriefKeys -> [BriefRevisions -> BriefContents \cup {"none"}]]
    BY <1>0, <1>1, <1>2
  <2>3. {BriefMutation(call)} \in SUBSET BriefRequest
    BY <1>4
  <2>4. briefMutations' \in [BriefKeys -> SUBSET BriefRequest]
    BY <1>0, <1>1, <1>2, <2>3
  <2> QED BY <2>1, <2>2, <2>4
<1>13. CurrentCommitted'
  BY <1>0, <1>1, <1>2, <1>3 DEF CurrentCommitted
<1>10. /\ briefCalls' \in [BriefCallers -> BriefCall]
       /\ \A d \in BriefCallers : BriefCallSound(briefCalls'[d], briefs')
  BY <1>2, <1>6, BriefCallEnds
<1>11. BriefsTypeOK'
  BY <1>2, <1>9, <1>10 DEF BriefsInv, BriefsTypeOK
<1> QED BY <1>7, <1>8, <1>9, <1>10, <1>11, <1>13 DEF BriefsInv

\* The steps of a deletion.
LEMMA BriefDeleting ==
  ASSUME BriefsInv, NEW c \in BriefCallers,
         \/ \E b \in BriefKeys : DeleteBrief(c, b) \/ FinishDelete(c, b)
         \/ \E r \in BriefRevisions : HeadVersion(c, r)
         \/ EraseBriefObject(c) \/ EraseBrief(c)
  PROVE  BriefsInv'
<1> DEFINE call == briefCalls[c]
<1>0. /\ call \in BriefCall /\ BriefCallSound(call, briefs)
      /\ briefCalls \in [BriefCallers -> BriefCall] /\ briefs \in [BriefKeys -> Brief]
      /\ briefObjects \in [BriefKeys -> [BriefRevisions -> BriefContents \cup {"none"}]]
      /\ briefVersions \in [BriefKeys -> [BriefRevisions -> BriefContents \cup {"none"}]]
      /\ frozenBriefs \in [BriefKeys -> SUBSET BriefRevisions]
      /\ FrozenBriefStands /\ KeysUsed /\ CurrentCommitted /\ standingBriefs \subseteq BriefKeys
      /\ briefMutations \in [BriefKeys -> SUBSET BriefRequest]
  BY DEF BriefsInv, BriefsTypeOK
<1>1. ASSUME NEW b \in BriefKeys, Finishing(c, b), briefs'[b].status \in {"deleting", "deleted"},
             SealedStay
      PROVE  /\ briefCalls' \in [BriefCallers -> BriefCall]
             /\ \A d \in BriefCallers : BriefCallSound(briefCalls'[d], briefs')
  <2> DEFINE x == [IdleBriefCall EXCEPT !.phase = "finishing", !.brief = b, !.left = CommittedRevisions(b)]
  <2>1. CommittedRevisions(b) \in SUBSET BriefRevisions
    BY DEF CommittedRevisions
  <2>2. IdleBriefCall.op = "none"
    BY DEF IdleBriefCall
  <2>3. briefCalls' = [briefCalls EXCEPT ![c] = x]
    BY <1>1 DEF Finishing
  <2> HIDE DEF IdleBriefCall, CommittedRevisions
  <2>4. x \in BriefCall /\ x.phase = "finishing" /\ x.brief = b /\ x.op = "none"
    BY <2>1, <2>2, IdleBriefCallTyped DEF BriefCall, BriefPhases
  <2> HIDE DEF x
  <2>5. BriefCallSound(x, briefs')
    BY <1>1, <2>4 DEF BriefCallSound
  <2> QED BY <1>1, <2>3, <2>4, <2>5, BriefCallsMove
<1>2. ASSUME NEW b \in BriefKeys, DeleteBrief(c, b)
      PROVE  BriefsInv'
  <2> DEFINE sealed == [briefs[b] EXCEPT !.status = "deleting"]
  <2>1. /\ briefs' = [briefs EXCEPT ![b] = sealed] /\ Finishing(c, b)
        /\ briefs[b].status = "active" /\ frozenBriefs[b] = {}
        /\ UNCHANGED <<briefVersions, briefMutations, briefObjects, frozenBriefs, standingBriefs>>
    BY <1>0, <1>2 DEF DeleteBrief, Sealable, Referenced, briefHolders
  <2>2. sealed \in Brief /\ sealed.status = "deleting"
    BY <1>0 DEF Brief
  <2> HIDE DEF sealed
  <2>3. SealedStay /\ briefs'[b].status = "deleting" /\ briefs' \in [BriefKeys -> Brief]
    BY <1>0, <2>1, <2>2 DEF SealedStay
  <2>4. FrozenBriefStands' /\ KeysUsed' /\ CurrentCommitted'
    BY <1>0, <2>1, <2>2 DEF FrozenBriefStands, KeysUsed, CurrentCommitted
  <2>5. /\ briefCalls' \in [BriefCallers -> BriefCall]
        /\ \A d \in BriefCallers : BriefCallSound(briefCalls'[d], briefs')
    BY <1>1, <2>1, <2>3
  <2>6. BriefsTypeOK'
    BY <1>0, <2>1, <2>3, <2>5 DEF BriefsTypeOK
  <2> QED BY <1>0, <2>1, <2>4, <2>5, <2>6 DEF BriefsInv
<1>3. ASSUME NEW b \in BriefKeys, FinishDelete(c, b)
      PROVE  BriefsInv'
  <2>1. /\ Finishing(c, b) /\ UNCHANGED <<briefRows, briefObjects, briefHolders>> /\ UNCHANGED briefs
        /\ briefs[b].status = "deleting"
    BY <1>3 DEF FinishDelete, briefRows
  <2>2. SealedStay
    BY <2>1 DEF SealedStay
  <2> QED BY <1>0, <1>1, <2>1, <2>2, BriefObjectsMove
<1>4. ASSUME NEW r \in BriefRevisions, HeadVersion(c, r)
      PROVE  BriefsInv'
  <2>1. /\ call.phase = "finishing" /\ UNCHANGED <<briefRows, briefObjects, briefHolders>>
        /\ UNCHANGED briefs
    BY <1>4 DEF HeadVersion, BriefCallIs, briefRows
  <2>2. SealedStay
    BY <2>1 DEF SealedStay
  <2>3. \/ briefCalls' = [briefCalls EXCEPT ![c].left = @ \ {r}]
        \/ briefCalls' = [briefCalls EXCEPT ![c].phase = "erasing", ![c].revision = r]
        \/ BriefCallOver(c)
    BY <1>4 DEF HeadVersion, BriefCallOver
  <2>4. ASSUME NEW x \in BriefCall, briefCalls' = [briefCalls EXCEPT ![c] = x], x.op = call.op,
               x.brief = call.brief, x.phase \in {"finishing", "erasing"}
        PROVE  BriefsInv'
    <3>1. BriefCallSound(x, briefs')
      BY <1>0, <2>1, <2>4 DEF BriefCallSound
    <3> QED BY <1>0, <2>1, <2>2, <2>4, <3>1, BriefCallsMove, BriefObjectsMove
  <2>5. CASE briefCalls' = [briefCalls EXCEPT ![c].left = @ \ {r}]
    <3> DEFINE x == [call EXCEPT !.left = call.left \ {r}]
    <3>1. x \in BriefCall /\ x.op = call.op /\ x.brief = call.brief /\ x.phase = "finishing"
      BY <1>0, <2>1 DEF BriefCall
    <3>2. briefCalls' = [briefCalls EXCEPT ![c] = x]
      BY <1>0, <2>5
    <3> HIDE DEF x
    <3> QED BY <2>4, <3>1, <3>2
  <2>6. CASE briefCalls' = [briefCalls EXCEPT ![c].phase = "erasing", ![c].revision = r]
    <3> DEFINE x == [call EXCEPT !.phase = "erasing", !.revision = r]
    <3>3. r \in 0..MaxBriefRevision
      BY BriefsAssumption DEF BriefRevisions
    <3>1. x \in BriefCall /\ x.op = call.op /\ x.brief = call.brief /\ x.phase = "erasing"
      BY <1>0, <3>3 DEF BriefCall, BriefPhases
    <3>2. briefCalls' = [briefCalls EXCEPT ![c] = x]
      BY <1>0, <2>6
    <3> HIDE DEF x
    <3> QED BY <2>4, <3>1, <3>2
  <2>7. CASE BriefCallOver(c)
    BY <1>0, <2>1, <2>2, <2>7, BriefCallEnds, BriefObjectsMove
  <2> QED BY <2>3, <2>5, <2>6, <2>7
<1>5. ASSUME EraseBriefObject(c)
      PROVE  BriefsInv'
  <2>1. /\ call.phase = "erasing" /\ UNCHANGED <<briefRows, briefHolders>> /\ UNCHANGED briefs
        /\ briefObjects' = [briefObjects EXCEPT ![call.brief][call.revision] = "none"]
    BY <1>5 DEF EraseBriefObject, BriefCallIs, briefRows
  <2>2. SealedStay
    BY <2>1 DEF SealedStay
  <2>3. briefObjects' \in [BriefKeys -> [BriefRevisions -> BriefContents \cup {"none"}]]
    BY <1>0, <2>1
  <2>4. CASE call.op = "none"
    <3> DEFINE x == [call EXCEPT !.phase = "finishing", !.left = call.left \ {call.revision}]
    <3>1. x \in BriefCall /\ x.op = call.op /\ x.brief = call.brief /\ x.phase = "finishing"
      BY <1>0 DEF BriefCall, BriefPhases
    <3>2. briefCalls' = [briefCalls EXCEPT ![c] = x]
      BY <1>0, <1>5, <2>4 DEF EraseBriefObject
    <3> HIDE DEF x
    <3>3. BriefCallSound(x, briefs')
      BY <1>0, <2>1, <2>4, <3>1 DEF BriefCallSound
    <3> QED BY <2>1, <2>2, <2>3, <3>1, <3>2, <3>3, BriefCallsMove, BriefObjectsMove
  <2>5. CASE call.op # "none"
    BY <1>5, <2>1, <2>2, <2>3, <2>5, BriefCallEnds, BriefObjectsMove DEF EraseBriefObject
  <2> QED BY <2>4, <2>5
<1>6. ASSUME EraseBrief(c)
      PROVE  BriefsInv'
  <2> DEFINE b == call.brief
             gone == [NoBrief EXCEPT !.status = "deleted"]
  <2>1. /\ b \in BriefKeys /\ briefs[b].status \in {"deleting", "deleted"}
        /\ briefs' = [briefs EXCEPT ![b] = gone]
        /\ briefVersions' = [briefVersions EXCEPT ![b] = [r \in BriefRevisions |-> "none"]]
        /\ BriefCallOver(c)
        /\ UNCHANGED <<briefMutations, briefObjects, frozenBriefs, standingBriefs>>
    BY <1>0, <1>6 DEF EraseBrief, BriefCallIs, BriefCallSound, briefHolders
  <2>2. gone \in Brief /\ gone.status = "deleted"
    BY BriefsAssumption DEF NoBrief, Brief
  <2> HIDE DEF b, gone
  <2>3. SealedStay /\ briefs' \in [BriefKeys -> Brief]
    BY <1>0, <2>1, <2>2 DEF SealedStay
  <2>4. FrozenBriefStands'
    <3>1. frozenBriefs[b] = {}
      BY <1>0, <2>1 DEF FrozenBriefStands
    <3> QED BY <1>0, <2>1, <3>1 DEF FrozenBriefStands
  <2>5. KeysUsed' /\ CurrentCommitted'
    BY <1>0, <2>1, <2>2 DEF KeysUsed, CurrentCommitted
  <2>6. /\ briefCalls' \in [BriefCallers -> BriefCall]
        /\ \A d \in BriefCallers : BriefCallSound(briefCalls'[d], briefs')
    BY <2>1, <2>3, BriefCallEnds
  <2>7. briefVersions' \in [BriefKeys -> [BriefRevisions -> BriefContents \cup {"none"}]]
    BY <1>0, <2>1
  <2>8. BriefsTypeOK'
    BY <1>0, <2>1, <2>3, <2>6, <2>7 DEF BriefsTypeOK
  <2> QED BY <1>0, <2>1, <2>4, <2>5, <2>6, <2>8 DEF BriefsInv
<1> QED BY <1>2, <1>3, <1>4, <1>5, <1>6

\* Who holds a Brief: what was read before the await is compared again before a
\* revision is frozen.
LEMMA BriefHolding ==
  ASSUME BriefsInv, NEW c \in BriefCallers,
         \/ \E b \in BriefKeys : BeginAttach(c, b)
         \/ \E b \in BriefKeys, r \in BriefRevisions : BeginFreeze(c, b, r)
         \/ LoadBrief(c) \/ FreezeBrief(c) \/ AttachBrief(c)
  PROVE  BriefsInv'
<1> DEFINE call == briefCalls[c]
<1>0. /\ call \in BriefCall /\ BriefCallSound(call, briefs)
      /\ briefCalls \in [BriefCallers -> BriefCall] /\ briefs \in [BriefKeys -> Brief]
      /\ briefObjects \in [BriefKeys -> [BriefRevisions -> BriefContents \cup {"none"}]]
      /\ briefVersions \in [BriefKeys -> [BriefRevisions -> BriefContents \cup {"none"}]]
      /\ frozenBriefs \in [BriefKeys -> SUBSET BriefRevisions]
      /\ FrozenBriefStands /\ KeysUsed /\ CurrentCommitted /\ standingBriefs \subseteq BriefKeys
      /\ briefMutations \in [BriefKeys -> SUBSET BriefRequest]
  BY DEF BriefsInv, BriefsTypeOK
<1>1. UNCHANGED <<briefRows, briefObjects>> /\ UNCHANGED briefs /\ SealedStay
  BY DEF BeginAttach, BeginFreeze, BeginMaterialize, BeginBriefCall, LoadBrief, FreezeBrief,
         AttachBrief, SealedStay, briefRows
<1>2. ASSUME NEW b \in BriefKeys, NEW r \in 0..MaxBriefRevision, NEW op \in {"freeze", "attach"},
             BeginMaterialize(c, b, r, op), r \in BriefRevisions
      PROVE  BriefsInv'
  <2> DEFINE v == briefVersions[b][r]
             x == [IdleBriefCall EXCEPT !.phase = "loading", !.op = op, !.brief = b,
                     !.revision = r, !.content = v]
  <2>1. /\ v \in BriefContents /\ briefCalls' = [briefCalls EXCEPT ![c] = x]
        /\ UNCHANGED briefHolders
    BY <1>0, <1>2 DEF BeginMaterialize, BeginBriefCall
  <2> HIDE DEF v
  <2> DEFINE y == [IdleBriefCall EXCEPT !.phase = "loading", !.op = op, !.brief = b]
             z == [y EXCEPT !.revision = r, !.content = v]
  <2> HIDE DEF IdleBriefCall
  <2>2. y \in BriefCall /\ y.phase = "loading" /\ y.op = op /\ y.brief = b
    BY IdleBriefCallTyped DEF BriefCall, BriefPhases
  <2>5. x = z
    OBVIOUS
  <2> HIDE DEF y
  <2>6. /\ z \in BriefCall /\ z.phase = "loading" /\ z.op = op /\ z.brief = b
        /\ z.revision = r /\ z.content = v
    BY <2>1, <2>2 DEF BriefCall
  <2> HIDE DEF x, z
  <2>3. x \in BriefCall
    BY <2>5, <2>6
  <2>4. BriefCallSound(x, briefs')
    BY <1>2, <2>1, <2>5, <2>6 DEF BriefCallSound
  <2> QED BY <1>0, <1>1, <2>1, <2>3, <2>4, BriefCallsMove, BriefObjectsMove
<1>3. ASSUME NEW b \in BriefKeys, BeginAttach(c, b)
      PROVE  BriefsInv'
  <2>1. briefs[b].revision \in 0..MaxBriefRevision
    BY <1>0 DEF Brief
  <2>2. briefs[b].revision \in BriefRevisions
    BY <1>0, <1>3 DEF BeginAttach, BeginMaterialize, CurrentCommitted
  <2> QED BY <1>2, <1>3, <2>1, <2>2 DEF BeginAttach
<1>4. ASSUME NEW b \in BriefKeys, NEW r \in BriefRevisions, BeginFreeze(c, b, r)
      PROVE  BriefsInv'
  BY <1>2, <1>4, BriefsAssumption DEF BeginFreeze, BriefRevisions
<1>5. ASSUME LoadBrief(c)
      PROVE  BriefsInv'
  <2>1. call.phase = "loading" /\ UNCHANGED briefHolders
    BY <1>5 DEF LoadBrief, BriefCallIs
  <2>2. CASE BriefCallOver(c)
    BY <1>0, <1>1, <2>1, <2>2, BriefCallEnds, BriefObjectsMove
  <2>3. CASE BriefCallGoes(c, call.op)
    <3> DEFINE x == [call EXCEPT !.phase = call.op]
    <3>1. call.op \in {"freeze", "attach"}
      BY <1>0, <2>1 DEF BriefCallSound
    <3>2. x.phase = call.op /\ x.op = call.op /\ x.brief = call.brief /\ x.content = call.content
          /\ x.revision = call.revision
      BY <1>0 DEF BriefCall
    <3> HIDE DEF x
    <3>3. BriefCallSound(x, briefs)
      BY <1>0, <2>1, <3>1, <3>2 DEF BriefCallSound
    <3>4. call.op \in BriefPhases
      BY <3>1 DEF BriefPhases
    <3> QED BY <1>0, <1>1, <2>1, <2>3, <3>3, <3>4, BriefCallGoesOn, BriefObjectsMove DEF x
  <2> QED BY <1>5, <2>2, <2>3 DEF LoadBrief
<1>6. ASSUME FreezeBrief(c)
      PROVE  BriefsInv'
  <2>1. /\ call.brief \in BriefKeys /\ call.revision \in BriefRevisions
        /\ call.content \in BriefContents
    BY <1>0, <1>6 DEF FreezeBrief, BriefCallIs, BriefCallSound
  <2>2. /\ briefs[call.brief].status = "active"
        /\ briefVersions[call.brief][call.revision] = call.content
        /\ frozenBriefs' = [frozenBriefs EXCEPT ![call.brief] = @ \cup {call.revision}]
        /\ BriefCallOver(c)
        /\ UNCHANGED <<briefs, briefVersions, briefMutations, briefObjects, standingBriefs>>
    BY <1>6 DEF FreezeBrief, FrozenValid, briefRows
  <2> HIDE DEF call
  <2>3. /\ frozenBriefs' \in [BriefKeys -> SUBSET BriefRevisions]
        /\ \A b \in BriefKeys : \A r \in frozenBriefs'[b] :
              r \in frozenBriefs[b] \/ (b = call.brief /\ r = call.revision)
    BY <1>0, <2>1, <2>2
  <2>4. FrozenBriefStands'
    BY <1>0, <2>1, <2>2, <2>3, BriefsAssumption DEF FrozenBriefStands
  <2>5. /\ briefCalls' \in [BriefCallers -> BriefCall]
        /\ \A d \in BriefCallers : BriefCallSound(briefCalls'[d], briefs')
    BY <1>1, <2>2, BriefCallEnds
  <2>6. BriefsTypeOK' /\ KeysUsed' /\ CurrentCommitted'
    BY <1>0, <2>2, <2>3, <2>5 DEF BriefsTypeOK, KeysUsed, CurrentCommitted
  <2> QED BY <1>0, <2>2, <2>4, <2>5, <2>6 DEF BriefsInv
<1>7. ASSUME AttachBrief(c)
      PROVE  BriefsInv'
  <2>1. /\ call.brief \in BriefKeys /\ BriefCallOver(c)
        /\ standingBriefs' = standingBriefs \cup {call.brief}
        /\ UNCHANGED <<briefs, briefVersions, briefMutations, briefObjects, frozenBriefs>>
    BY <1>0, <1>7 DEF AttachBrief, BriefCallIs, BriefCallSound, briefRows
  <2>2. /\ briefCalls' \in [BriefCallers -> BriefCall]
        /\ \A d \in BriefCallers : BriefCallSound(briefCalls'[d], briefs')
    BY <1>1, <2>1, BriefCallEnds
  <2>3. BriefsTypeOK' /\ KeysUsed' /\ CurrentCommitted' /\ FrozenBriefStands'
    BY <1>0, <2>1, <2>2 DEF BriefsTypeOK, KeysUsed, CurrentCommitted, FrozenBriefStands
  <2> QED BY <1>0, <2>1, <2>2, <2>3 DEF BriefsInv
<1> QED BY <1>3, <1>4, <1>5, <1>6, <1>7

\* A Run or a Workflow ends, or a Schedule or an Event trigger goes.
LEMMA BriefReleasing ==
  ASSUME BriefsInv, NEW b \in BriefKeys, ReleaseFrozen(b) \/ DetachBrief(b)
  PROVE  BriefsInv'
<1>0. UNCHANGED <<briefs, briefVersions, briefMutations, briefObjects, briefCalls>>
  BY DEF ReleaseFrozen, DetachBrief, briefRows
<1>1. frozenBriefs \in [BriefKeys -> SUBSET BriefRevisions] /\ standingBriefs \subseteq BriefKeys
  BY DEF BriefsInv, BriefsTypeOK
<1>2. /\ frozenBriefs' \in [BriefKeys -> SUBSET BriefRevisions] /\ standingBriefs' \subseteq BriefKeys
      /\ \A d \in BriefKeys : frozenBriefs'[d] \subseteq frozenBriefs[d]
  BY <1>1 DEF ReleaseFrozen, DetachBrief
<1>3. FrozenBriefStands'
  BY <1>0, <1>2 DEF BriefsInv, FrozenBriefStands
<1> QED BY <1>0, <1>2, <1>3 DEF BriefsInv, BriefsTypeOK, KeysUsed, CurrentCommitted

\* Every state of the Briefs of an owner is well formed: the rows, the calls that
\* are between two of their steps, and the revisions that Runs and Workflows hold.
THEOREM BriefsInvariant == BriefsSpec => []BriefsInv
<1>1. BriefsInit => BriefsInv
  <2> SUFFICES ASSUME BriefsInit PROVE BriefsInv
    OBVIOUS
  <2>1. NoBrief \in Brief /\ NoBrief.status = "none"
    BY BriefsAssumption DEF NoBrief, Brief
  <2>2. BriefCallSound(IdleBriefCall, briefs)
    BY IdleBriefCallTyped DEF BriefCallSound
  <2> HIDE DEF NoBrief, IdleBriefCall
  <2>3. BriefsTypeOK
    BY <2>1, IdleBriefCallTyped DEF BriefsInit, BriefsTypeOK
  <2>4. FrozenBriefStands /\ KeysUsed /\ CurrentCommitted
    BY <2>1 DEF BriefsInit, FrozenBriefStands, KeysUsed, CurrentCommitted
  <2>5. \A c \in BriefCallers : BriefCallSound(briefCalls[c], briefs)
    BY <2>2 DEF BriefsInit
  <2>6. briefMutations \in [BriefKeys -> SUBSET BriefRequest]
    BY DEF BriefsInit
  <2> QED BY <2>3, <2>4, <2>5, <2>6 DEF BriefsInv
<1>2. BriefsInv /\ [BriefsNext]_briefVars => BriefsInv'
  <2> SUFFICES ASSUME BriefsInv, [BriefsNext]_briefVars PROVE BriefsInv'
    OBVIOUS
  <2>1. CASE UNCHANGED briefVars
    BY <2>1 DEF briefVars, briefRows, briefHolders, BriefsInv, BriefsTypeOK, FrozenBriefStands,
                KeysUsed, CurrentCommitted
  <2>2. ASSUME NEW c \in BriefCallers, BriefCallNext(c)
        PROVE  BriefsInv'
    <3>1. CASE CommitBrief(c)
      BY <3>1, BriefCommitting
    <3>2. CASE \/ \E b \in BriefKeys : DeleteBrief(c, b) \/ FinishDelete(c, b)
               \/ \E r \in BriefRevisions : HeadVersion(c, r)
               \/ EraseBriefObject(c) \/ EraseBrief(c)
      BY <3>2, BriefDeleting
    <3>3. CASE \/ \E b \in BriefKeys : BeginAttach(c, b)
               \/ \E b \in BriefKeys, r \in BriefRevisions : BeginFreeze(c, b, r)
               \/ LoadBrief(c) \/ FreezeBrief(c) \/ AttachBrief(c)
      BY <3>3, BriefHolding
    <3>4. CASE \/ \E k \in BriefKeys, content \in BriefContents :
                    \/ \E name \in BriefNames : CreateBrief(c, k, content, name)
                    \/ \E b \in BriefKeys : ReviseBrief(c, k, b, content)
               \/ PutBrief(c) \/ CompareBrief(c)
               \/ \E flag \in BOOLEAN : PutBriefLost(c, flag) \/ RefuseBrief(c, flag)
               \/ HeadBriefObject(c) \/ BriefCallDies(c)
      BY <3>4, BriefWriting
    <3> QED BY <2>2, <3>1, <3>2, <3>3, <3>4 DEF BriefCallNext
  <2>3. ASSUME NEW b \in BriefKeys, ReleaseFrozen(b) \/ DetachBrief(b)
        PROVE  BriefsInv'
    BY <2>3, BriefReleasing
  <2> QED BY <2>1, <2>2, <2>3 DEF BriefsNext
<1> QED BY <1>1, <1>2, PTL DEF BriefsSpec

\* Rows, objects, holders and calls have their types.
THEOREM BriefsTypeCorrect == BriefsSpec => []BriefsTypeOK
<1>1. BriefsInv => BriefsTypeOK
  BY DEF BriefsInv
<1> QED BY <1>1, BriefsInvariant, PTL

\* A revision that a Run or a Workflow has frozen stays a committed revision of an
\* active Brief, whatever deletions and revisions run beside the call that froze it.
THEOREM FrozenBriefsStand == BriefsSpec => []FrozenBriefStands
<1>1. BriefsInv => FrozenBriefStands
  BY DEF BriefsInv
<1> QED BY <1>1, BriefsInvariant, PTL


-----------------------------------------------------------------------------
(* Skills, and the installation of Recipes *)

\* A version is one of a package.
VersionIs(v, p) ==
  /\ v.skill \in SkillIds /\ v.version \in 1..CurrentVersion(v.skill)
  /\ skills[v.skill].versions[v.version] = p

\* A Skill has versions from its creation on.
SkillsSound ==
  /\ skills \in [SkillIds -> Skill]
  /\ \A s \in SkillIds :
       /\ CurrentVersion(s) <= MaxSkillVersions
       /\ skills[s].status = "none" <=> CurrentVersion(s) = 0
  /\ skillObjects \in [SkillPackages -> {"none", "pending", "committed"}]
  /\ skillBucket \subseteq SkillPackages
  /\ LibraryConsistent

MutationsSound ==
  \A m \in skillMutations :
    m.op \in {"publish", "retire"} /\ m.made \in SkillVersion /\ VersionIs(m.made, m.request.package)

\* Requests of clients, and of installations.
AnySkillRequest ==
  [key : SkillKeys \cup (RecipeClients \X Installations \X (1..Len(RecipePlan))),
   skill : 0..MaxSkills, expected : 0..MaxSkillVersions, repair : 0..MaxSkillVersions,
   package : SkillPackages]

SkillCall ==
  [phase : {"idle", "putting", "committing", "answered"},
   request : {{}} \cup {{q} : q \in AnySkillRequest}, created : BOOLEAN, answer : SkillVersion]

SkillCallsSound ==
  /\ skillCalls \in [SkillCallers -> SkillCall]
  /\ \A c \in SkillCallers :
       skillCalls[c].phase \in {"putting", "committing"} => skillCalls[c].request # {}

RecipeReceipt ==
  [status : {"none", "installing", "installed"}, skills : Seq(SkillVersion), agent : Nat]

\* A receipt names versions of the packages that were planned, and an Agent with them.
ReceiptHolds(receipt, i) ==
  /\ Len(receipt.skills) <= Len(RecipePlan)
  /\ \A n \in 1..Len(receipt.skills) : VersionIs(receipt.skills[n], RecipePlan[n])
  /\ receipt.agent # 0 =>
       /\ Len(receipt.skills) = Len(RecipePlan)
       /\ \E a \in agentCreations :
            a.installation = i /\ a.agent = receipt.agent /\ a.skills = receipt.skills

RowsHold ==
  /\ installations \in
       [Installations -> [status : {"none", "installing", "installed"}, receipt : RecipeReceipt]]
  /\ \A i \in Installations : ReceiptHolds(installations[i].receipt, i)

\* An installation creates one Agent, under the key of its own client.
CreationsSound ==
  /\ agentCreations \subseteq
       [client : RecipeClients, installation : Installations, skills : Seq(SkillVersion), agent : Nat]
  /\ IsFiniteSet(agentCreations)
  /\ \A a \in agentCreations : a.client = InstallationClient[a.installation]
  /\ \A a, b \in agentCreations : a.installation = b.installation => a = b

RecipeCall ==
  [phase : {"idle", "previewing", "importing", "publishing"}, client : RecipeClients \cup {"none"},
   installation : Installations \cup {"none"}, receipt : RecipeReceipt]

\* A call that waits for the library asked it for the Skill its receipt is at.
RecipeCallHolds(c) ==
  /\ recipeCalls[c].phase # "idle" =>
       recipeCalls[c].client \in RecipeClients /\ recipeCalls[c].installation \in Installations
  /\ ReceiptHolds(recipeCalls[c].receipt, recipeCalls[c].installation)
  /\ recipeCalls[c].phase \in {"previewing", "importing"} => skillCalls[c].phase = "idle"
  /\ recipeCalls[c].phase = "publishing" =>
       /\ recipeCalls[c].receipt.agent = 0 /\ NextSkill(c) <= Len(RecipePlan)
       /\ skillCalls[c].phase \in {"putting", "committing", "answered"}
       /\ skillCalls[c].phase \in {"putting", "committing"} =>
            RequestOf(c).package = RecipePlan[NextSkill(c)]
       /\ skillCalls[c].phase = "answered" /\ skillCalls[c].answer # Refusal =>
            VersionIs(skillCalls[c].answer, RecipePlan[NextSkill(c)])

RecipeCallsSound ==
  /\ recipeCalls \in [SkillCallers -> RecipeCall]
  /\ \A c \in SkillCallers : RecipeCallHolds(c)

LibraryInv == SkillsSound /\ MutationsSound /\ SkillCallsSound

RecipesInv == LibraryInv /\ RowsHold /\ CreationsSound /\ RecipeCallsSound

\* No version is changed or taken back.
VersionsStay ==
  \A v \in SkillVersion :
    v.skill \in SkillIds /\ v.version \in 1..CurrentVersion(v.skill) =>
      /\ v.version \in 1..CurrentVersion(v.skill)'
      /\ skills'[v.skill].versions[v.version] = skills[v.skill].versions[v.version]

\* A call of the library stays, goes on with its request, or is answered for it.
CallFollows(c) ==
  \/ skillCalls'[c] = skillCalls[c]
  \/ /\ skillCalls[c].phase \in {"putting", "committing"}
     /\ \/ skillCalls'[c].phase \in {"putting", "committing"} /\ skillCalls'[c].request = skillCalls[c].request
        \/ /\ skillCalls'[c].phase = "answered"
           /\ \E v \in SkillVersion, p \in SkillPackages :
                /\ skillCalls'[c].answer = v /\ RequestOf(c).package = p
                /\ v = Refusal \/ VersionIs(v, p)'

\* The ids, and the versions a Skill has.
LEMMA SkillFacts ==
  ASSUME SkillsSound, NEW s \in SkillIds
  PROVE  /\ skills[s].status \in {"none", "active", "retired"}
         /\ skills[s].versions \in Seq(SkillPackages)
         /\ CurrentVersion(s) \in 0..MaxSkillVersions
         /\ skills[s].status # "none" => CurrentVersion(s) \in 1..MaxSkillVersions
         /\ \A n \in 1..CurrentVersion(s) : skills[s].versions[n] \in SkillPackages
<1>1. skills[s] \in Skill /\ CurrentVersion(s) <= MaxSkillVersions
      /\ (skills[s].status = "none" <=> CurrentVersion(s) = 0)
  BY DEF SkillsSound
<1>2. skills[s].status \in {"none", "active", "retired"} /\ skills[s].versions \in Seq(SkillPackages)
  BY <1>1 DEF Skill
<1>3. CurrentVersion(s) \in Nat /\ MaxSkillVersions \in Nat
  BY <1>2, SkillsAssumption DEF CurrentVersion
<1> QED BY <1>1, <1>2, <1>3 DEF CurrentVersion

\* A call that was started has one request.
LEMMA RequestTyped ==
  ASSUME SkillCallsSound, NEW c \in SkillCallers, skillCalls[c].phase \in {"putting", "committing"}
  PROVE  RequestOf(c) \in AnySkillRequest /\ skillCalls[c].request = {RequestOf(c)}
<1>1. skillCalls[c].request # {} /\ skillCalls[c].request \in {{}} \cup {{q} : q \in AnySkillRequest}
  BY DEF SkillCallsSound, SkillCall
<1>2. PICK q \in AnySkillRequest : skillCalls[c].request = {q}
  BY <1>1
<1>3. RequestOf(c) = q
  BY <1>2 DEF RequestOf
<1> QED BY <1>2, <1>3

\* The answer of a call is a version, or refuses it.
LEMMA SkillAnswered ==
  ASSUME SkillCallsSound, NEW c \in SkillCallers, NEW v \in SkillVersion, SkillAnswers(c, v)
  PROVE  /\ SkillCallsSound' /\ skillCalls'[c].phase = "answered" /\ skillCalls'[c].answer = v
         /\ \A d \in SkillCallers \ {c} : skillCalls'[d] = skillCalls[d]
<1> DEFINE y == [NoSkillCall EXCEPT !.phase = "answered", !.answer = v]
<1>1. Refusal \in SkillVersion
  BY SkillsAssumption DEF Refusal, SkillVersion
<1>2. y \in SkillCall /\ y.phase = "answered" /\ y.answer = v
  BY <1>1 DEF NoSkillCall, SkillCall
<1>3. skillCalls' = [skillCalls EXCEPT ![c] = y]
  BY DEF SkillAnswers
<1> HIDE DEF y
<1>4. skillCalls \in [SkillCallers -> SkillCall]
  BY DEF SkillCallsSound
<1>5. /\ skillCalls' \in [SkillCallers -> SkillCall] /\ skillCalls'[c] = y
      /\ \A d \in SkillCallers \ {c} : skillCalls'[d] = skillCalls[d]
  BY <1>2, <1>3, <1>4
<1>6. \A d \in SkillCallers : skillCalls'[d].phase \in {"putting", "committing"} => skillCalls'[d].request # {}
  BY <1>2, <1>5 DEF SkillCallsSound
<1>7. SkillCallsSound'
  BY <1>5, <1>6 DEF SkillCallsSound, SkillCall, AnySkillRequest, SkillVersion
<1> QED BY <1>2, <1>5, <1>7

\* A call is over.
LEMMA SkillCallOver ==
  ASSUME LibraryInv, NEW c \in SkillCallers, skillCalls' = [skillCalls EXCEPT ![c] = NoSkillCall],
         UNCHANGED <<skillLibrary, skillBucket>>
  PROVE  /\ LibraryInv' /\ skillCalls'[c].phase = "idle"
         /\ \A d \in SkillCallers \ {c} : skillCalls'[d] = skillCalls[d]
<1>1. Refusal \in SkillVersion
  BY SkillsAssumption DEF Refusal, SkillVersion
<1>2. NoSkillCall \in SkillCall /\ NoSkillCall.phase = "idle"
  BY <1>1 DEF NoSkillCall, SkillCall
<1>3. skillCalls \in [SkillCallers -> SkillCall]
  BY DEF LibraryInv, SkillCallsSound
<1>4. /\ skillCalls' \in [SkillCallers -> SkillCall] /\ skillCalls'[c] = NoSkillCall
      /\ \A d \in SkillCallers \ {c} : skillCalls'[d] = skillCalls[d]
  BY <1>2, <1>3
<1>5. \A d \in SkillCallers : skillCalls'[d].phase \in {"putting", "committing"} => skillCalls'[d].request # {}
  BY <1>2, <1>4 DEF LibraryInv, SkillCallsSound
<1>6. SkillCallsSound'
  BY <1>4, <1>5 DEF SkillCallsSound, SkillCall, AnySkillRequest, SkillVersion
<1>7. UNCHANGED <<skills, skillObjects, skillBucket, skillMutations>>
  BY DEF skillLibrary
<1>8. SkillsSound'
  BY <1>7 DEF LibraryInv, SkillsSound, LibraryConsistent, CurrentVersion, CurrentPackage, Skill, SkillIds
<1>9. MutationsSound'
  BY <1>7 DEF LibraryInv, MutationsSound, VersionIs, SkillVersion, CurrentVersion, SkillIds
<1> QED BY <1>2, <1>4, <1>6, <1>8, <1>9 DEF LibraryInv

\* What a request that was applied before is answered.
LEMMA ReplayHolds ==
  ASSUME MutationsSound, NEW q
  PROVE  /\ ReplayOf(q) \in SkillVersion
         /\ ReplayOf(q) = Refusal \/ VersionIs(ReplayOf(q), q.package)
<1>1. CASE ~(\E m \in skillMutations : m.op = "publish" /\ m.request = q)
  BY <1>1, SkillsAssumption DEF ReplayOf, Refusal, SkillVersion
<1>2. CASE \E m \in skillMutations : m.op = "publish" /\ m.request = q
  <2> DEFINE m == CHOOSE x \in skillMutations : x.request = q
  <2>1. m \in skillMutations /\ m.request = q
    BY <1>2
  <2>2. ReplayOf(q) = m.made
    BY <1>2 DEF ReplayOf
  <2> HIDE DEF m
  <2> QED BY <2>1, <2>2 DEF MutationsSound
<1> QED BY <1>1, <1>2

\* A Skill gets another version.
LEMMA SkillGrows ==
  ASSUME SkillsSound, NEW s \in SkillIds, NEW p \in SkillPackages,
         skills' = [skills EXCEPT ![s].status = "active", ![s].versions = Append(@, p)]
  PROVE  /\ skills' \in [SkillIds -> Skill] /\ skills'[s].status = "active"
         /\ CurrentVersion(s)' = CurrentVersion(s) + 1
         /\ skills'[s].versions[CurrentVersion(s) + 1] = p
         /\ \A n \in 1..CurrentVersion(s) : skills'[s].versions[n] = skills[s].versions[n]
         /\ \A o \in SkillIds \ {s} : skills'[o] = skills[o]
         /\ VersionsStay
<1>1. skills \in [SkillIds -> Skill] /\ skills[s] \in Skill
  BY DEF SkillsSound
<1> DEFINE old == skills[s].versions
           new == Append(old, p)
           y == [skills[s] EXCEPT !.status = "active", !.versions = new]
<1>2. old \in Seq(SkillPackages)
  BY SkillFacts
<1>3. /\ new \in Seq(SkillPackages) /\ Len(new) = Len(old) + 1 /\ Len(old) \in Nat
      /\ new[Len(old) + 1] = p /\ \A n \in 1..Len(old) : new[n] = old[n]
  BY <1>2
<1>4. skills' = [skills EXCEPT ![s] = y]
  OBVIOUS
<1> HIDE DEF new
<1>5. y \in Skill /\ y.status = "active" /\ y.versions = new
  BY <1>1, <1>3 DEF Skill
<1> HIDE DEF y
<1>6. /\ skills' \in [SkillIds -> Skill] /\ skills'[s] = y
      /\ \A o \in SkillIds \ {s} : skills'[o] = skills[o]
  BY <1>1, <1>4, <1>5
<1>7. CurrentVersion(s) = Len(old) /\ CurrentVersion(s)' = Len(new)
  BY <1>5, <1>6 DEF CurrentVersion
<1>8. ASSUME NEW v \in SkillVersion, v.skill \in SkillIds, v.version \in 1..CurrentVersion(v.skill)
      PROVE  /\ v.version \in 1..CurrentVersion(v.skill)'
             /\ skills'[v.skill].versions[v.version] = skills[v.skill].versions[v.version]
  <2>1. CASE v.skill = s
    BY <1>3, <1>5, <1>6, <1>7, <1>8, <2>1
  <2>2. CASE v.skill # s
    BY <1>6, <1>8, <2>2 DEF CurrentVersion
  <2> QED BY <2>1, <2>2
<1>9. VersionsStay
  BY <1>8 DEF VersionsStay
<1> HIDE DEF VersionsStay
<1> QED BY <1>3, <1>5, <1>6, <1>7, <1>9

\* What was applied stays what it was.
LEMMA MutationsStay ==
  ASSUME MutationsSound, VersionsStay,
         \A m \in skillMutations' :
           \/ m \in skillMutations
           \/ /\ m.op \in {"publish", "retire"} /\ m.made \in SkillVersion
              /\ VersionIs(m.made, m.request.package)'
  PROVE  MutationsSound'
<1> SUFFICES ASSUME NEW m \in skillMutations, m \in skillMutations'
             PROVE  /\ m.op \in {"publish", "retire"} /\ m.made \in SkillVersion
                    /\ VersionIs(m.made, m.request.package)'
  BY DEF MutationsSound, SkillVersion
<1>1. m.op \in {"publish", "retire"} /\ m.made \in SkillVersion /\ VersionIs(m.made, m.request.package)
  BY DEF MutationsSound
<1> QED BY <1>1 DEF VersionIs, VersionsStay, SkillIds


\* A publication was validated: the package is reserved, and put.
LEMMA PublishSkillStep ==
  ASSUME LibraryInv, NEW c \in SkillCallers, NEW q \in AnySkillRequest, PublishSkill(c, q)
  PROVE  /\ LibraryInv' /\ UNCHANGED <<skills, skillMutations>>
         /\ skillCalls'[c].phase = "putting" /\ skillCalls'[c].request = {q}
         /\ \A d \in SkillCallers \ {c} : skillCalls'[d] = skillCalls[d]
<1> DEFINE one == {q}
           y == [skillCalls[c] EXCEPT !.phase = "putting", !.request = one]
<1>1. /\ skillCalls' = [skillCalls EXCEPT ![c] = y]
      /\ skillObjects' = [skillObjects EXCEPT ![q.package] = IF @ = "none" THEN "pending" ELSE @]
      /\ UNCHANGED <<skills, skillMutations, skillBucket>>
  BY DEF PublishSkill
<1>2. skillCalls \in [SkillCallers -> SkillCall]
  BY DEF LibraryInv, SkillCallsSound
<1> DEFINE Requests == {{}} \cup {{r} : r \in AnySkillRequest}
<1>3. one \in Requests
  OBVIOUS
<1>4. SkillCall = [phase : {"idle", "putting", "committing", "answered"}, request : Requests,
                   created : BOOLEAN, answer : SkillVersion]
  BY DEF SkillCall
<1> HIDE DEF one, Requests
<1>5. y \in SkillCall /\ y.phase = "putting" /\ y.request = one
  BY <1>2, <1>3, <1>4
<1> HIDE DEF y
<1>6. /\ skillCalls' \in [SkillCallers -> SkillCall] /\ skillCalls'[c] = y
      /\ \A d \in SkillCallers \ {c} : skillCalls'[d] = skillCalls[d]
  BY <1>1, <1>2, <1>5
<1>7. one # {}
  BY DEF one
<1>8. SkillCallsSound'
  <2>1. \A d \in SkillCallers : skillCalls'[d].phase \in {"putting", "committing"} => skillCalls'[d].request # {}
    BY <1>5, <1>6, <1>7 DEF LibraryInv, SkillCallsSound
  <2> QED BY <1>6, <2>1 DEF SkillCallsSound, SkillCall, AnySkillRequest, SkillVersion
<1>9. skillObjects \in [SkillPackages -> {"none", "pending", "committed"}] /\ q.package \in SkillPackages
  BY DEF LibraryInv, SkillsSound, AnySkillRequest
<1>10. /\ skillObjects' \in [SkillPackages -> {"none", "pending", "committed"}]
       /\ \A p \in SkillPackages : skillObjects[p] = "committed" => skillObjects'[p] = "committed"
  BY <1>1, <1>9
<1>11. LibraryConsistent'
  <2>1. ASSUME NEW s \in SkillIds, NEW n \in 1..MaxSkillVersions, n <= CurrentVersion(s)
        PROVE  skillObjects'[skills[s].versions[n]] = "committed"
    <3>1. skillObjects[skills[s].versions[n]] = "committed"
      BY <2>1 DEF LibraryInv, SkillsSound, LibraryConsistent
    <3>2. skills[s].versions[n] \in SkillPackages
      BY <2>1, SkillFacts DEF LibraryInv
    <3> QED BY <1>10, <3>1, <3>2
  <2> QED BY <1>1, <2>1 DEF LibraryInv, SkillsSound, LibraryConsistent, CurrentVersion, CurrentPackage, SkillIds
<1>12. SkillsSound'
  BY <1>1, <1>10, <1>11 DEF LibraryInv, SkillsSound, CurrentVersion, Skill, SkillIds
<1>13. MutationsSound'
  BY <1>1 DEF LibraryInv, MutationsSound, VersionIs, SkillVersion, CurrentVersion, SkillIds
<1> QED BY <1>1, <1>5, <1>6, <1>8, <1>12, <1>13 DEF LibraryInv, one

\* A call is answered and changes nothing of the library.
LEMMA OnlyAnswered ==
  ASSUME LibraryInv, NEW c \in SkillCallers, NEW v \in SkillVersion, SkillAnswers(c, v),
         UNCHANGED skillLibrary, skillBucket' \subseteq SkillPackages
  PROVE  /\ LibraryInv' /\ VersionsStay
         /\ skillCalls'[c].phase = "answered" /\ skillCalls'[c].answer = v
         /\ \A d \in SkillCallers \ {c} : skillCalls'[d] = skillCalls[d]
<1>1. /\ SkillCallsSound' /\ skillCalls'[c].phase = "answered" /\ skillCalls'[c].answer = v
      /\ \A d \in SkillCallers \ {c} : skillCalls'[d] = skillCalls[d]
  BY SkillAnswered DEF LibraryInv
<1>2. UNCHANGED <<skills, skillObjects, skillMutations>>
  BY DEF skillLibrary
<1>3. SkillsSound'
  BY <1>2 DEF LibraryInv, SkillsSound, LibraryConsistent, CurrentVersion, CurrentPackage, Skill, SkillIds
<1>4. VersionsStay
  BY <1>2 DEF VersionsStay, CurrentVersion
<1>5. MutationsSound'
  BY <1>2 DEF LibraryInv, MutationsSound, VersionIs, SkillVersion, CurrentVersion, SkillIds
<1> QED BY <1>1, <1>3, <1>4, <1>5 DEF LibraryInv

\* A publication is answered for an earlier one, or refused.
LEMMA PublishAnsweredStep ==
  ASSUME LibraryInv, NEW c \in SkillCallers, NEW q, PublishAnswered(c, q)
  PROVE  /\ LibraryInv' /\ VersionsStay /\ UNCHANGED skills
         /\ skillCalls'[c].phase = "answered"
         /\ skillCalls'[c].answer = Refusal \/ VersionIs(skillCalls'[c].answer, q.package)
         /\ \A d \in SkillCallers \ {c} : skillCalls'[d] = skillCalls[d]
<1> DEFINE v == ReplayOf(q)
<1>1. v \in SkillVersion /\ (v = Refusal \/ VersionIs(v, q.package))
  BY ReplayHolds DEF LibraryInv
<1>2. SkillAnswers(c, v) /\ UNCHANGED skillLibrary /\ UNCHANGED skillBucket
  BY DEF PublishAnswered
<1> HIDE DEF v
<1>3. skillBucket' \subseteq SkillPackages
  BY <1>2 DEF LibraryInv, SkillsSound
<1>4. /\ LibraryInv' /\ VersionsStay
      /\ skillCalls'[c].phase = "answered" /\ skillCalls'[c].answer = v
      /\ \A d \in SkillCallers \ {c} : skillCalls'[d] = skillCalls[d]
  BY <1>1, <1>2, <1>3, OnlyAnswered
<1>5. UNCHANGED skills
  BY <1>2 DEF skillLibrary
<1> HIDE DEF LibraryInv, VersionsStay
<1> QED BY <1>1, <1>4, <1>5


\* Every call but one stays, and that one follows.
LEMMA OneFollows ==
  ASSUME NEW c \in SkillCallers, CallFollows(c),
         \A d \in SkillCallers \ {c} : skillCalls'[d] = skillCalls[d]
  PROVE  \A d \in SkillCallers : CallFollows(d)
BY DEF CallFollows

\* A call that was started is answered, with the request it had.
LEMMA AnswerFollows ==
  ASSUME SkillCallsSound, NEW c \in SkillCallers, skillCalls[c].phase \in {"putting", "committing"},
         NEW v \in SkillVersion, skillCalls'[c].phase = "answered", skillCalls'[c].answer = v,
         v = Refusal \/ VersionIs(v, RequestOf(c).package),
         VersionsStay
  PROVE  CallFollows(c)
<1>1. PICK p \in SkillPackages : p = RequestOf(c).package
  BY RequestTyped DEF AnySkillRequest
<1>2. v = Refusal \/ VersionIs(v, p)'
  <2>1. CASE v # Refusal
    <3>1. v.skill \in SkillIds /\ v.version \in 1..CurrentVersion(v.skill)
          /\ skills[v.skill].versions[v.version] = p
      BY <1>1, <2>1 DEF VersionIs
    <3>2. /\ v.version \in 1..CurrentVersion(v.skill)'
          /\ skills'[v.skill].versions[v.version] = p
      BY <3>1 DEF VersionsStay
    <3> QED BY <3>1, <3>2 DEF VersionIs, SkillIds
  <2> QED BY <2>1
<1> QED BY <1>1, <1>2 DEF CallFollows

\* The package is put, or the put fails.
LEMMA PutSkillStep ==
  ASSUME LibraryInv, NEW c \in SkillCallers,
         PutSkill(c) \/ \E landed \in BOOLEAN : PutSkillFails(c, landed)
  PROVE  LibraryInv' /\ VersionsStay /\ \A d \in SkillCallers : CallFollows(d)
<1>0. skillCalls[c].phase = "putting" /\ SkillCallsSound /\ UNCHANGED skillLibrary
  BY DEF PutSkill, PutSkillFails, SkillCallIs, LibraryInv
<1>1. RequestOf(c) \in AnySkillRequest /\ RequestOf(c).package \in SkillPackages
  BY <1>0, RequestTyped DEF AnySkillRequest
<1>2. CASE PutSkill(c)
  <2>1. PICK made \in BOOLEAN :
          skillCalls' = [skillCalls EXCEPT ![c].phase = "committing", ![c].created = made]
    BY <1>2 DEF PutSkill
  <2>2. skillBucket' \subseteq SkillPackages
    BY <1>1, <1>2 DEF PutSkill, LibraryInv, SkillsSound
  <2> DEFINE old == skillCalls[c]
             y == [old EXCEPT !.phase = "committing", !.created = made]
  <2>3. skillCalls \in [SkillCallers -> SkillCall] /\ old \in SkillCall
    BY <1>0 DEF SkillCallsSound
  <2>4. skillCalls' = [skillCalls EXCEPT ![c] = y]
    BY <2>1
  <2>10. old.request # {}
    BY <1>0 DEF SkillCallsSound
  <2> HIDE DEF old
  <2>5. y \in SkillCall /\ y.phase = "committing" /\ y.request = old.request
    <3> DEFINE Requests == {{}} \cup {{r} : r \in AnySkillRequest}
    <3>4. SkillCall = [phase : {"idle", "putting", "committing", "answered"}, request : Requests,
                       created : BOOLEAN, answer : SkillVersion]
      BY DEF SkillCall
    <3> HIDE DEF Requests
    <3> QED BY <2>3, <3>4
  <2> HIDE DEF y
  <2>6. /\ skillCalls' \in [SkillCallers -> SkillCall] /\ skillCalls'[c] = y
        /\ \A d \in SkillCallers \ {c} : skillCalls'[d] = skillCalls[d]
    BY <2>3, <2>4, <2>5
  <2>7. \A d \in SkillCallers : skillCalls'[d].phase \in {"putting", "committing"} => skillCalls'[d].request # {}
    BY <1>0, <2>5, <2>6, <2>10 DEF SkillCallsSound
  <2>8. SkillCallsSound'
    BY <2>6, <2>7 DEF SkillCallsSound, SkillCall, AnySkillRequest, SkillVersion
  <2>9. CallFollows(c)
    BY <1>0, <2>5, <2>6 DEF CallFollows, old
  <2>11. UNCHANGED <<skills, skillObjects, skillMutations>>
    BY <1>0 DEF skillLibrary
  <2>12. SkillsSound'
    BY <2>2, <2>11 DEF LibraryInv, SkillsSound, LibraryConsistent, CurrentVersion, CurrentPackage, Skill, SkillIds
  <2>13. VersionsStay
    BY <2>11 DEF VersionsStay, CurrentVersion
  <2>14. MutationsSound'
    BY <2>11 DEF LibraryInv, MutationsSound, VersionIs, SkillVersion, CurrentVersion, SkillIds
  <2>15. \A d \in SkillCallers : CallFollows(d)
    BY <2>6, <2>9, OneFollows
  <2> QED BY <2>8, <2>12, <2>13, <2>14, <2>15 DEF LibraryInv
<1>3. ASSUME NEW landed \in BOOLEAN, PutSkillFails(c, landed)
      PROVE  LibraryInv' /\ VersionsStay /\ \A d \in SkillCallers : CallFollows(d)
  <2>1. skillBucket' \subseteq SkillPackages /\ SkillAnswers(c, Refusal)
    BY <1>1, <1>3 DEF PutSkillFails, LibraryInv, SkillsSound
  <2>2. Refusal \in SkillVersion
    BY SkillsAssumption DEF Refusal, SkillVersion
  <2>3. /\ LibraryInv' /\ VersionsStay
        /\ skillCalls'[c].phase = "answered" /\ skillCalls'[c].answer = Refusal
        /\ \A d \in SkillCallers \ {c} : skillCalls'[d] = skillCalls[d]
    BY <1>0, <2>1, <2>2, OnlyAnswered
  <2>4. CallFollows(c)
    BY <1>0, <2>2, <2>3, AnswerFollows
  <2>5. \A d \in SkillCallers : CallFollows(d)
    BY <2>3, <2>4, OneFollows
  <2> QED BY <2>3, <2>5
<1> QED BY <1>2, <1>3

\* The commit finds that the request does not hold any more, or was applied.
LEMMA CommitRefusedStep ==
  ASSUME LibraryInv, NEW c \in SkillCallers, NEW threw \in BOOLEAN, CommitRefused(c, threw)
  PROVE  LibraryInv' /\ VersionsStay /\ \A d \in SkillCallers : CallFollows(d)
<1> DEFINE q == RequestOf(c)
           v == IF threw THEN Refusal ELSE ReplayOf(q)
<1>0. skillCalls[c].phase = "committing" /\ SkillCallsSound /\ UNCHANGED skillLibrary
      /\ UNCHANGED skillBucket /\ SkillAnswers(c, v)
  BY DEF CommitRefused, SkillCallIs, LibraryInv
<1>1. v \in SkillVersion /\ (v = Refusal \/ VersionIs(v, q.package))
  BY ReplayHolds, SkillsAssumption DEF LibraryInv, Refusal, SkillVersion
<1> HIDE DEF v
<1>2. skillBucket' \subseteq SkillPackages
  BY <1>0 DEF LibraryInv, SkillsSound
<1>3. /\ LibraryInv' /\ VersionsStay
      /\ skillCalls'[c].phase = "answered" /\ skillCalls'[c].answer = v
      /\ \A d \in SkillCallers \ {c} : skillCalls'[d] = skillCalls[d]
  BY <1>0, <1>1, <1>2, OnlyAnswered
<1>4. CallFollows(c)
  BY <1>0, <1>1, <1>3, AnswerFollows
<1>5. \A d \in SkillCallers : CallFollows(d)
  BY <1>3, <1>4, OneFollows
<1> QED BY <1>3, <1>5

\* The row of a package becomes committed.
LEMMA ObjectsStay ==
  ASSUME SkillsSound, NEW p \in SkillPackages, SkillCommitted(p)
  PROVE  /\ skillObjects' \in [SkillPackages -> {"none", "pending", "committed"}]
         /\ skillObjects'[p] = "committed"
         /\ \A o \in SkillPackages : skillObjects[o] = "committed" => skillObjects'[o] = "committed"
<1>1. skillObjects \in [SkillPackages -> {"none", "pending", "committed"}]
  BY DEF SkillsSound
<1> QED BY <1>1 DEF SkillCommitted

\* The commit makes a version of a new Skill or of one that is active.
LEMMA CommitVersionStep ==
  ASSUME LibraryInv, NEW c \in SkillCallers, CommitVersion(c)
  PROVE  LibraryInv' /\ VersionsStay /\ \A d \in SkillCallers : CallFollows(d)
<1>a. skillCalls[c].phase = "committing" /\ SkillCallsSound
  BY DEF CommitVersion, Commits, SkillCallIs, LibraryInv
<1>b. PICK q \in AnySkillRequest : q = RequestOf(c)
  BY <1>a, RequestTyped
<1>c. PICK s : s = IF q.skill = 0 THEN CHOOSE new \in SkillIds : skills[new].status = "none" ELSE q.skill
  OBVIOUS
<1>d. PICK made : made = [skill |-> s, version |-> CurrentVersion(s) + 1]
  OBVIOUS
<1> DEFINE p == q.package
<1>0. /\ skillCalls[c].phase = "committing" /\ SkillCallsSound /\ SkillsSound /\ MutationsSound
      /\ CreatesSkill(q) \/ AddsVersion(q)
      /\ skills' = [skills EXCEPT ![s].status = "active", ![s].versions = Append(@, p)]
      /\ SkillCommitted(p) /\ SkillApplied("publish", q, made) /\ SkillAnswers(c, made)
      /\ UNCHANGED skillBucket
  BY <1>b, <1>c, <1>d DEF CommitVersion, Commits, SkillCallIs, LibraryInv
<1>1. p \in SkillPackages /\ q.skill \in 0..MaxSkills
  BY DEF AnySkillRequest
<1>2. /\ s \in SkillIds /\ CurrentVersion(s) < MaxSkillVersions /\ CurrentVersion(s) \in Nat
      /\ \A other \in SkillIds \ {s} :
           skills[other].status = "active" => SkillName[CurrentPackage(other)] # SkillName[p]
  <2>1. CASE CreatesSkill(q)
    <3>1. q.skill = 0 /\ \E new \in SkillIds : skills[new].status = "none"
      BY <2>1 DEF CreatesSkill
    <3>2. s \in SkillIds /\ skills[s].status = "none"
      BY <1>c, <3>1
    <3>3. CurrentVersion(s) = 0 /\ MaxSkillVersions \in Nat \ {0}
      BY <1>0, <3>2, SkillsAssumption DEF SkillsSound
    <3>4. SkillNameFree(p, 0)
      BY <2>1 DEF CreatesSkill
    <3>5. 0 \notin SkillIds
      BY SkillsAssumption DEF SkillIds
    <3> HIDE DEF p
    <3> QED BY <3>2, <3>3, <3>4, <3>5 DEF SkillNameFree
  <2>2. CASE AddsVersion(q)
    <3>1. q.skill # 0 /\ CurrentVersion(q.skill) < MaxSkillVersions /\ SkillNameFree(p, q.skill)
      BY <2>2 DEF AddsVersion, Changeable
    <3>2. s = q.skill /\ s \in SkillIds
      BY <1>c, <1>1, <3>1, SkillsAssumption DEF SkillIds
    <3>3. CurrentVersion(s) \in Nat
      BY <1>0, <3>2, SkillFacts
    <3> QED BY <3>1, <3>2, <3>3 DEF SkillNameFree
  <2> QED BY <1>0, <2>1, <2>2
<1> HIDE DEF p
<1>3. /\ skills' \in [SkillIds -> Skill] /\ skills'[s].status = "active"
      /\ CurrentVersion(s)' = CurrentVersion(s) + 1
      /\ skills'[s].versions[CurrentVersion(s) + 1] = p
      /\ \A n \in 1..CurrentVersion(s) : skills'[s].versions[n] = skills[s].versions[n]
      /\ \A o \in SkillIds \ {s} : skills'[o] = skills[o]
      /\ VersionsStay
  BY <1>0, <1>1, <1>2, SkillGrows
<1>4. /\ skillObjects' \in [SkillPackages -> {"none", "pending", "committed"}]
      /\ skillObjects'[p] = "committed"
      /\ \A o \in SkillPackages : skillObjects[o] = "committed" => skillObjects'[o] = "committed"
  BY <1>0, <1>1, ObjectsStay
<1>5. made \in SkillVersion /\ VersionIs(made, p)'
  <2>1. made \in SkillVersion
    BY <1>d, <1>2, SkillsAssumption DEF SkillVersion, SkillIds
  <2>2. CurrentVersion(s)' \in Nat /\ CurrentVersion(s)' = CurrentVersion(s) + 1
    BY <1>2, <1>3
  <2>3. CurrentVersion(s) + 1 \in 1..CurrentVersion(s)'
    BY <1>2, <2>2
  <2>4. made.skill = s /\ made.version = CurrentVersion(s) + 1
    BY <1>d
  <2> QED BY <1>2, <1>3, <2>1, <2>3, <2>4 DEF VersionIs, SkillIds
<1>6. ASSUME NEW o \in SkillIds, NEW n \in 1..MaxSkillVersions, n <= CurrentVersion(o)'
      PROVE  skillObjects'[skills'[o].versions[n]] = "committed"
  <2>1. CASE n <= CurrentVersion(o)
    <3>1. skillObjects[skills[o].versions[n]] = "committed"
      BY <1>0, <2>1 DEF SkillsSound, LibraryConsistent
    <3>2. skills[o].versions[n] \in SkillPackages /\ n \in 1..CurrentVersion(o)
      BY <1>0, <2>1, SkillFacts
    <3>3. skills'[o].versions[n] = skills[o].versions[n]
      BY <1>3, <3>2
    <3> QED BY <1>4, <3>1, <3>2, <3>3
  <2>2. CASE ~(n <= CurrentVersion(o))
    <3>1. o = s
      BY <1>3, <1>6, <2>2 DEF CurrentVersion
    <3>2. n = CurrentVersion(s) + 1
      BY <1>2, <1>3, <1>6, <2>2, <3>1
    <3> QED BY <1>3, <1>4, <3>1, <3>2
  <2> QED BY <2>1, <2>2
<1>7. CurrentPackage(s)' = p /\ \A o \in SkillIds \ {s} : CurrentPackage(o)' = CurrentPackage(o)
  BY <1>3 DEF CurrentPackage, CurrentVersion
<1>8. ASSUME NEW o \in SkillIds, NEW other \in SkillIds, o # other,
             skills'[o].status = "active", skills'[other].status = "active"
      PROVE  SkillName[CurrentPackage(o)'] # SkillName[CurrentPackage(other)']
  <2>1. CASE o = s
    BY <1>2, <1>3, <1>7, <1>8, <2>1
  <2>2. CASE other = s
    BY <1>2, <1>3, <1>7, <1>8, <2>2
  <2>3. CASE o # s /\ other # s
    <3>1. skills[o].status = "active" /\ skills[other].status = "active"
      BY <1>3, <1>8, <2>3
    <3>2. SkillName[CurrentPackage(o)] # SkillName[CurrentPackage(other)]
      BY <1>0, <1>8, <3>1 DEF SkillsSound, LibraryConsistent
    <3> QED BY <1>7, <2>3, <3>2
  <2> QED BY <2>1, <2>2, <2>3
<1>9. SkillsSound'
  <2>1. LibraryConsistent'
    BY <1>6, <1>8 DEF LibraryConsistent, SkillIds
  <2>2. ASSUME NEW o \in SkillIds
        PROVE  CurrentVersion(o)' <= MaxSkillVersions /\ (skills'[o].status = "none" <=> CurrentVersion(o)' = 0)
    <3>1. CASE o = s
      BY <1>2, <1>3, <3>1, SkillsAssumption
    <3>2. CASE o # s
      BY <1>0, <1>3, <3>2 DEF SkillsSound, CurrentVersion
    <3> QED BY <3>1, <3>2
  <2>3. skillBucket' \subseteq SkillPackages
    BY <1>0 DEF SkillsSound
  <2> QED BY <1>3, <1>4, <2>1, <2>2, <2>3 DEF SkillsSound, Skill, SkillIds
<1>10. MutationsSound'
  <2>1. skillMutations' = skillMutations \cup {[op |-> "publish", request |-> q, made |-> made]}
    BY <1>0 DEF SkillApplied
  <2> DEFINE m == [op |-> "publish", request |-> q, made |-> made]
  <2>2. m.op = "publish" /\ m.made = made /\ m.request = q
    OBVIOUS
  <2>3. q.package = p
    BY DEF p
  <2> HIDE DEF m
  <2>4. /\ m.op \in {"publish", "retire"} /\ m.made \in SkillVersion
        /\ VersionIs(m.made, m.request.package)'
    BY <1>5, <2>2, <2>3 DEF VersionIs
  <2>5. skillMutations' = skillMutations \cup {m}
    BY <2>1 DEF m
  <2> HIDE DEF VersionIs, VersionsStay
  <2> QED BY <1>0, <1>3, <2>4, <2>5, MutationsStay
<1>11. /\ SkillCallsSound' /\ skillCalls'[c].phase = "answered" /\ skillCalls'[c].answer = made
       /\ \A d \in SkillCallers \ {c} : skillCalls'[d] = skillCalls[d]
  BY <1>0, <1>5, SkillAnswered
<1>12. CallFollows(c)
  <2>1. RequestOf(c).package = p
    BY <1>b DEF p
  <2> QED BY <1>0, <1>1, <1>5, <1>11, <2>1 DEF CallFollows
<1>13. \A d \in SkillCallers : CallFollows(d)
  BY <1>11, <1>12, OneFollows
<1> QED BY <1>3, <1>9, <1>10, <1>11, <1>13 DEF LibraryInv


\* The commit finds the version there: only its package may be new.
LEMMA CommitUnchangedStep ==
  ASSUME LibraryInv, NEW c \in SkillCallers, CommitUnchanged(c)
  PROVE  LibraryInv' /\ VersionsStay /\ \A d \in SkillCallers : CallFollows(d)
<1>a. skillCalls[c].phase = "committing" /\ SkillCallsSound /\ SkillsSound /\ MutationsSound
  BY DEF CommitUnchanged, Commits, SkillCallIs, LibraryInv
<1>b. PICK q \in AnySkillRequest : q = RequestOf(c)
  BY <1>a, RequestTyped
<1>c. PICK made : made = [skill |-> q.skill,
                          version |-> IF q.repair = 0 THEN CurrentVersion(q.skill) ELSE q.repair]
  OBVIOUS
<1>0. /\ RepairsVersion(q) \/ RepeatsVersion(q)
      /\ SkillCommitted(q.package)
      /\ \/ SkillApplied("publish", q, made) /\ SkillAnswers(c, made)
         \/ SkillAnswers(c, Refusal) /\ UNCHANGED skillMutations
      /\ UNCHANGED <<skills, skillBucket>>
  BY <1>b, <1>c DEF CommitUnchanged
<1>1. q.package \in SkillPackages /\ q.skill \in 0..MaxSkills
  BY DEF AnySkillRequest
<1>2. made \in SkillVersion /\ VersionIs(made, q.package)
  <2>1. CASE RepairsVersion(q)
    <3>1. /\ q.skill # 0 /\ q.repair \in 1..CurrentVersion(q.skill)
          /\ skills[q.skill].versions[q.repair] = q.package
      BY <2>1 DEF RepairsVersion
    <3>2. q.skill \in SkillIds
      BY <1>1, <3>1, SkillsAssumption DEF SkillIds
    <3>3. CurrentVersion(q.skill) \in 0..MaxSkillVersions
      BY <1>a, <3>2, SkillFacts
    <3>4. made.skill = q.skill /\ made.version = q.repair
      BY <1>c, <3>1, <3>3, SkillsAssumption
    <3>5. q.repair \in 0..MaxSkillVersions
      BY <3>1, <3>3, SkillsAssumption
    <3>6. made \in SkillVersion
      BY <1>c, <1>1, <3>1, <3>3, <3>4, <3>5 DEF SkillVersion
    <3> QED BY <3>1, <3>2, <3>4, <3>6 DEF VersionIs
  <2>2. CASE RepeatsVersion(q)
    <3>1. /\ q.skill # 0 /\ q.repair = 0 /\ skills[q.skill].status = "active"
          /\ skills[q.skill].versions[CurrentVersion(q.skill)] = q.package
      BY <2>2 DEF RepeatsVersion, Changeable, CurrentPackage
    <3>2. q.skill \in SkillIds
      BY <1>1, <3>1, SkillsAssumption DEF SkillIds
    <3>3. CurrentVersion(q.skill) \in 1..MaxSkillVersions
      BY <1>a, <3>1, <3>2, SkillFacts
    <3>4. made.skill = q.skill /\ made.version = CurrentVersion(q.skill)
      BY <1>c, <3>1
    <3>5. CurrentVersion(q.skill) \in 1..CurrentVersion(q.skill) /\ CurrentVersion(q.skill) \in 0..MaxSkillVersions
      BY <3>3, SkillsAssumption
    <3>6. made \in SkillVersion
      BY <1>c, <1>1, <3>1, <3>5 DEF SkillVersion
    <3> QED BY <3>1, <3>2, <3>4, <3>5, <3>6 DEF VersionIs
  <2> QED BY <1>0, <2>1, <2>2
<1>3. VersionsStay
  BY <1>0 DEF VersionsStay, CurrentVersion
<1>4. /\ skillObjects' \in [SkillPackages -> {"none", "pending", "committed"}]
      /\ \A o \in SkillPackages : skillObjects[o] = "committed" => skillObjects'[o] = "committed"
  BY <1>a, <1>0, <1>1, ObjectsStay
<1>5. LibraryConsistent'
  <2>1. ASSUME NEW s \in SkillIds, NEW n \in 1..MaxSkillVersions, n <= CurrentVersion(s)
        PROVE  skillObjects'[skills[s].versions[n]] = "committed"
    <3>1. skillObjects[skills[s].versions[n]] = "committed"
      BY <1>a, <2>1 DEF SkillsSound, LibraryConsistent
    <3>2. skills[s].versions[n] \in SkillPackages
      BY <1>a, <2>1, SkillFacts
    <3> QED BY <1>4, <3>1, <3>2
  <2> QED BY <1>a, <1>0, <2>1 DEF SkillsSound, LibraryConsistent, CurrentVersion, CurrentPackage, SkillIds
<1>6. SkillsSound'
  BY <1>a, <1>0, <1>4, <1>5 DEF SkillsSound, CurrentVersion, Skill, SkillIds
<1>7. CASE SkillApplied("publish", q, made) /\ SkillAnswers(c, made)
  <2> DEFINE m == [op |-> "publish", request |-> q, made |-> made]
  <2>1. skillMutations' = skillMutations \cup {m}
    BY <1>7 DEF SkillApplied
  <2>2. m.op = "publish" /\ m.made = made /\ m.request = q
    OBVIOUS
  <2> HIDE DEF m
  <2>3. VersionIs(made, q.package)'
    BY <1>0, <1>2 DEF VersionIs, CurrentVersion, SkillIds
  <2>4. /\ m.op \in {"publish", "retire"} /\ m.made \in SkillVersion
        /\ VersionIs(m.made, m.request.package)'
    BY <1>2, <2>2, <2>3 DEF VersionIs
  <2>5. MutationsSound'
    BY <1>a, <1>3, <2>1, <2>4, MutationsStay
  <2>6. /\ SkillCallsSound' /\ skillCalls'[c].phase = "answered" /\ skillCalls'[c].answer = made
        /\ \A d \in SkillCallers \ {c} : skillCalls'[d] = skillCalls[d]
    BY <1>a, <1>2, <1>7, SkillAnswered
  <2>7. CallFollows(c)
    BY <1>a, <1>b, <1>2, <1>3, <2>6, AnswerFollows
  <2>8. \A d \in SkillCallers : CallFollows(d)
    BY <2>6, <2>7, OneFollows
  <2> QED BY <1>3, <1>6, <2>5, <2>6, <2>8 DEF LibraryInv
<1>8. CASE SkillAnswers(c, Refusal) /\ UNCHANGED skillMutations
  <2>1. Refusal \in SkillVersion
    BY SkillsAssumption DEF Refusal, SkillVersion
  <2>2. /\ SkillCallsSound' /\ skillCalls'[c].phase = "answered" /\ skillCalls'[c].answer = Refusal
        /\ \A d \in SkillCallers \ {c} : skillCalls'[d] = skillCalls[d]
    BY <1>a, <1>8, <2>1, SkillAnswered
  <2>3. CallFollows(c)
    BY <1>a, <1>3, <2>1, <2>2, AnswerFollows
  <2>4. \A d \in SkillCallers : CallFollows(d)
    BY <2>2, <2>3, OneFollows
  <2>5. MutationsSound'
    BY <1>a, <1>0, <1>8 DEF MutationsSound, VersionIs, SkillVersion, CurrentVersion, SkillIds
  <2> QED BY <1>3, <1>6, <2>2, <2>4, <2>5 DEF LibraryInv
<1> QED BY <1>0, <1>7, <1>8

\* What goes on in a call that was started.
LEMMA SkillCallGoesOnStep ==
  ASSUME LibraryInv, NEW c \in SkillCallers, SkillCallGoesOn(c)
  PROVE  LibraryInv' /\ VersionsStay /\ \A d \in SkillCallers : CallFollows(d)
BY PutSkillStep, CommitRefusedStep, CommitUnchangedStep, CommitVersionStep DEF SkillCallGoesOn

\* A Skill is retired, and an object is lost.
LEMMA LibraryStep ==
  ASSUME LibraryInv,
         \/ \E k \in SkillKeys, s \in SkillIds : RetireSkill(k, s)
         \/ \E p \in SkillPackages : LoseSkillObject(p)
  PROVE  LibraryInv' /\ VersionsStay /\ UNCHANGED skillCalls
<1>1. ASSUME NEW p \in SkillPackages, LoseSkillObject(p)
      PROVE  LibraryInv' /\ VersionsStay /\ UNCHANGED skillCalls
  <2>1. /\ UNCHANGED <<skills, skillObjects, skillMutations, skillCalls>>
        /\ skillBucket' \subseteq skillBucket
    BY <1>1 DEF LoseSkillObject, skillLibrary
  <2>2. SkillsSound'
    BY <2>1 DEF LibraryInv, SkillsSound, LibraryConsistent, CurrentVersion, CurrentPackage, Skill, SkillIds
  <2>3. MutationsSound'
    BY <2>1 DEF LibraryInv, MutationsSound, VersionIs, SkillVersion, CurrentVersion, SkillIds
  <2>4. SkillCallsSound'
    BY <2>1 DEF LibraryInv, SkillCallsSound, SkillCall, AnySkillRequest, SkillVersion
  <2>5. VersionsStay
    BY <2>1 DEF VersionsStay, CurrentVersion
  <2> QED BY <2>1, <2>2, <2>3, <2>4, <2>5 DEF LibraryInv
<1>2. ASSUME NEW k \in SkillKeys, NEW s \in SkillIds, RetireSkill(k, s)
      PROVE  LibraryInv' /\ VersionsStay /\ UNCHANGED skillCalls
  <2>0. SkillsSound /\ MutationsSound /\ SkillCallsSound /\ skills \in [SkillIds -> Skill]
    BY DEF LibraryInv, SkillsSound
  <2>1. PICK q : q = [key |-> k, skill |-> s, expected |-> CurrentVersion(s), repair |-> 0,
                      package |-> CurrentPackage(s)]
    OBVIOUS
  <2>2. PICK made : made = [skill |-> s, version |-> CurrentVersion(s)]
    OBVIOUS
  <2>3. /\ skills[s].status = "active" /\ skills' = [skills EXCEPT ![s].status = "retired"]
        /\ SkillApplied("retire", q, made)
        /\ UNCHANGED <<skillObjects, skillBucket, skillCalls>>
    BY <1>2, <2>1, <2>2 DEF RetireSkill
  <2> DEFINE y == [skills[s] EXCEPT !.status = "retired"]
  <2>4. y \in Skill /\ y.status = "retired" /\ y.versions = skills[s].versions
    BY <2>0 DEF Skill
  <2>5. skills' = [skills EXCEPT ![s] = y]
    BY <2>3
  <2> HIDE DEF y
  <2>6. /\ skills' \in [SkillIds -> Skill] /\ skills'[s].status = "retired"
        /\ \A o \in SkillIds : skills'[o].versions = skills[o].versions
        /\ \A o \in SkillIds \ {s} : skills'[o] = skills[o]
    BY <2>0, <2>4, <2>5
  <2>7. /\ \A o \in SkillIds : CurrentVersion(o)' = CurrentVersion(o)
        /\ \A o \in SkillIds : CurrentPackage(o)' = CurrentPackage(o)
    BY <2>6 DEF CurrentVersion, CurrentPackage
  <2>8. VersionsStay
    BY <2>6, <2>7 DEF VersionsStay
  <2>9. LibraryConsistent'
    <3>1. ASSUME NEW o \in SkillIds
          PROVE  skills'[o].status = "active" => skills[o].status = "active"
      BY <2>6
    <3>2. \A o \in SkillIds, n \in 1..MaxSkillVersions :
            n <= CurrentVersion(o)' => skillObjects'[skills'[o].versions[n]] = "committed"
      BY <2>0, <2>3, <2>6, <2>7 DEF SkillsSound, LibraryConsistent
    <3>3. \A o, other \in SkillIds :
            o # other /\ skills'[o].status = "active" /\ skills'[other].status = "active"
              => SkillName[CurrentPackage(o)'] # SkillName[CurrentPackage(other)']
      BY <2>0, <2>7, <3>1 DEF SkillsSound, LibraryConsistent
    <3> QED BY <3>2, <3>3 DEF LibraryConsistent, SkillIds
  <2>10. ASSUME NEW o \in SkillIds
         PROVE  CurrentVersion(o)' <= MaxSkillVersions /\ (skills'[o].status = "none" <=> CurrentVersion(o)' = 0)
    BY <2>0, <2>3, <2>6, <2>7 DEF SkillsSound
  <2>11. SkillsSound'
    BY <2>0, <2>3, <2>6, <2>9, <2>10 DEF SkillsSound, Skill, SkillIds
  <2>12. CurrentVersion(s) \in 1..MaxSkillVersions /\ CurrentVersion(s) \in 1..CurrentVersion(s)
    BY <2>0, <2>3, SkillFacts, SkillsAssumption
  <2>13. made \in SkillVersion /\ VersionIs(made, CurrentPackage(s))
    <3>1. s \in 0..MaxSkills /\ CurrentVersion(s) \in 0..MaxSkillVersions
      BY <2>12, SkillsAssumption DEF SkillIds
    <3>2. made \in SkillVersion /\ made.skill = s /\ made.version = CurrentVersion(s)
      BY <2>2, <3>1 DEF SkillVersion
    <3> QED BY <2>12, <3>2 DEF VersionIs, CurrentPackage
  <2> DEFINE m == [op |-> "retire", request |-> q, made |-> made]
  <2>14. skillMutations' = skillMutations \cup {m}
    BY <2>3 DEF SkillApplied
  <2>15. m.op = "retire" /\ m.made = made /\ m.request.package = CurrentPackage(s)
    BY <2>1
  <2> HIDE DEF m
  <2>16. VersionIs(m.made, m.request.package)'
    <3>1. VersionIs(m.made, m.request.package)
      BY <2>13, <2>15
    <3> QED BY <2>13, <2>15, <2>8, <3>1 DEF VersionIs, VersionsStay, SkillIds
  <2>17. MutationsSound'
    BY <2>0, <2>8, <2>13, <2>14, <2>15, <2>16, MutationsStay
  <2>18. SkillCallsSound'
    BY <2>0, <2>3 DEF SkillCallsSound, SkillCall, AnySkillRequest, SkillVersion
  <2> QED BY <2>3, <2>8, <2>11, <2>17, <2>18 DEF LibraryInv
<1> QED BY <1>1, <1>2


\* A receipt stays true as long as nothing is taken back.
LEMMA ReceiptStays ==
  ASSUME NEW r \in RecipeReceipt, NEW i, ReceiptHolds(r, i), VersionsStay,
         agentCreations \subseteq agentCreations'
  PROVE  ReceiptHolds(r, i)'
<1>1. ASSUME NEW n \in 1..Len(r.skills)
      PROVE  VersionIs(r.skills[n], RecipePlan[n])'
  <2>1. VersionIs(r.skills[n], RecipePlan[n])
    BY DEF ReceiptHolds
  <2>2. r.skills \in Seq(SkillVersion)
    BY DEF RecipeReceipt
  <2>3. r.skills[n] \in SkillVersion
    BY <2>2
  <2> QED BY <2>1, <2>3 DEF VersionIs, VersionsStay, SkillIds
<1>2. r.agent # 0 =>
        /\ Len(r.skills) = Len(RecipePlan)
        /\ \E a \in agentCreations' : a.installation = i /\ a.agent = r.agent /\ a.skills = r.skills
  BY DEF ReceiptHolds
<1>3. Len(r.skills) <= Len(RecipePlan)
  BY DEF ReceiptHolds
<1> QED BY <1>1, <1>2, <1>3 DEF ReceiptHolds

\* Receipts without Skills and Agent say nothing.
LEMMA EmptyReceipt ==
  ASSUME NEW status \in {"none", "installing", "installed"}, NEW i
  PROVE  Receipt(status, <<>>, 0) \in RecipeReceipt /\ ReceiptHolds(Receipt(status, <<>>, 0), i)
<1>1. <<>> \in Seq(SkillVersion) /\ Len(<<>>) = 0
  OBVIOUS
<1>2. Len(RecipePlan) \in Nat
  BY RecipesAssumption
<1>3. Receipt(status, <<>>, 0) \in RecipeReceipt
  BY <1>1 DEF Receipt, RecipeReceipt
<1>4. Receipt(status, <<>>, 0).skills = <<>> /\ Receipt(status, <<>>, 0).agent = 0
  BY DEF Receipt
<1> QED BY <1>1, <1>2, <1>3, <1>4 DEF ReceiptHolds

\* A call no step is at keeps what it has read and asked for.
LEMMA RecipeCallStays ==
  ASSUME RecipesInv, NEW c \in SkillCallers, recipeCalls'[c] = recipeCalls[c], VersionsStay,
         recipeCalls[c].phase # "idle" => CallFollows(c), agentCreations \subseteq agentCreations'
  PROVE  RecipeCallHolds(c)'
<1>1. RecipeCallHolds(c) /\ recipeCalls[c] \in RecipeCall
  BY DEF RecipesInv, RecipeCallsSound
<1>2. recipeCalls[c].receipt \in RecipeReceipt
  BY <1>1 DEF RecipeCall
<1>3. ReceiptHolds(recipeCalls[c].receipt, recipeCalls[c].installation)'
  <2>1. PICK r, i : r = recipeCalls[c].receipt /\ i = recipeCalls[c].installation
    OBVIOUS
  <2>2. ReceiptHolds(r, i)'
    BY <1>1, <1>2, <2>1, ReceiptStays DEF RecipeCallHolds
  <2> QED BY <2>1, <2>2 DEF ReceiptHolds, VersionIs
<1>4. recipeCalls[c].phase \in {"previewing", "importing"} => skillCalls'[c].phase = "idle"
  BY <1>1 DEF RecipeCallHolds, CallFollows
<1>5. ASSUME recipeCalls[c].phase = "publishing"
      PROVE  /\ recipeCalls[c].receipt.agent = 0 /\ NextSkill(c) <= Len(RecipePlan)
             /\ skillCalls'[c].phase \in {"putting", "committing", "answered"}
             /\ skillCalls'[c].phase \in {"putting", "committing"} =>
                  RequestOf(c)'.package = RecipePlan[NextSkill(c)]
             /\ skillCalls'[c].phase = "answered" /\ skillCalls'[c].answer # Refusal =>
                  \E v : skillCalls'[c].answer = v /\ VersionIs(v, RecipePlan[NextSkill(c)])'
  <2>1. /\ recipeCalls[c].receipt.agent = 0 /\ NextSkill(c) <= Len(RecipePlan)
        /\ skillCalls[c].phase \in {"putting", "committing", "answered"}
        /\ skillCalls[c].phase \in {"putting", "committing"} =>
             RequestOf(c).package = RecipePlan[NextSkill(c)]
        /\ skillCalls[c].phase = "answered" /\ skillCalls[c].answer # Refusal =>
             VersionIs(skillCalls[c].answer, RecipePlan[NextSkill(c)])
    BY <1>1, <1>5 DEF RecipeCallHolds
  <2>2. PICK p : p = RecipePlan[NextSkill(c)] /\ p = RecipePlan[NextSkill(c)']
    BY DEF NextSkill
  <2>3. CASE skillCalls'[c] = skillCalls[c]
    <3>1. ASSUME skillCalls[c].phase = "answered", skillCalls[c].answer # Refusal
          PROVE  \E v : skillCalls'[c].answer = v /\ VersionIs(v, p)'
      <4>1. PICK v : v = skillCalls[c].answer
        OBVIOUS
      <4>2. v \in SkillVersion
        BY <4>1 DEF RecipesInv, LibraryInv, SkillCallsSound, SkillCall
      <4>3. VersionIs(v, p)
        BY <2>1, <2>2, <3>1, <4>1
      <4>4. VersionIs(v, p)'
        BY <4>2, <4>3 DEF VersionIs, VersionsStay, SkillIds
      <4> QED BY <2>3, <4>1, <4>4
    <3>2. RequestOf(c)' = RequestOf(c)
      BY <2>3 DEF RequestOf
    <3>3. skillCalls'[c].phase = "answered" /\ skillCalls'[c].answer # Refusal =>
            \E v : skillCalls'[c].answer = v /\ VersionIs(v, RecipePlan[NextSkill(c)])'
      <4>1. \A v : VersionIs(v, p)' => VersionIs(v, RecipePlan[NextSkill(c)])'
        BY <2>2 DEF VersionIs
      <4> QED BY <2>3, <3>1, <4>1
    <3> QED BY <2>1, <2>3, <3>2, <3>3
  <2>4. CASE skillCalls'[c] # skillCalls[c]
    <3>1. skillCalls[c].phase \in {"putting", "committing"} /\ RequestOf(c).package = p
      BY <1>5, <2>1, <2>2, <2>4 DEF CallFollows
    <3>2. CASE skillCalls'[c].phase \in {"putting", "committing"} /\ skillCalls'[c].request = skillCalls[c].request
      <4>1. RequestOf(c)' = RequestOf(c)
        BY <3>2 DEF RequestOf
      <4> QED BY <2>1, <3>1, <3>2, <4>1
    <3>3. CASE /\ skillCalls'[c].phase = "answered"
               /\ \E v \in SkillVersion, o \in SkillPackages :
                    /\ skillCalls'[c].answer = v /\ RequestOf(c).package = o
                    /\ v = Refusal \/ VersionIs(v, o)'
      <4>1. PICK v \in SkillVersion, o \in SkillPackages :
              /\ skillCalls'[c].answer = v /\ RequestOf(c).package = o
              /\ v = Refusal \/ VersionIs(v, o)'
        BY <3>3
      <4>2. o = p
        BY <3>1, <4>1
      <4>3. v # Refusal => VersionIs(v, RecipePlan[NextSkill(c)])'
        BY <2>2, <4>1, <4>2 DEF VersionIs
      <4> QED BY <2>1, <3>3, <4>1, <4>3
    <3> QED BY <1>5, <2>4, <3>2, <3>3 DEF CallFollows
  <2> QED BY <2>3, <2>4
<1>6. NextSkill(c)' = NextSkill(c)
  BY DEF NextSkill
<1>7. recipeCalls[c].phase # "idle" =>
        recipeCalls[c].client \in RecipeClients /\ recipeCalls[c].installation \in Installations
  BY <1>1 DEF RecipeCallHolds
<1>8. ASSUME recipeCalls'[c].phase = "publishing"
      PROVE  /\ recipeCalls'[c].receipt.agent = 0 /\ NextSkill(c)' <= Len(RecipePlan)
             /\ skillCalls'[c].phase \in {"putting", "committing", "answered"}
             /\ skillCalls'[c].phase \in {"putting", "committing"} =>
                  RequestOf(c)'.package = RecipePlan[NextSkill(c)']
             /\ skillCalls'[c].phase = "answered" /\ skillCalls'[c].answer # Refusal =>
                  VersionIs(skillCalls[c].answer, RecipePlan[NextSkill(c)])'
  BY <1>5, <1>6, <1>8 DEF VersionIs
<1> QED BY <1>3, <1>4, <1>7, <1>8 DEF RecipeCallHolds


\* The rows stay.
LEMMA RowsStay ==
  ASSUME RowsHold, UNCHANGED installations, VersionsStay, agentCreations \subseteq agentCreations'
  PROVE  RowsHold'
<1>1. ASSUME NEW i \in Installations
      PROVE  ReceiptHolds(installations[i].receipt, i)'
  <2>1. installations[i].receipt \in RecipeReceipt /\ ReceiptHolds(installations[i].receipt, i)
    BY DEF RowsHold
  <2>2. PICK r \in RecipeReceipt : r = installations[i].receipt
    BY <2>1
  <2>3. ReceiptHolds(r, i)'
    BY <2>1, <2>2, ReceiptStays
  <2>4. installations'[i].receipt = r
    BY <2>2
  <2> QED BY <2>3, <2>4 DEF ReceiptHolds, VersionIs
<1> QED BY <1>1 DEF RowsHold, RecipeReceipt, SkillVersion

\* One row is written.
LEMMA RowWritten ==
  ASSUME RowsHold, NEW i \in Installations, NEW status \in {"none", "installing", "installed"},
         NEW r \in RecipeReceipt, ReceiptHolds(r, i)', VersionsStay,
         agentCreations \subseteq agentCreations',
         \/ installations' = [installations EXCEPT ![i] = [status |-> status, receipt |-> r]]
         \/ installations' = [installations EXCEPT ![i].receipt = r]
  PROVE  RowsHold'
<1> DEFINE Row == [status : {"none", "installing", "installed"}, receipt : RecipeReceipt]
<1>1. installations \in [Installations -> Row]
  BY DEF RowsHold
<1>2. PICK y \in Row : y.receipt = r /\ installations' = [installations EXCEPT ![i] = y]
  <2>1. CASE installations' = [installations EXCEPT ![i] = [status |-> status, receipt |-> r]]
    <3>1. [status |-> status, receipt |-> r] \in Row /\ [status |-> status, receipt |-> r].receipt = r
      OBVIOUS
    <3> QED BY <2>1, <3>1
  <2>2. CASE installations' = [installations EXCEPT ![i].receipt = r]
    <3>1. [installations[i] EXCEPT !.receipt = r] \in Row /\ [installations[i] EXCEPT !.receipt = r].receipt = r
      BY <1>1
    <3>2. installations' = [installations EXCEPT ![i] = [installations[i] EXCEPT !.receipt = r]]
      BY <2>2
    <3> QED BY <3>1, <3>2
  <2> QED BY <2>1, <2>2
<1> HIDE DEF Row
<1>3. /\ installations' \in [Installations -> Row] /\ installations'[i].receipt = r
      /\ \A j \in Installations \ {i} : installations'[j] = installations[j]
  BY <1>1, <1>2
<1>4. ASSUME NEW j \in Installations
      PROVE  ReceiptHolds(installations[j].receipt, j)'
  <2>1. CASE j = i
    BY <1>3, <2>1 DEF ReceiptHolds, VersionIs
  <2>2. CASE j # i
    <3>1. installations[j].receipt \in RecipeReceipt /\ ReceiptHolds(installations[j].receipt, j)
      BY DEF RowsHold
    <3>2. PICK o \in RecipeReceipt : o = installations[j].receipt
      BY <3>1
    <3>3. ReceiptHolds(o, j)'
      BY <3>1, <3>2, ReceiptStays
    <3>4. installations'[j].receipt = o
      BY <1>3, <2>2, <3>2
    <3> QED BY <3>3, <3>4 DEF ReceiptHolds, VersionIs
  <2> QED BY <2>1, <2>2
<1> QED BY <1>3, <1>4 DEF RowsHold, Row, RecipeReceipt, SkillVersion

\* A step of the library leaves the installations as they are.
LEMMA RecipesKept ==
  ASSUME RecipesInv, LibraryInv', VersionsStay, UNCHANGED <<recipeRows, recipeCalls>>,
         \A c \in SkillCallers : recipeCalls[c].phase # "idle" => CallFollows(c)
  PROVE  RecipesInv'
<1>1. UNCHANGED <<installations, agentCreations, recipeCalls>>
  BY DEF recipeRows
<1>2. RowsHold'
  BY <1>1, RowsStay DEF RecipesInv
<1>3. CreationsSound'
  BY <1>1 DEF RecipesInv, CreationsSound, SkillVersion
<1>4. \A c \in SkillCallers : RecipeCallHolds(c)'
  BY <1>1, RecipeCallStays
<1>5. RecipeCallsSound'
  BY <1>1, <1>4 DEF RecipesInv, RecipeCallsSound, RecipeCall, RecipeReceipt, SkillVersion
<1> QED BY <1>2, <1>3, <1>5 DEF RecipesInv

\* One call moves; the others stay.
LEMMA RecipeMoves ==
  ASSUME RecipesInv, LibraryInv', VersionsStay, NEW c \in SkillCallers,
         recipeCalls' \in [SkillCallers -> RecipeCall], RecipeCallHolds(c)',
         \A d \in SkillCallers \ {c} : recipeCalls'[d] = recipeCalls[d] /\ skillCalls'[d] = skillCalls[d],
         RowsHold', CreationsSound', agentCreations \subseteq agentCreations'
  PROVE  RecipesInv'
<1>1. ASSUME NEW d \in SkillCallers \ {c}
      PROVE  RecipeCallHolds(d)'
  <2>1. CallFollows(d)
    BY DEF CallFollows
  <2> QED BY <2>1, RecipeCallStays
<1>2. RecipeCallsSound'
  BY <1>1 DEF RecipeCallsSound, RecipeCall, RecipeReceipt, SkillVersion
<1> QED BY <1>2 DEF RecipesInv

\* A call is over.
LEMMA RecipeCallEnds ==
  ASSUME RecipesInv, NEW c \in SkillCallers, RecipeCallOver(c)
  PROVE  /\ recipeCalls' \in [SkillCallers -> RecipeCall] /\ RecipeCallHolds(c)'
         /\ \A d \in SkillCallers \ {c} : recipeCalls'[d] = recipeCalls[d]
<1>1. IdleRecipeCall \in RecipeCall
  BY EmptyReceipt DEF IdleRecipeCall, RecipeCall
<1>2. recipeCalls \in [SkillCallers -> RecipeCall]
  BY DEF RecipesInv, RecipeCallsSound
<1>3. /\ recipeCalls' \in [SkillCallers -> RecipeCall] /\ recipeCalls'[c] = IdleRecipeCall
      /\ \A d \in SkillCallers \ {c} : recipeCalls'[d] = recipeCalls[d]
  BY <1>1, <1>2 DEF RecipeCallOver
<1>4. recipeCalls'[c].phase = "idle" /\ recipeCalls'[c].receipt = Receipt("none", <<>>, 0)
  BY <1>3 DEF IdleRecipeCall
<1>5. recipeCalls'[c].receipt.agent = 0 /\ recipeCalls'[c].receipt.skills = <<>>
  BY <1>4 DEF Receipt
<1>6. Len(<<>>) = 0 /\ Len(RecipePlan) \in Nat
  BY RecipesAssumption
<1>7. RecipeCallHolds(c)'
  BY <1>4, <1>5, <1>6 DEF RecipeCallHolds, ReceiptHolds
<1> QED BY <1>3, <1>7

\* A call that is over leaves everything else as it was.
LEMMA OnlyOver ==
  ASSUME RecipesInv, NEW c \in SkillCallers, RecipeCallOver(c), LibraryInv', VersionsStay,
         \A d \in SkillCallers \ {c} : skillCalls'[d] = skillCalls[d],
         UNCHANGED recipeRows
  PROVE  RecipesInv'
<1>1. /\ recipeCalls' \in [SkillCallers -> RecipeCall] /\ RecipeCallHolds(c)'
      /\ \A d \in SkillCallers \ {c} : recipeCalls'[d] = recipeCalls[d]
  BY RecipeCallEnds
<1>2. UNCHANGED <<installations, agentCreations>>
  BY DEF recipeRows
<1>3. RowsHold'
  BY <1>2, RowsStay DEF RecipesInv
<1>4. CreationsSound'
  BY <1>2 DEF RecipesInv, CreationsSound, SkillVersion
<1> QED BY <1>1, <1>2, <1>3, <1>4, RecipeMoves

\* Nothing of the library changes.
LEMMA LibraryKept ==
  ASSUME LibraryInv, UNCHANGED skillVars
  PROVE  LibraryInv' /\ VersionsStay /\ UNCHANGED <<skills, skillCalls>>
<1>1. UNCHANGED <<skills, skillObjects, skillBucket, skillMutations, skillCalls>>
  BY DEF skillVars, skillLibrary
<1>2. SkillsSound'
  BY <1>1 DEF LibraryInv, SkillsSound, LibraryConsistent, CurrentVersion, CurrentPackage, Skill, SkillIds
<1>3. MutationsSound'
  BY <1>1 DEF LibraryInv, MutationsSound, VersionIs, SkillVersion, CurrentVersion, SkillIds
<1>4. SkillCallsSound'
  BY <1>1 DEF LibraryInv, SkillCallsSound, SkillCall, AnySkillRequest, SkillVersion
<1>5. VersionsStay
  BY <1>1 DEF VersionsStay, CurrentVersion
<1> QED BY <1>1, <1>2, <1>3, <1>4, <1>5 DEF LibraryInv


\* What a recipe call is, and the row it is at.
LEMMA RecipeFacts ==
  ASSUME RecipesInv, NEW c \in SkillCallers
  PROVE  /\ recipeCalls \in [SkillCallers -> RecipeCall] /\ recipeCalls[c] \in RecipeCall
         /\ recipeCalls[c].receipt \in RecipeReceipt /\ RecipeCallHolds(c)
         /\ recipeCalls[c].phase # "idle" =>
              recipeCalls[c].client \in RecipeClients /\ recipeCalls[c].installation \in Installations
         /\ ReceiptHolds(recipeCalls[c].receipt, recipeCalls[c].installation)
         /\ RowsHold /\ CreationsSound /\ LibraryInv /\ Len(RecipePlan) \in Nat
BY RecipesAssumption DEF RecipesInv, RecipeCallsSound, RecipeCallHolds, RecipeCall

\* A call of another phase with a receipt that holds, while the library is asked nothing.
LEMMA RecipeCallGoesOn ==
  ASSUME RecipesInv, NEW c \in SkillCallers, NEW y \in RecipeCall,
         y.phase \in {"previewing", "importing"},
         y.client \in RecipeClients, y.installation \in Installations,
         NEW r, NEW i, r = y.receipt, i = y.installation, ReceiptHolds(r, i)',
         recipeCalls' = [recipeCalls EXCEPT ![c] = y], skillCalls'[c].phase = "idle"
  PROVE  /\ recipeCalls' \in [SkillCallers -> RecipeCall] /\ RecipeCallHolds(c)'
         /\ \A d \in SkillCallers \ {c} : recipeCalls'[d] = recipeCalls[d]
<1>1. recipeCalls \in [SkillCallers -> RecipeCall]
  BY RecipeFacts
<1>2. /\ recipeCalls' \in [SkillCallers -> RecipeCall] /\ recipeCalls'[c] = y
      /\ \A d \in SkillCallers \ {c} : recipeCalls'[d] = recipeCalls[d]
  BY <1>1
<1>3. ReceiptHolds(recipeCalls[c].receipt, recipeCalls[c].installation)'
  BY <1>2 DEF ReceiptHolds, VersionIs
<1>4. RecipeCallHolds(c)'
  BY <1>2, <1>3 DEF RecipeCallHolds
<1> QED BY <1>2, <1>4

\* An installation begins with its preview.
LEMMA BeginInstallStep ==
  ASSUME RecipesInv, NEW c \in SkillCallers, NEW i \in Installations, BeginInstall(c, i)
  PROVE  RecipesInv'
<1> DEFINE none == Receipt("none", <<>>, 0)
           y == [IdleRecipeCall EXCEPT !.phase = "previewing", !.client = InstallationClient[i],
                                       !.installation = i]
<1>1. /\ RecipeCallIs(c, "idle") /\ SkillCallIs(c, "idle") /\ UNCHANGED <<skillVars, recipeRows>>
      /\ recipeCalls' = [recipeCalls EXCEPT ![c] = y]
  BY DEF BeginInstall
<1>2. LibraryInv' /\ VersionsStay /\ UNCHANGED <<skills, skillCalls>>
  BY <1>1, LibraryKept DEF RecipesInv
<1>3. none \in RecipeReceipt /\ ReceiptHolds(none, i)
  BY EmptyReceipt
<1>4. InstallationClient[i] \in RecipeClients
  BY RecipesAssumption
<1>5. IdleRecipeCall \in RecipeCall /\ IdleRecipeCall.receipt = none
  BY <1>3 DEF IdleRecipeCall, RecipeCall
<1> HIDE DEF none
<1>6. /\ y \in RecipeCall /\ y.phase = "previewing" /\ y.client \in RecipeClients /\ y.installation = i
      /\ y.receipt = none
  BY <1>3, <1>4, <1>5 DEF RecipeCall
<1> HIDE DEF y
<1>7. PICK r \in RecipeReceipt : r = none /\ ReceiptHolds(r, i)
  BY <1>3
<1>8. UNCHANGED <<installations, agentCreations>>
  BY <1>1 DEF recipeRows
<1>9. ReceiptHolds(r, i)'
  BY <1>2, <1>7, <1>8, ReceiptStays
<1>10. PICK call \in RecipeCall : call = y
  BY <1>6
<1>11. /\ recipeCalls' \in [SkillCallers -> RecipeCall] /\ RecipeCallHolds(c)'
       /\ \A d \in SkillCallers \ {c} : recipeCalls'[d] = recipeCalls[d]
  <2>1. skillCalls'[c].phase = "idle"
    BY <1>1, <1>2 DEF SkillCallIs
  <2>2. /\ call.phase \in {"previewing", "importing"} /\ call.client \in RecipeClients
        /\ call.installation \in Installations /\ r = call.receipt /\ i = call.installation
        /\ recipeCalls' = [recipeCalls EXCEPT ![c] = call]
    BY <1>1, <1>6, <1>7, <1>10
  <2> QED BY <1>9, <2>1, <2>2, RecipeCallGoesOn
<1>12. RowsHold' /\ CreationsSound'
  BY <1>2, <1>8, RowsStay DEF RecipesInv, CreationsSound, SkillVersion
<1> QED BY <1>2, <1>8, <1>11, <1>12, RecipeMoves

\* Another call continues an installation from the receipt in its row.
LEMMA ContinueStep ==
  ASSUME RecipesInv, NEW c \in SkillCallers, NEW client \in RecipeClients, NEW i \in Installations,
         Continue(c, client, i)
  PROVE  RecipesInv'
<1>0. RowsHold
  BY DEF RecipesInv
<1>1. PICK r : r = installations[i].receipt
  OBVIOUS
<1>2. PICK y : y = [phase |-> "importing", client |-> client, installation |-> i, receipt |-> r]
  OBVIOUS
<1>3. /\ RecipeCallIs(c, "idle") /\ SkillCallIs(c, "idle") /\ UNCHANGED <<skillVars, recipeRows>>
      /\ recipeCalls' = [recipeCalls EXCEPT ![c] = y]
  BY <1>1, <1>2 DEF Continue
<1>4. LibraryInv' /\ VersionsStay /\ UNCHANGED <<skills, skillCalls>>
  BY <1>3, LibraryKept DEF RecipesInv
<1>5. r \in RecipeReceipt /\ ReceiptHolds(r, i)
  BY <1>0, <1>1 DEF RowsHold
<1>6. UNCHANGED <<installations, agentCreations>>
  BY <1>3 DEF recipeRows
<1>7. ReceiptHolds(r, i)'
  BY <1>4, <1>5, <1>6, ReceiptStays
<1>8. y \in RecipeCall /\ y.phase = "importing" /\ y.client = client /\ y.installation = i /\ y.receipt = r
  BY <1>2, <1>5 DEF RecipeCall
<1>9. skillCalls'[c].phase = "idle"
  BY <1>3, <1>4 DEF SkillCallIs
<1>10. /\ recipeCalls' \in [SkillCallers -> RecipeCall] /\ RecipeCallHolds(c)'
       /\ \A d \in SkillCallers \ {c} : recipeCalls'[d] = recipeCalls[d]
  BY <1>3, <1>7, <1>8, <1>9, RecipeCallGoesOn
<1>11. RowsHold' /\ CreationsSound'
  BY <1>0, <1>4, <1>6, RowsStay DEF RecipesInv, CreationsSound, SkillVersion
<1> QED BY <1>4, <1>6, <1>10, <1>11, RecipeMoves

\* The row of an installation is inserted, unless there is one now.
LEMMA InsertInstallationStep ==
  ASSUME RecipesInv, NEW c \in SkillCallers, InsertInstallation(c)
  PROVE  RecipesInv'
<1>0. /\ recipeCalls[c].phase = "previewing" /\ UNCHANGED skillVars /\ UNCHANGED agentCreations
  BY DEF InsertInstallation, RecipeCallIs
<1>1. LibraryInv' /\ VersionsStay /\ UNCHANGED <<skills, skillCalls>>
  BY <1>0, LibraryKept DEF RecipesInv
<1>2. CASE RecipeCallOver(c) /\ UNCHANGED installations
  <2>1. UNCHANGED recipeRows
    BY <1>0, <1>2 DEF recipeRows
  <2> QED BY <1>1, <1>2, <2>1, OnlyOver
<1>3. CASE ~(RecipeCallOver(c) /\ UNCHANGED installations)
  <2>1. PICK i \in Installations : i = recipeCalls[c].installation
    BY <1>0, RecipeFacts
  <2>2. PICK r \in RecipeReceipt : r = Receipt("installing", <<>>, 0) /\ ReceiptHolds(r, i)
    BY EmptyReceipt
  <2>3. /\ installations' = [installations EXCEPT ![i] = [status |-> "installing", receipt |-> r]]
        /\ recipeCalls' = [recipeCalls EXCEPT ![c].phase = "importing", ![c].receipt = r]
    BY <1>3, <2>1, <2>2 DEF InsertInstallation
  <2>4. ReceiptHolds(r, i)'
    BY <1>0, <1>1, <2>2, ReceiptStays
  <2>5. RowsHold'
    BY <1>0, <1>1, <2>3, <2>4, RowWritten DEF RecipesInv
  <2>6. recipeCalls[c] \in RecipeCall /\ recipeCalls[c].client \in RecipeClients
    BY <1>0, RecipeFacts
  <2>7. PICK y \in RecipeCall :
          /\ y.phase = "importing" /\ y.client = recipeCalls[c].client
          /\ y.installation = i /\ y.receipt = r
          /\ recipeCalls' = [recipeCalls EXCEPT ![c] = y]
    <3> DEFINE z == [recipeCalls[c] EXCEPT !.phase = "importing", !.receipt = r]
    <3>1. z \in RecipeCall
      BY <2>6 DEF RecipeCall
    <3>2. z.phase = "importing" /\ z.client = recipeCalls[c].client /\ z.installation = i /\ z.receipt = r
      BY <2>1, <2>6 DEF RecipeCall
    <3>3. recipeCalls' = [recipeCalls EXCEPT ![c] = z]
      BY <2>3
    <3> HIDE DEF z
    <3> QED BY <3>1, <3>2, <3>3
  <2>8. skillCalls'[c].phase = "idle"
    BY <1>0, <1>1, RecipeFacts DEF RecipeCallHolds
  <2>9. /\ recipeCalls' \in [SkillCallers -> RecipeCall] /\ RecipeCallHolds(c)'
        /\ \A d \in SkillCallers \ {c} : recipeCalls'[d] = recipeCalls[d]
    BY <2>4, <2>6, <2>7, <2>8, RecipeCallGoesOn
  <2>10. CreationsSound'
    BY <1>0 DEF RecipesInv, CreationsSound, SkillVersion
  <2> QED BY <1>0, <1>1, <2>5, <2>9, <2>10, RecipeMoves
<1> QED BY <1>2, <1>3


\* A receipt with one Skill more, in the row and in the call.
LEMMA RecordedStep ==
  ASSUME RecipesInv, LibraryInv', VersionsStay, UNCHANGED agentCreations,
         NEW c \in SkillCallers, recipeCalls[c].phase # "idle", recipeCalls[c].receipt.agent = 0,
         NEW made \in SkillVersion, NEW p, p = RecipePlan[NextSkill(c)], VersionIs(made, p)',
         NextSkill(c) <= Len(RecipePlan), Recorded(c, made), skillCalls'[c].phase = "idle",
         \A d \in SkillCallers \ {c} : skillCalls'[d] = skillCalls[d]
  PROVE  RecipesInv'
<1>0. /\ recipeCalls[c] \in RecipeCall /\ recipeCalls[c].receipt \in RecipeReceipt
      /\ recipeCalls[c].client \in RecipeClients
      /\ ReceiptHolds(recipeCalls[c].receipt, recipeCalls[c].installation)
  BY RecipeFacts
<1>1. PICK i \in Installations : i = recipeCalls[c].installation
  BY RecipeFacts
<1>2. PICK old \in RecipeReceipt : old = recipeCalls[c].receipt
  BY <1>0
<1> DEFINE more == Append(old.skills, made)
           n == Len(old.skills) + 1
<1>3. /\ more \in Seq(SkillVersion) /\ Len(more) = n /\ Len(old.skills) \in Nat
      /\ more[n] = made /\ \A k \in 1..Len(old.skills) : more[k] = old.skills[k]
  <2>1. old.skills \in Seq(SkillVersion)
    BY DEF RecipeReceipt
  <2> QED BY <2>1
<1>4. n <= Len(RecipePlan) /\ p = RecipePlan[n]
  BY <1>2 DEF NextSkill
<1> HIDE DEF more, n
<1>5. PICK r \in RecipeReceipt :
        /\ r.skills = more /\ r.agent = 0
        /\ installations' = [installations EXCEPT ![i].receipt = r]
        /\ recipeCalls' = [recipeCalls EXCEPT ![c].phase = "importing", ![c].receipt = r]
  <2> DEFINE z == [old EXCEPT !.skills = more]
  <2>1. z \in RecipeReceipt /\ z.skills = more /\ z.agent = old.agent
    BY <1>3 DEF RecipeReceipt
  <2>2. /\ installations' = [installations EXCEPT ![i].receipt = z]
        /\ recipeCalls' = [recipeCalls EXCEPT ![c].phase = "importing", ![c].receipt = z]
    BY <1>1, <1>2 DEF Recorded, more
  <2> HIDE DEF z
  <2> QED BY <1>2, <2>1, <2>2
<1>6. ReceiptHolds(r, i)'
  <2>1. ReceiptHolds(old, i)'
    BY <1>0, <1>1, <1>2, ReceiptStays
  <2>2. ASSUME NEW k \in 1..n
        PROVE  VersionIs(more[k], RecipePlan[k])'
    <3>1. CASE k = n
      BY <1>3, <1>4, <3>1 DEF VersionIs
    <3>2. CASE k # n
      <4>1. k \in 1..Len(old.skills)
        BY <1>3, <3>2 DEF n
      <4>2. VersionIs(old.skills[k], RecipePlan[k])'
        BY <2>1, <4>1 DEF ReceiptHolds
      <4> QED BY <1>3, <4>1, <4>2 DEF VersionIs
    <3> QED BY <3>1, <3>2
  <2> QED BY <1>3, <1>4, <1>5, <2>2 DEF ReceiptHolds, VersionIs
<1>7. RowsHold'
  BY <1>5, <1>6, RowWritten DEF RecipesInv
<1>8. PICK y \in RecipeCall :
        /\ y.phase = "importing" /\ y.client = recipeCalls[c].client
        /\ y.installation = i /\ y.receipt = r
        /\ recipeCalls' = [recipeCalls EXCEPT ![c] = y]
  <2> DEFINE z == [recipeCalls[c] EXCEPT !.phase = "importing", !.receipt = r]
  <2>1. z \in RecipeCall
    BY <1>0 DEF RecipeCall
  <2>2. z.phase = "importing" /\ z.client = recipeCalls[c].client /\ z.installation = i /\ z.receipt = r
    BY <1>0, <1>1 DEF RecipeCall
  <2>3. recipeCalls' = [recipeCalls EXCEPT ![c] = z]
    BY <1>5
  <2> HIDE DEF z
  <2> QED BY <2>1, <2>2, <2>3
<1>9. /\ recipeCalls' \in [SkillCallers -> RecipeCall] /\ RecipeCallHolds(c)'
      /\ \A d \in SkillCallers \ {c} : recipeCalls'[d] = recipeCalls[d]
  BY <1>0, <1>6, <1>8, RecipeCallGoesOn
<1>10. CreationsSound'
  BY DEF RecipesInv, CreationsSound, SkillVersion
<1> QED BY <1>7, <1>9, <1>10, RecipeMoves

\* What a call that imports may still do.
LEMMA ImportFacts ==
  ASSUME RecipesInv, NEW c \in SkillCallers, Imports(c)
  PROVE  /\ recipeCalls[c].phase = "importing" /\ skillCalls[c].phase = "idle"
         /\ NextSkill(c) \in 1..Len(RecipePlan) /\ recipeCalls[c].receipt.agent = 0
         /\ RecipePlan[NextSkill(c)] \in SkillPackages
<1>1. /\ recipeCalls[c].phase = "importing" /\ skillCalls[c].phase = "idle"
      /\ recipeCalls[c].receipt \in RecipeReceipt
      /\ ReceiptHolds(recipeCalls[c].receipt, recipeCalls[c].installation)
      /\ NextSkill(c) <= Len(RecipePlan) /\ Len(RecipePlan) \in Nat
  BY RecipeFacts DEF Imports, RecipeCallIs, RecipeCallHolds
<1>2. Len(recipeCalls[c].receipt.skills) \in Nat
  <2>1. recipeCalls[c].receipt.skills \in Seq(SkillVersion)
    BY <1>1 DEF RecipeReceipt
  <2> QED BY <2>1
<1>3. NextSkill(c) \in 1..Len(RecipePlan) /\ Len(recipeCalls[c].receipt.skills) # Len(RecipePlan)
  BY <1>1, <1>2 DEF NextSkill
<1>4. recipeCalls[c].receipt.agent = 0
  BY <1>1, <1>3 DEF ReceiptHolds
<1>5. RecipePlan[NextSkill(c)] \in SkillPackages
  BY <1>3, RecipesAssumption
<1> QED BY <1>1, <1>3, <1>4, <1>5

\* A Skill with the package that is planned is taken as it is.
LEMMA ReuseSkillStep ==
  ASSUME RecipesInv, NEW c \in SkillCallers, ReuseSkill(c)
  PROVE  RecipesInv'
<1>0. Imports(c) /\ UNCHANGED skillVars /\ UNCHANGED agentCreations
  BY DEF ReuseSkill
<1>1. LibraryInv' /\ VersionsStay /\ UNCHANGED <<skills, skillCalls>>
  BY <1>0, LibraryKept DEF RecipesInv
<1>2. PICK v \in ActiveVersions(RecipePlan[NextSkill(c)]) : Recorded(c, v)
  BY DEF ReuseSkill
<1>3. PICK p : p = RecipePlan[NextSkill(c)]
  OBVIOUS
<1>4. /\ v \in SkillVersion /\ v.skill # 0 /\ v.version \in 1..CurrentVersion(v.skill)
      /\ skills[v.skill].versions[v.version] = p
  BY <1>2, <1>3 DEF ActiveVersions
<1>5. v.skill \in SkillIds
  <2>1. v.skill \in 0..MaxSkills
    BY <1>4 DEF SkillVersion
  <2> QED BY <1>4, <2>1, SkillsAssumption DEF SkillIds
<1>6. VersionIs(v, p)'
  BY <1>1, <1>4, <1>5 DEF VersionIs, SkillIds, CurrentVersion
<1>7. /\ recipeCalls[c].phase = "importing" /\ skillCalls[c].phase = "idle"
      /\ NextSkill(c) <= Len(RecipePlan) /\ recipeCalls[c].receipt.agent = 0
  BY <1>0, ImportFacts, RecipeFacts
<1>8. skillCalls'[c].phase = "idle" /\ \A d \in SkillCallers \ {c} : skillCalls'[d] = skillCalls[d]
  BY <1>1, <1>7
<1> QED BY <1>0, <1>1, <1>2, <1>3, <1>4, <1>6, <1>7, <1>8, RecordedStep

\* The answer of the library is recorded, or the call is over.
LEMMA RecordSkillStep ==
  ASSUME RecipesInv, NEW c \in SkillCallers, RecordSkill(c)
  PROVE  RecipesInv'
<1>0. /\ recipeCalls[c].phase = "publishing" /\ skillCalls[c].phase = "answered"
      /\ skillCalls' = [skillCalls EXCEPT ![c] = NoSkillCall]
      /\ UNCHANGED <<skillLibrary, skillBucket>> /\ UNCHANGED agentCreations
  BY DEF RecordSkill, RecipeCallIs, SkillAnswerTaken, SkillCallIs
<1>1. /\ LibraryInv' /\ skillCalls'[c].phase = "idle"
      /\ \A d \in SkillCallers \ {c} : skillCalls'[d] = skillCalls[d]
  BY <1>0, SkillCallOver DEF RecipesInv
<1>2. UNCHANGED skills
  BY <1>0 DEF skillLibrary
<1>3. VersionsStay
  BY <1>2 DEF VersionsStay, CurrentVersion
<1>4. CASE skillCalls[c].answer = Refusal
  <2>1. RecipeCallOver(c) /\ UNCHANGED recipeRows
    BY <1>0, <1>4 DEF RecordSkill, recipeRows
  <2> QED BY <1>1, <1>3, <2>1, OnlyOver
<1>5. CASE skillCalls[c].answer # Refusal
  <2>1. PICK made \in SkillVersion : made = skillCalls[c].answer
    BY DEF RecipesInv, LibraryInv, SkillCallsSound, SkillCall
  <2>2. Recorded(c, made)
    BY <1>5, <2>1 DEF RecordSkill
  <2>3. PICK p : p = RecipePlan[NextSkill(c)]
    OBVIOUS
  <2>4. /\ recipeCalls[c].receipt.agent = 0 /\ NextSkill(c) <= Len(RecipePlan)
        /\ VersionIs(made, p)
    BY <1>0, <1>5, <2>1, <2>3, RecipeFacts DEF RecipeCallHolds
  <2>5. VersionIs(made, p)'
    BY <1>2, <2>4 DEF VersionIs, SkillIds, CurrentVersion
  <2>6. recipeCalls[c].phase # "idle"
    BY <1>0
  <2> QED BY <1>0, <1>1, <1>3, <2>1, <2>2, <2>3, <2>4, <2>5, <2>6, RecordedStep
<1> QED BY <1>4, <1>5


\* The next Skill is asked of the library.
LEMMA ImportSkillStep ==
  ASSUME RecipesInv, NEW c \in SkillCallers, ImportSkill(c)
  PROVE  RecipesInv'
<1>0. Imports(c) /\ UNCHANGED <<installations, agentCreations>>
  BY DEF ImportSkill, recipeRows
<1>1. /\ recipeCalls[c].phase = "importing" /\ skillCalls[c].phase = "idle"
      /\ NextSkill(c) \in 1..Len(RecipePlan) /\ recipeCalls[c].receipt.agent = 0
      /\ RecipePlan[NextSkill(c)] \in SkillPackages
  BY <1>0, ImportFacts
<1>2. /\ recipeCalls[c] \in RecipeCall /\ recipeCalls[c].receipt \in RecipeReceipt
      /\ recipeCalls[c].client \in RecipeClients /\ recipeCalls[c].installation \in Installations
      /\ ReceiptHolds(recipeCalls[c].receipt, recipeCalls[c].installation)
      /\ recipeCalls \in [SkillCallers -> RecipeCall]
      /\ Len(RecipePlan) \in Nat /\ LibraryInv /\ RowsHold
  BY <1>1, RecipeFacts
<1>3. PICK q \in AnySkillRequest :
        /\ q.package = RecipePlan[NextSkill(c)]
        /\ PublishSkill(c, q) \/ PublishAnswered(c, q)
  <2> DEFINE q0 == [key |-> <<recipeCalls[c].client, recipeCalls[c].installation, NextSkill(c)>>,
                    skill |-> 0, expected |-> 0, repair |-> 0, package |-> RecipePlan[NextSkill(c)]]
  <2>1. <<recipeCalls[c].client, recipeCalls[c].installation, NextSkill(c)>>
          \in RecipeClients \X Installations \X (1..Len(RecipePlan))
    BY <1>1, <1>2
  <2>2. 0 \in 0..MaxSkills /\ 0 \in 0..MaxSkillVersions
    BY SkillsAssumption
  <2>3. q0 \in AnySkillRequest
    BY <1>1, <2>1, <2>2 DEF AnySkillRequest
  <2>4. PublishSkill(c, q0) \/ PublishAnswered(c, q0)
    BY DEF ImportSkill
  <2>5. q0.package = RecipePlan[NextSkill(c)]
    OBVIOUS
  <2> HIDE DEF q0
  <2> QED BY <2>3, <2>4, <2>5
<1>4. PICK p : p = q.package
  OBVIOUS
<1>5. /\ LibraryInv' /\ UNCHANGED skills
      /\ \A d \in SkillCallers \ {c} : skillCalls'[d] = skillCalls[d]
      /\ \/ skillCalls'[c].phase = "putting" /\ skillCalls'[c].request = {q}
         \/ /\ skillCalls'[c].phase = "answered"
            /\ skillCalls'[c].answer = Refusal \/ VersionIs(skillCalls'[c].answer, p)
  <2>1. CASE PublishSkill(c, q)
    BY <1>2, <2>1, PublishSkillStep
  <2>2. CASE PublishAnswered(c, q)
    BY <1>2, <1>4, <2>2, PublishAnsweredStep
  <2> QED BY <1>3, <2>1, <2>2
<1>6. VersionsStay
  BY <1>5 DEF VersionsStay, CurrentVersion
<1>7. /\ recipeCalls' \in [SkillCallers -> RecipeCall]
      /\ recipeCalls'[c].phase = "publishing" /\ recipeCalls'[c].client = recipeCalls[c].client
      /\ recipeCalls'[c].installation = recipeCalls[c].installation
      /\ recipeCalls'[c].receipt = recipeCalls[c].receipt
      /\ \A d \in SkillCallers \ {c} : recipeCalls'[d] = recipeCalls[d]
  <2> DEFINE z == [recipeCalls[c] EXCEPT !.phase = "publishing"]
  <2>1. /\ z \in RecipeCall /\ z.phase = "publishing" /\ z.client = recipeCalls[c].client
        /\ z.installation = recipeCalls[c].installation /\ z.receipt = recipeCalls[c].receipt
    BY <1>2 DEF RecipeCall
  <2>2. recipeCalls' = [recipeCalls EXCEPT ![c] = z]
    BY DEF ImportSkill
  <2> HIDE DEF z
  <2> QED BY <1>2, <2>1, <2>2
<1>8. RecipeCallHolds(c)'
  <2>1. PICK r \in RecipeReceipt, i \in Installations : r = recipeCalls[c].receipt /\ i = recipeCalls[c].installation
    BY <1>2
  <2>2. ReceiptHolds(r, i)'
    BY <1>0, <1>2, <1>6, <2>1, ReceiptStays
  <2>3. ReceiptHolds(recipeCalls[c].receipt, recipeCalls[c].installation)'
    BY <1>7, <2>1, <2>2 DEF ReceiptHolds, VersionIs
  <2>4. NextSkill(c)' = NextSkill(c) /\ NextSkill(c)' <= Len(RecipePlan)
    BY <1>1, <1>2, <1>7 DEF NextSkill
  <2>5. RecipePlan[NextSkill(c)'] = p
    BY <1>3, <1>4, <2>4
  <2>6. skillCalls'[c].phase = "putting" => RequestOf(c)'.package = p
    BY <1>4, <1>5 DEF RequestOf
  <2>7. skillCalls'[c].phase = "answered" /\ skillCalls'[c].answer # Refusal =>
          VersionIs(skillCalls[c].answer, RecipePlan[NextSkill(c)])'
    BY <1>5, <2>5 DEF VersionIs, SkillIds, CurrentVersion
  <2>8. skillCalls'[c].phase \in {"putting", "answered"}
    BY <1>5
  <2> QED BY <1>1, <1>2, <1>7, <2>3, <2>4, <2>5, <2>6, <2>7, <2>8 DEF RecipeCallHolds
<1>9. RowsHold'
  BY <1>0, <1>2, <1>6, RowsStay
<1>10. CreationsSound'
  BY <1>0 DEF RecipesInv, CreationsSound, SkillVersion
<1> QED BY <1>0, <1>5, <1>6, <1>7, <1>8, <1>9, <1>10, RecipeMoves

\* What a call that has imported everything knows.
LEMMA ImportedFacts ==
  ASSUME RecipesInv, NEW c \in SkillCallers, Imported(c)
  PROVE  /\ recipeCalls[c].phase = "importing"
         /\ Len(recipeCalls[c].receipt.skills) = Len(RecipePlan)
<1>1. /\ recipeCalls[c].phase = "importing" /\ NextSkill(c) > Len(RecipePlan)
      /\ recipeCalls[c].receipt \in RecipeReceipt /\ Len(RecipePlan) \in Nat
      /\ Len(recipeCalls[c].receipt.skills) <= Len(RecipePlan)
  BY RecipeFacts DEF Imported, RecipeCallIs, ReceiptHolds
<1>2. Len(recipeCalls[c].receipt.skills) \in Nat
  <2>1. recipeCalls[c].receipt.skills \in Seq(SkillVersion)
    BY <1>1 DEF RecipeReceipt
  <2> QED BY <2>1
<1> QED BY <1>1, <1>2 DEF NextSkill

\* The row names an Agent that has just the Skills of the receipt.
LEMMA FinishedRow ==
  ASSUME RecipesInv, NEW c \in SkillCallers, Imported(c), UNCHANGED skills,
         agentCreations \subseteq agentCreations', NEW agent \in Nat, NEW finished \in BOOLEAN,
         Finished(c, agent, finished), NEW i \in Installations, i = recipeCalls[c].installation,
         \E a \in agentCreations' :
           a.installation = i /\ a.agent = agent /\ a.skills = recipeCalls[c].receipt.skills
  PROVE  RowsHold'
<1>1. /\ recipeCalls[c].receipt \in RecipeReceipt /\ RowsHold
      /\ ReceiptHolds(recipeCalls[c].receipt, recipeCalls[c].installation)
      /\ Len(recipeCalls[c].receipt.skills) = Len(RecipePlan)
  BY RecipeFacts, ImportedFacts
<1>2. PICK old \in RecipeReceipt : old = recipeCalls[c].receipt
  BY <1>1
<1>3. PICK status \in {"none", "installing", "installed"} :
        status = IF finished THEN "installed" ELSE installations[i].status
  BY <1>1 DEF RowsHold
<1>4. PICK s \in {"none", "installing", "installed"} :
        s = IF finished THEN "installed" ELSE recipeCalls[c].receipt.status
  BY <1>1 DEF RecipeReceipt
<1>5. PICK r \in RecipeReceipt :
        /\ r.skills = old.skills /\ r.agent = agent
        /\ installations' = [installations EXCEPT ![i] = [status |-> status, receipt |-> r]]
  <2> DEFINE z == Receipt(s, old.skills, agent)
  <2>1. z \in RecipeReceipt /\ z.skills = old.skills /\ z.agent = agent
    BY DEF Receipt, RecipeReceipt
  <2>2. installations' = [installations EXCEPT ![i] = [status |-> status, receipt |-> z]]
    BY <1>2, <1>3, <1>4 DEF Finished
  <2> HIDE DEF z
  <2> QED BY <2>1, <2>2
<1>6. VersionsStay
  BY DEF VersionsStay, CurrentVersion
<1>7. ReceiptHolds(old, i)'
  BY <1>1, <1>2, <1>6, ReceiptStays
<1>8. ReceiptHolds(r, i)'
  BY <1>1, <1>2, <1>5, <1>7 DEF ReceiptHolds, VersionIs
<1> QED BY <1>1, <1>5, <1>6, <1>8, RowWritten

\* The Agent of an installation is created once: a second creation finds the first.
LEMMA CreationOnce ==
  ASSUME RecipesInv, NEW c \in SkillCallers, Imported(c), AgentGranted(c),
         NEW i \in Installations, i = recipeCalls[c].installation,
         NEW made, made = [client |-> Creator(c), installation |-> i,
                           skills |-> recipeCalls[c].receipt.skills, agent |-> AgentMade(c)],
         agentCreations' = agentCreations \cup {made}
  PROVE  CreationsSound' /\ AgentMade(c) \in Nat
<1> DEFINE Creation == [client : RecipeClients, installation : Installations,
                        skills : Seq(SkillVersion), agent : Nat]
<1>0. /\ agentCreations \subseteq Creation /\ IsFiniteSet(agentCreations)
      /\ \A a \in agentCreations : a.client = InstallationClient[a.installation]
      /\ \A a, b \in agentCreations : a.installation = b.installation => a = b
  BY DEF RecipesInv, CreationsSound
<1>1. recipeCalls[c].receipt.skills \in Seq(SkillVersion)
  BY RecipeFacts DEF RecipeReceipt
<1>2. Creator(c) = InstallationClient[i] /\ Creator(c) \in RecipeClients
  BY RecipesAssumption DEF Creator
<1>3. EarlierCreations(c) = {a \in agentCreations : a.installation = i}
  BY <1>0, <1>2 DEF EarlierCreations
<1>4. /\ made.client = InstallationClient[i] /\ made.installation = i
      /\ made.skills = recipeCalls[c].receipt.skills /\ made.agent = AgentMade(c)
  BY <1>2
<1>5. CASE EarlierCreations(c) = {}
  <2>1. AgentMade(c) = Cardinality(agentCreations) + 1
    BY <1>5 DEF AgentMade
  <2>2. AgentMade(c) \in Nat
    BY <1>0, <2>1, FS_CardinalityType
  <2>3. made \in Creation
    BY <1>1, <1>2, <2>2
  <2>4. \A a \in agentCreations : a.installation # i
    BY <1>3, <1>5
  <2>5. IsFiniteSet(agentCreations')
    BY <1>0, FS_AddElement
  <2>6. \A a \in agentCreations' : a.client = InstallationClient[a.installation]
    BY <1>0, <1>4
  <2>7. \A a, b \in agentCreations' : a.installation = b.installation => a = b
    BY <1>0, <1>4, <2>4
  <2> QED BY <1>0, <2>2, <2>3, <2>5, <2>6, <2>7 DEF CreationsSound
<1>6. CASE EarlierCreations(c) # {}
  <2>1. PICK a \in EarlierCreations(c) : AgentMade(c) = a.agent
    BY <1>6 DEF AgentMade
  <2>2. a \in agentCreations /\ a.installation = i /\ a.client = Creator(c)
    BY <2>1 DEF EarlierCreations
  <2>3. a.skills = recipeCalls[c].receipt.skills /\ a \in Creation
    BY <1>0, <2>1, <2>2 DEF AgentGranted
  <2>4. a = [client |-> a.client, installation |-> a.installation, skills |-> a.skills, agent |-> a.agent]
    BY <2>3
  <2>5. made = a
    BY <2>1, <2>2, <2>3, <2>4
  <2>6. agentCreations' = agentCreations
    BY <2>2, <2>5
  <2>7. AgentMade(c) \in Nat
    BY <2>1, <2>3
  <2> QED BY <1>0, <2>6, <2>7 DEF CreationsSound
<1> QED BY <1>5, <1>6


\* The end of an installation, or of a call.
LEMMA AgentSteps ==
  ASSUME RecipesInv, NEW c \in SkillCallers,
         \/ \E recorded, finished \in BOOLEAN : CreateAgent(c, recorded, finished)
         \/ FinishInstallation(c) \/ AgentDenied(c)
  PROVE  RecipesInv'
<1>0. Imported(c) /\ UNCHANGED skillVars /\ RecipeCallOver(c)
  BY DEF CreateAgent, FinishInstallation, AgentDenied
<1>1. LibraryInv' /\ VersionsStay /\ UNCHANGED <<skills, skillCalls>>
  BY <1>0, LibraryKept DEF RecipesInv
<1>2. /\ recipeCalls' \in [SkillCallers -> RecipeCall] /\ RecipeCallHolds(c)'
      /\ \A d \in SkillCallers \ {c} : recipeCalls'[d] = recipeCalls[d]
  BY <1>0, RecipeCallEnds
<1>3. PICK i \in Installations : i = recipeCalls[c].installation
  BY <1>0, ImportedFacts, RecipeFacts
<1>4. ASSUME NEW recorded \in BOOLEAN, NEW finished \in BOOLEAN, CreateAgent(c, recorded, finished)
      PROVE  RecipesInv'
  <2>1. PICK made : made = [client |-> Creator(c), installation |-> i,
                            skills |-> recipeCalls[c].receipt.skills, agent |-> AgentMade(c)]
    OBVIOUS
  <2>2. AgentGranted(c) /\ agentCreations' = agentCreations \cup {made}
    BY <1>3, <1>4, <2>1 DEF CreateAgent
  <2>3. CreationsSound' /\ AgentMade(c) \in Nat
    BY <1>0, <1>3, <2>1, <2>2, CreationOnce
  <2>4. agentCreations \subseteq agentCreations'
    BY <2>2
  <2>5. RowsHold'
    <3>1. CASE UNCHANGED installations
      BY <1>1, <2>4, <3>1, RowsStay DEF RecipesInv
    <3>2. CASE Finished(c, AgentMade(c), finished)
      <4>1. PICK agent \in Nat : agent = AgentMade(c)
        BY <2>3
      <4>2. Finished(c, agent, finished)
        BY <3>2, <4>1
      <4>3. made \in agentCreations' /\ made.installation = i /\ made.agent = agent
            /\ made.skills = recipeCalls[c].receipt.skills
        BY <2>1, <2>2, <4>1
      <4> QED BY <1>0, <1>1, <1>3, <2>4, <4>2, <4>3, FinishedRow
    <3> QED BY <1>4, <3>1, <3>2 DEF CreateAgent
  <2> QED BY <1>1, <1>2, <2>3, <2>4, <2>5, RecipeMoves
<1>5. CASE FinishInstallation(c)
  <2>1. UNCHANGED agentCreations /\ recipeCalls[c].receipt.agent # 0
    BY <1>5 DEF FinishInstallation
  <2>2. PICK agent \in Nat : agent = recipeCalls[c].receipt.agent
    BY RecipeFacts DEF RecipeReceipt
  <2>3. Finished(c, agent, TRUE)
    BY <1>5, <2>2 DEF FinishInstallation
  <2>4. \E a \in agentCreations :
          a.installation = i /\ a.agent = agent /\ a.skills = recipeCalls[c].receipt.skills
    BY <1>3, <2>1, <2>2, RecipeFacts DEF ReceiptHolds
  <2>5. RowsHold'
    BY <1>0, <1>1, <1>3, <2>1, <2>3, <2>4, FinishedRow
  <2>6. CreationsSound'
    BY <2>1 DEF RecipesInv, CreationsSound, SkillVersion
  <2> QED BY <1>1, <1>2, <2>1, <2>5, <2>6, RecipeMoves
<1>6. CASE AgentDenied(c)
  <2>1. UNCHANGED recipeRows
    BY <1>6 DEF AgentDenied
  <2> QED BY <1>0, <1>1, <2>1, OnlyOver
<1> QED BY <1>4, <1>5, <1>6

\* A call dies, and with it the one of the library.
LEMMA RecipeCallDiesStep ==
  ASSUME RecipesInv, NEW c \in SkillCallers, RecipeCallDies(c)
  PROVE  RecipesInv'
<1>1. /\ RecipeCallOver(c) /\ skillCalls' = [skillCalls EXCEPT ![c] = NoSkillCall]
      /\ UNCHANGED <<skillLibrary, skillBucket>> /\ UNCHANGED recipeRows
  BY DEF RecipeCallDies
<1>2. LibraryInv' /\ \A d \in SkillCallers \ {c} : skillCalls'[d] = skillCalls[d]
  BY <1>1, SkillCallOver DEF RecipesInv
<1>3. VersionsStay
  BY <1>1 DEF VersionsStay, CurrentVersion, skillLibrary
<1> QED BY <1>1, <1>2, <1>3, OnlyOver

\* A call that belongs to no installation ends.
LEMMA DirectCallEnds ==
  ASSUME RecipesInv, NEW c \in SkillCallers, RecipeCallIs(c, "idle"),
         SkillAnswerTaken(c) \/ SkillCallDies(c), UNCHANGED <<recipeRows, recipeCalls>>
  PROVE  RecipesInv'
<1>1. /\ skillCalls' = [skillCalls EXCEPT ![c] = NoSkillCall]
      /\ UNCHANGED <<skillLibrary, skillBucket>>
  BY DEF SkillAnswerTaken, SkillCallDies
<1>2. LibraryInv' /\ \A d \in SkillCallers \ {c} : skillCalls'[d] = skillCalls[d]
  BY <1>1, SkillCallOver DEF RecipesInv
<1>3. VersionsStay
  BY <1>1 DEF VersionsStay, CurrentVersion, skillLibrary
<1>4. \A d \in SkillCallers : recipeCalls[d].phase # "idle" => CallFollows(d)
  BY <1>2 DEF RecipeCallIs, CallFollows
<1> QED BY <1>2, <1>3, <1>4, RecipesKept

\* There are no Skills and no installations yet.
LEMMA RecipesInitially ==
  ASSUME RecipesInit
  PROVE  RecipesInv
<1>1. SkillsSound
  <2>1. /\ skills = [s \in SkillIds |-> [status |-> "none", versions |-> <<>>]]
        /\ skillObjects = [p \in SkillPackages |-> "none"] /\ skillBucket = {}
    BY DEF RecipesInit, SkillsInit
  <2>2. <<>> \in Seq(SkillPackages) /\ Len(<<>>) = 0
    OBVIOUS
  <2>3. \A s \in SkillIds : skills[s].status = "none" /\ CurrentVersion(s) = 0
    BY <2>1, <2>2 DEF CurrentVersion
  <2>4. skills \in [SkillIds -> Skill]
    BY <2>1, <2>2 DEF Skill
  <2>5. LibraryConsistent
    BY <2>3 DEF LibraryConsistent
  <2> QED BY <2>1, <2>3, <2>4, <2>5, SkillsAssumption DEF SkillsSound
<1>2. MutationsSound
  BY DEF RecipesInit, SkillsInit, MutationsSound
<1>3. SkillCallsSound
  <2>1. Refusal \in SkillVersion
    BY SkillsAssumption DEF Refusal, SkillVersion
  <2> QED BY <2>1 DEF RecipesInit, SkillsInit, SkillCallsSound, SkillCall, NoSkillCall
<1>4. agentCreations = {} /\ CreationsSound
  BY FS_EmptySet DEF RecipesInit, CreationsSound
<1>5. RowsHold
  <2>1. \A i \in Installations : installations[i] = NoInstallation
    BY DEF RecipesInit
  <2>2. NoInstallation.receipt = Receipt("none", <<>>, 0)
    BY DEF NoInstallation
  <2>3. NoInstallation \in [status : {"none", "installing", "installed"}, receipt : RecipeReceipt]
    BY EmptyReceipt DEF NoInstallation
  <2>4. installations = [i \in Installations |-> NoInstallation]
    BY DEF RecipesInit
  <2> QED BY <2>1, <2>2, <2>3, <2>4, EmptyReceipt DEF RowsHold
<1>6. RecipeCallsSound
  <2>1. recipeCalls = [c \in SkillCallers |-> IdleRecipeCall]
    BY DEF RecipesInit
  <2>2. IdleRecipeCall \in RecipeCall
    BY EmptyReceipt DEF IdleRecipeCall, RecipeCall
  <2>3. IdleRecipeCall.phase = "idle" /\ IdleRecipeCall.receipt = Receipt("none", <<>>, 0)
    BY DEF IdleRecipeCall
  <2>4. ASSUME NEW c \in SkillCallers
        PROVE  RecipeCallHolds(c)
    <3>1. recipeCalls[c].phase = "idle" /\ recipeCalls[c].receipt = Receipt("none", <<>>, 0)
      BY <2>1, <2>3
    <3>2. ReceiptHolds(recipeCalls[c].receipt, recipeCalls[c].installation)
      BY <3>1, EmptyReceipt
    <3> QED BY <3>1, <3>2 DEF RecipeCallHolds
  <2> QED BY <2>1, <2>2, <2>4 DEF RecipeCallsSound
<1> QED BY <1>1, <1>2, <1>3, <1>4, <1>5, <1>6 DEF RecipesInv, LibraryInv

\* Whichever calls of whichever clients are at an installation side by side, and
\* wherever they end, the library, the receipts and the Agents agree.
THEOREM RecipesInvariant == RecipesSpec => []RecipesInv
<1>1. RecipesInit => RecipesInv
  BY RecipesInitially
<1>2. RecipesInv /\ [RecipesNext]_recipeVars => RecipesInv'
  <2> SUFFICES ASSUME RecipesInv, [RecipesNext]_recipeVars
               PROVE  RecipesInv'
    OBVIOUS
  <2>1. ASSUME NEW c \in SkillCallers,
               \/ RecordSkill(c)
               \/ RecipeCallIs(c, "publishing") /\ RecipeCallDies(c)
               \/ RecipeCallIs(c, "idle") /\ SkillAnswerTaken(c) /\ UNCHANGED <<recipeRows, recipeCalls>>
        PROVE  RecipesInv'
    BY <2>1, RecordSkillStep, RecipeCallDiesStep, DirectCallEnds
  <2>2. ASSUME NEW c \in SkillCallers, RecipeCallNext(c)
        PROVE  RecipesInv'
    <3>1. CASE \E client \in RecipeClients, i \in Installations : BeginInstall(c, i) \/ Continue(c, client, i)
      BY <3>1, BeginInstallStep, ContinueStep
    <3>2. CASE InsertInstallation(c) \/ ReuseSkill(c) \/ ImportSkill(c)
      BY <3>2, InsertInstallationStep, ReuseSkillStep, ImportSkillStep
    <3>3. CASE \/ \E recorded, finished \in BOOLEAN : CreateAgent(c, recorded, finished)
               \/ FinishInstallation(c) \/ AgentDenied(c)
      BY <3>3, AgentSteps
    <3>4. CASE RecipeCallDies(c)
      BY <3>4, RecipeCallDiesStep
    <3> QED BY <2>2, <3>1, <3>2, <3>3, <3>4 DEF RecipeCallNext
  <2>3. ASSUME NEW c \in SkillCallers, SkillCallGoesOn(c), UNCHANGED <<recipeRows, recipeCalls>>
        PROVE  RecipesInv'
    <3>1. LibraryInv' /\ VersionsStay /\ \A d \in SkillCallers : CallFollows(d)
      BY <2>3, SkillCallGoesOnStep DEF RecipesInv
    <3> QED BY <2>3, <3>1, RecipesKept
  <2>4. ASSUME NEW c \in SkillCallers, RecipeCallIs(c, "idle") /\ SkillCallDies(c),
               UNCHANGED <<recipeRows, recipeCalls>>
        PROVE  RecipesInv'
    BY <2>4, DirectCallEnds
  <2>5. ASSUME NEW c \in SkillCallers, NEW q \in SkillRequests, RecipeCallIs(c, "idle"), PublishSkill(c, q),
               UNCHANGED <<recipeRows, recipeCalls>>
        PROVE  RecipesInv'
    <3>1. q \in AnySkillRequest
      BY DEF SkillRequests, AnySkillRequest
    <3>2. LibraryInv' /\ UNCHANGED skills /\ \A d \in SkillCallers \ {c} : skillCalls'[d] = skillCalls[d]
      BY <2>5, <3>1, PublishSkillStep DEF RecipesInv
    <3>3. VersionsStay
      BY <3>2 DEF VersionsStay, CurrentVersion
    <3>4. \A d \in SkillCallers : recipeCalls[d].phase # "idle" => CallFollows(d)
      BY <2>5, <3>2 DEF RecipeCallIs, CallFollows
    <3> QED BY <2>5, <3>2, <3>3, <3>4, RecipesKept
  <2>6. ASSUME \/ \E k \in SkillKeys, s \in SkillIds : RetireSkill(k, s)
               \/ \E p \in SkillPackages : LoseSkillObject(p),
               UNCHANGED <<recipeRows, recipeCalls>>
        PROVE  RecipesInv'
    <3>1. LibraryInv' /\ VersionsStay /\ UNCHANGED skillCalls
      BY <2>6, LibraryStep DEF RecipesInv
    <3>2. \A d \in SkillCallers : CallFollows(d)
      BY <3>1 DEF CallFollows
    <3> QED BY <2>6, <3>1, <3>2, RecipesKept
  <2>7. CASE UNCHANGED recipeVars
    <3>1. UNCHANGED skillVars /\ UNCHANGED <<recipeRows, recipeCalls>>
      BY <2>7 DEF recipeVars
    <3>2. LibraryInv' /\ VersionsStay /\ UNCHANGED skillCalls
      BY <3>1, LibraryKept DEF RecipesInv
    <3>3. \A d \in SkillCallers : CallFollows(d)
      BY <3>2 DEF CallFollows
    <3> QED BY <3>1, <3>2, <3>3, RecipesKept
  <2>8. CASE RecipesNext
    <3>1. CASE \E c \in SkillCallers : SkillCallIs(c, "answered")
      BY <2>1, <2>8, <3>1 DEF RecipesNext
    <3>2. CASE ~\E c \in SkillCallers : SkillCallIs(c, "answered")
      BY <2>2, <2>3, <2>4, <2>5, <2>6, <2>8, <3>2 DEF RecipesNext
    <3> QED BY <3>1, <3>2
  <2> QED BY <2>7, <2>8
<1> QED BY <1>1, <1>2, PTL DEF RecipesSpec

\* The rows of Skills, packages, installations and calls are well typed.
THEOREM RecipesTypeCorrect == RecipesSpec => []RecipesTypeOK
<1>1. ASSUME RecipesInv
      PROVE  RecipesTypeOK
  <2>1. SkillsTypeOK
    <3>1. ASSUME NEW c \in SkillCallers
          PROVE  /\ skillCalls[c].phase \in {"idle", "putting", "committing", "answered"}
                 /\ skillCalls[c].created \in BOOLEAN /\ skillCalls[c].answer \in SkillVersion
      BY <1>1 DEF RecipesInv, LibraryInv, SkillCallsSound, SkillCall
    <3> QED BY <1>1, <3>1 DEF SkillsTypeOK, RecipesInv, LibraryInv, SkillsSound, MutationsSound
  <2>2. ASSUME NEW i \in Installations
        PROVE  /\ installations[i].status \in {"none", "installing", "installed"}
               /\ installations[i].receipt.skills \in Seq(SkillVersion)
    BY <1>1 DEF RecipesInv, RowsHold, RecipeReceipt
  <2>3. ASSUME NEW a \in agentCreations
        PROVE  a.client \in RecipeClients /\ a.skills \in Seq(SkillVersion)
    BY <1>1 DEF RecipesInv, CreationsSound
  <2>4. ASSUME NEW c \in SkillCallers
        PROVE  recipeCalls[c].phase \in {"idle", "previewing", "importing", "publishing"}
    BY <1>1 DEF RecipesInv, RecipeCallsSound, RecipeCall
  <2> QED BY <2>1, <2>2, <2>3, <2>4 DEF RecipesTypeOK
<1> QED BY <1>1, RecipesInvariant, PTL

\* Versions are only of committed packages, and no two active Skills share a name,
\* whichever publications overtake each other between validation and commit.
THEOREM LibraryStaysConsistent == RecipesSpec => []LibraryConsistent
<1>1. RecipesInv => LibraryConsistent
  BY DEF RecipesInv, LibraryInv, SkillsSound
<1> QED BY <1>1, RecipesInvariant, PTL

\* Each Skill a receipt names is a version of the package that was planned, and the
\* Agent it names is the only one of the installation and has just these Skills.
THEOREM ReceiptsAreTrue == RecipesSpec => []ReceiptIsTrue
<1>1. ASSUME RecipesInv
      PROVE  ReceiptIsTrue
  <2> SUFFICES ASSUME NEW i \in Installations
               PROVE  /\ \A n \in 1..Len(installations[i].receipt.skills) :
                           \E s \in SkillIds :
                             /\ installations[i].receipt.skills[n].skill = s
                             /\ installations[i].receipt.skills[n].version \in 1..CurrentVersion(s)
                             /\ skills[s].versions[installations[i].receipt.skills[n].version] = RecipePlan[n]
                      /\ Cardinality({a \in agentCreations : a.installation = i}) <= 1
                      /\ installations[i].receipt.agent # 0 =>
                           \E a \in agentCreations :
                             /\ a.installation = i /\ a.agent = installations[i].receipt.agent
                             /\ a.skills = installations[i].receipt.skills
    BY DEF ReceiptIsTrue
  <2>1. ReceiptHolds(installations[i].receipt, i)
    BY <1>1 DEF RecipesInv, RowsHold
  <2>2. Cardinality({a \in agentCreations : a.installation = i}) <= 1
    <3>1. CASE {a \in agentCreations : a.installation = i} = {}
      BY <3>1, FS_EmptySet
    <3>2. CASE {a \in agentCreations : a.installation = i} # {}
      <4>1. PICK b \in agentCreations : b.installation = i
        BY <3>2
      <4>2. {a \in agentCreations : a.installation = i} = {b}
        BY <1>1, <4>1 DEF RecipesInv, CreationsSound
      <4>3. Cardinality({b}) = 1
        BY FS_Singleton
      <4> QED BY <4>2, <4>3
    <3> QED BY <3>1, <3>2
  <2> QED BY <2>1, <2>2 DEF ReceiptHolds, VersionIs
<1> QED BY <1>1, RecipesInvariant, PTL


\* What the library counts: the packages that have a row, and the bytes of packages.
StoredSkills == {p \in SkillPackages : skillObjects[p] # "none"}

BytesIn(S) == UNION {{p} \X (1..SkillBytes[p]) : p \in S}

\* A call that puts or commits a package has reserved it, and what is in the bucket
\* was put by such a call; so nothing is added but by a reservation that fits.
LibraryFits ==
  /\ skillBucket \subseteq StoredSkills
  /\ \A c \in SkillCallers :
       skillCalls[c].phase \in {"putting", "committing"} => RequestOf(c).package \in StoredSkills
  /\ IsFiniteSet(BytesIn(StoredSkills)) /\ BytesOf(StoredSkills) <= MaxSkillBytes

\* A call goes on with its request, or has nothing to put or commit.
CallRests(c) ==
  \/ skillCalls'[c].phase \in {"idle", "answered"}
  \/ skillCalls'[c].phase = skillCalls[c].phase /\ skillCalls'[c].request = skillCalls[c].request
  \/ skillCalls[c].phase \in {"putting", "committing"} /\ skillCalls'[c].request = skillCalls[c].request

\* One more package takes at most its size.
LEMMA OneMorePackage ==
  ASSUME NEW S, IsFiniteSet(BytesIn(S)), NEW p \in SkillPackages
  PROVE  /\ IsFiniteSet(BytesIn(S \cup {p})) /\ BytesOf(S) \in Nat
         /\ BytesOf(S \cup {p}) \in Nat /\ BytesOf(S \cup {p}) <= BytesOf(S) + SkillBytes[p]
<1> DEFINE P == {p} \X (1..SkillBytes[p])
<1>1. SkillBytes[p] \in Nat
  BY SkillsAssumption
<1>2. IsFiniteSet(P) /\ Cardinality(P) = SkillBytes[p]
  <2>1. IsFiniteSet({p}) /\ Cardinality({p}) = 1
    BY FS_Singleton
  <2>2. IsFiniteSet(1..SkillBytes[p]) /\ Cardinality(1..SkillBytes[p]) = SkillBytes[p]
    BY <1>1, FS_Interval
  <2>3. IsFiniteSet(P) /\ Cardinality(P) = 1 * SkillBytes[p]
    BY <2>1, <2>2, FS_Product
  <2> QED BY <1>1, <2>3
<1>3. BytesIn(S \cup {p}) = BytesIn(S) \cup P
  BY DEF BytesIn
<1> HIDE DEF P
<1>4. IsFiniteSet(BytesIn(S) \cap P)
  BY <1>2, FS_Subset
<1>5. /\ Cardinality(BytesIn(S)) \in Nat /\ Cardinality(BytesIn(S) \cap P) \in Nat
  BY <1>4, FS_CardinalityType
<1>6. /\ IsFiniteSet(BytesIn(S \cup {p}))
      /\ Cardinality(BytesIn(S \cup {p}))
           = Cardinality(BytesIn(S)) + Cardinality(P) - Cardinality(BytesIn(S) \cap P)
  BY <1>2, <1>3, FS_Union
<1>7. BytesOf(S) = Cardinality(BytesIn(S)) /\ BytesOf(S \cup {p}) = Cardinality(BytesIn(S \cup {p}))
  BY DEF BytesOf, BytesIn
<1>8. Cardinality(BytesIn(S \cup {p})) \in Nat
  BY <1>6, FS_CardinalityType
<1> QED BY <1>1, <1>2, <1>5, <1>6, <1>7, <1>8

\* No row is added, no object but of a package with a row, and no call begins to put.
LEMMA FitsStays ==
  ASSUME LibraryFits, StoredSkills' = StoredSkills, skillBucket' \subseteq StoredSkills,
         \A c \in SkillCallers : CallRests(c)
  PROVE  LibraryFits'
<1>1. PICK S : S = StoredSkills
  OBVIOUS
<1>2. S = StoredSkills'
  BY <1>1
<1>3. IsFiniteSet(BytesIn(S)) /\ BytesOf(S) <= MaxSkillBytes
  BY <1>1 DEF LibraryFits
<1>4. IsFiniteSet(BytesIn(StoredSkills)') /\ BytesOf(StoredSkills)' <= MaxSkillBytes
  BY <1>2, <1>3 DEF BytesIn, BytesOf
<1>5. ASSUME NEW c \in SkillCallers, skillCalls'[c].phase \in {"putting", "committing"}
      PROVE  RequestOf(c)'.package \in S
  <2>1. skillCalls[c].phase \in {"putting", "committing"} /\ skillCalls'[c].request = skillCalls[c].request
    BY <1>5 DEF CallRests
  <2>2. RequestOf(c)' = RequestOf(c)
    BY <2>1 DEF RequestOf
  <2> QED BY <1>1, <2>1, <2>2 DEF LibraryFits
<1> QED BY <1>1, <1>2, <1>4, <1>5 DEF LibraryFits

\* A publication reserves its package.
LEMMA PublishSkillFits ==
  ASSUME LibraryFits, LibraryInv, NEW c \in SkillCallers, NEW q \in AnySkillRequest, PublishSkill(c, q)
  PROVE  LibraryFits'
<1>1. q.package \in SkillPackages /\ SkillFits(q.package)
  BY DEF AnySkillRequest, PublishSkill, Publishable
<1>2. /\ skillObjects' = [skillObjects EXCEPT ![q.package] = IF @ = "none" THEN "pending" ELSE @]
      /\ UNCHANGED skillBucket
  BY DEF PublishSkill
<1>3. skillObjects \in [SkillPackages -> {"none", "pending", "committed"}]
  BY DEF LibraryInv, SkillsSound
<1>4. PICK S : S = StoredSkills
  OBVIOUS
<1>5. PICK T : T = StoredSkills'
  OBVIOUS
<1>6. T = S \cup {q.package}
  BY <1>1, <1>2, <1>3, <1>4, <1>5 DEF StoredSkills
<1>7. IsFiniteSet(BytesIn(S)) /\ BytesOf(S) <= MaxSkillBytes
  BY <1>4 DEF LibraryFits
<1>8. /\ IsFiniteSet(BytesIn(T)) /\ BytesOf(S) \in Nat
      /\ BytesOf(T) \in Nat /\ BytesOf(T) <= BytesOf(S) + SkillBytes[q.package]
  BY <1>1, <1>6, <1>7, OneMorePackage
<1>9. BytesOf(T) <= MaxSkillBytes
  <2>1. CASE skillObjects[q.package] = "none"
    <3>1. BytesOf(S) = StoredSkillBytes
      BY <1>4 DEF StoredSkills, StoredSkillBytes
    <3>2. BytesOf(S) + SkillBytes[q.package] <= MaxSkillBytes
      BY <1>1, <2>1, <3>1 DEF SkillFits
    <3>3. SkillBytes[q.package] \in Nat /\ MaxSkillBytes \in Nat
      BY <1>1, SkillsAssumption
    <3> QED BY <1>8, <3>2, <3>3
  <2>2. CASE skillObjects[q.package] # "none"
    BY <1>1, <1>4, <1>6, <1>7, <2>2 DEF StoredSkills
  <2> QED BY <2>1, <2>2
<1>10. IsFiniteSet(BytesIn(StoredSkills)') /\ BytesOf(StoredSkills)' <= MaxSkillBytes
  BY <1>5, <1>8, <1>9 DEF BytesIn, BytesOf
<1>11. ASSUME NEW d \in SkillCallers, skillCalls'[d].phase \in {"putting", "committing"}
       PROVE  RequestOf(d)'.package \in T
  <2>1. CASE d = c
    <3>1. skillCalls'[c].request = {q}
      BY PublishSkillStep
    <3>2. RequestOf(c)' = q
      BY <3>1 DEF RequestOf
    <3> QED BY <1>6, <2>1, <3>2
  <2>2. CASE d # c
    <3>1. skillCalls'[d] = skillCalls[d]
      BY <2>2, PublishSkillStep
    <3>2. RequestOf(d)' = RequestOf(d) /\ skillCalls[d].phase \in {"putting", "committing"}
      BY <1>11, <3>1 DEF RequestOf
    <3> QED BY <1>4, <1>6, <3>2 DEF LibraryFits
  <2> QED BY <2>1, <2>2
<1>12. skillBucket' \subseteq T
  BY <1>2, <1>4, <1>6 DEF LibraryFits
<1> QED BY <1>5, <1>10, <1>11, <1>12 DEF LibraryFits

\* The rows and the bucket stay, and one call is over or answered.
LEMMA FitsOver ==
  ASSUME LibraryFits, NEW c \in SkillCallers, UNCHANGED <<skillLibrary, skillBucket>>,
         skillCalls'[c].phase \in {"idle", "answered"},
         \A d \in SkillCallers \ {c} : skillCalls'[d] = skillCalls[d]
  PROVE  LibraryFits'
<1>1. \A d \in SkillCallers : CallRests(d)
  BY DEF CallRests
<1>2. StoredSkills' = StoredSkills /\ skillBucket' \subseteq StoredSkills
  BY DEF skillLibrary, StoredSkills, LibraryFits
<1> QED BY <1>1, <1>2, FitsStays

\* A package that has a row is put or committed.
LEMMA SkillCallGoesOnFits ==
  ASSUME LibraryFits, LibraryInv, NEW c \in SkillCallers, SkillCallGoesOn(c)
  PROVE  LibraryFits'
<1>1. skillCalls[c].phase \in {"putting", "committing"}
  BY DEF SkillCallGoesOn, PutSkill, PutSkillFails, CommitRefused, CommitUnchanged, CommitVersion, Commits, SkillCallIs
<1>2. PICK p : p = RequestOf(c).package
  OBVIOUS
<1>3. p \in StoredSkills
  BY <1>1, <1>2 DEF LibraryFits
<1>4. \A d \in SkillCallers : CallFollows(d)
  BY SkillCallGoesOnStep
<1>5. \A d \in SkillCallers : CallRests(d)
  BY <1>4 DEF CallFollows, CallRests
<1>6. skillObjects \in [SkillPackages -> {"none", "pending", "committed"}]
  BY DEF LibraryInv, SkillsSound
<1>7. /\ UNCHANGED skillObjects \/ SkillCommitted(p)
      /\ skillBucket' \subseteq skillBucket \cup {p}
  BY <1>2 DEF SkillCallGoesOn, PutSkill, PutSkillFails, CommitRefused, CommitUnchanged, CommitVersion, skillLibrary
<1>8. StoredSkills' = StoredSkills
  BY <1>3, <1>6, <1>7 DEF StoredSkills, SkillCommitted
<1>9. skillBucket' \subseteq StoredSkills
  BY <1>3, <1>7 DEF LibraryFits
<1> QED BY <1>5, <1>8, <1>9, FitsStays

\* The rows and the bucket stay, or the bucket loses an object; no call moves.
LEMMA FitsKept ==
  ASSUME LibraryFits, UNCHANGED <<skillObjects, skillCalls>>, skillBucket' \subseteq skillBucket
  PROVE  LibraryFits'
<1>1. \A c \in SkillCallers : CallRests(c)
  BY DEF CallRests
<1>2. StoredSkills' = StoredSkills /\ skillBucket' \subseteq StoredSkills
  BY DEF StoredSkills, LibraryFits
<1> QED BY <1>1, <1>2, FitsStays

LEMMA RecipeCallFits ==
  ASSUME LibraryFits, RecipesInv, NEW c \in SkillCallers, RecipeCallNext(c)
  PROVE  LibraryFits'
<1>1. CASE UNCHANGED skillVars
  BY <1>1, FitsKept DEF skillVars, skillLibrary
<1>2. CASE ImportSkill(c)
  <2>1. PICK q \in AnySkillRequest : PublishSkill(c, q) \/ PublishAnswered(c, q)
    <3> DEFINE q0 == [key |-> <<recipeCalls[c].client, recipeCalls[c].installation, NextSkill(c)>>,
                      skill |-> 0, expected |-> 0, repair |-> 0, package |-> RecipePlan[NextSkill(c)]]
    <3>1. Imports(c)
      BY <1>2 DEF ImportSkill
    <3>2. /\ recipeCalls[c].phase = "importing" /\ NextSkill(c) \in 1..Len(RecipePlan)
          /\ RecipePlan[NextSkill(c)] \in SkillPackages
      BY <3>1, ImportFacts
    <3>3. recipeCalls[c].client \in RecipeClients /\ recipeCalls[c].installation \in Installations
      BY <3>2, RecipeFacts
    <3>4. 0 \in 0..MaxSkills /\ 0 \in 0..MaxSkillVersions
      BY SkillsAssumption
    <3>5. q0 \in AnySkillRequest
      BY <3>2, <3>3, <3>4 DEF AnySkillRequest
    <3>6. PublishSkill(c, q0) \/ PublishAnswered(c, q0)
      BY <1>2 DEF ImportSkill
    <3> HIDE DEF q0
    <3> QED BY <3>5, <3>6
  <2>2. CASE PublishSkill(c, q)
    BY <2>1, <2>2, PublishSkillFits DEF RecipesInv
  <2>3. CASE PublishAnswered(c, q)
    <3>1. /\ skillCalls'[c].phase = "answered"
          /\ \A d \in SkillCallers \ {c} : skillCalls'[d] = skillCalls[d]
      BY <2>3, PublishAnsweredStep DEF RecipesInv
    <3>2. UNCHANGED <<skillLibrary, skillBucket>>
      BY <2>3 DEF PublishAnswered
    <3> QED BY <3>1, <3>2, FitsOver
  <2> QED BY <2>1, <2>2, <2>3
<1>3. CASE RecipeCallDies(c)
  <2>1. skillCalls' = [skillCalls EXCEPT ![c] = NoSkillCall] /\ UNCHANGED <<skillLibrary, skillBucket>>
    BY <1>3 DEF RecipeCallDies
  <2>2. skillCalls'[c].phase = "idle" /\ \A d \in SkillCallers \ {c} : skillCalls'[d] = skillCalls[d]
    BY <2>1, SkillCallOver DEF RecipesInv
  <2> QED BY <2>1, <2>2, FitsOver
<1>4. UNCHANGED skillVars \/ ImportSkill(c) \/ RecipeCallDies(c)
  BY DEF RecipeCallNext, BeginInstall, Continue, InsertInstallation, ReuseSkill, CreateAgent,
         FinishInstallation, AgentDenied
<1> QED BY <1>1, <1>2, <1>3, <1>4

\* Every reservation fits, whichever others are under way or were given up.
THEOREM LibraryStaysBounded == RecipesSpec => []SkillLibraryBounded
<1>1. RecipesInit => LibraryFits
  <2> SUFFICES ASSUME RecipesInit
               PROVE  LibraryFits
    OBVIOUS
  <2>1. StoredSkills = {} /\ skillBucket = {} /\ \A c \in SkillCallers : skillCalls[c].phase = "idle"
    BY DEF RecipesInit, SkillsInit, StoredSkills, NoSkillCall
  <2>2. BytesIn({}) = {} /\ BytesOf({}) = Cardinality(BytesIn({}))
    BY DEF BytesIn, BytesOf
  <2>3. IsFiniteSet(BytesIn({})) /\ BytesOf({}) = 0
    BY <2>2, FS_EmptySet
  <2> QED BY <2>1, <2>3, SkillsAssumption DEF LibraryFits
<1>2. LibraryFits /\ RecipesInv /\ [RecipesNext]_recipeVars => LibraryFits'
  <2> SUFFICES ASSUME LibraryFits, RecipesInv, [RecipesNext]_recipeVars
               PROVE  LibraryFits'
    OBVIOUS
  <2>1. ASSUME NEW c \in SkillCallers, SkillAnswerTaken(c) \/ SkillCallDies(c) \/ RecipeCallDies(c)
        PROVE  LibraryFits'
    <3>1. skillCalls' = [skillCalls EXCEPT ![c] = NoSkillCall] /\ UNCHANGED <<skillLibrary, skillBucket>>
      BY <2>1 DEF SkillAnswerTaken, SkillCallDies, RecipeCallDies
    <3>2. skillCalls'[c].phase = "idle" /\ \A d \in SkillCallers \ {c} : skillCalls'[d] = skillCalls[d]
      BY <3>1, SkillCallOver DEF RecipesInv
    <3> QED BY <3>1, <3>2, FitsOver
  <2>2. ASSUME NEW c \in SkillCallers, NEW q \in SkillRequests, PublishSkill(c, q)
        PROVE  LibraryFits'
    <3>1. q \in AnySkillRequest
      BY DEF SkillRequests, AnySkillRequest
    <3> QED BY <2>2, <3>1, PublishSkillFits DEF RecipesInv
  <2>3. ASSUME NEW k \in SkillKeys, NEW s \in SkillIds, RetireSkill(k, s)
        PROVE  LibraryFits'
    BY <2>3, FitsKept DEF RetireSkill
  <2>4. ASSUME NEW p \in SkillPackages, LoseSkillObject(p)
        PROVE  LibraryFits'
    BY <2>4, FitsKept DEF LoseSkillObject, skillLibrary
  <2>5. ASSUME NEW c \in SkillCallers, RecipeCallNext(c)
        PROVE  LibraryFits'
    BY <2>5, RecipeCallFits
  <2>6. ASSUME NEW c \in SkillCallers, SkillCallGoesOn(c)
        PROVE  LibraryFits'
    BY <2>6, SkillCallGoesOnFits DEF RecipesInv
  <2>7. CASE UNCHANGED recipeVars
    BY <2>7, FitsKept DEF recipeVars, skillVars, skillLibrary
  <2>8. CASE RecipesNext
    <3>1. CASE \E c \in SkillCallers : SkillCallIs(c, "answered")
      BY <2>1, <2>8, <3>1 DEF RecipesNext, RecordSkill
    <3>2. CASE ~\E c \in SkillCallers : SkillCallIs(c, "answered")
      BY <2>1, <2>2, <2>3, <2>4, <2>5, <2>6, <2>8, <3>2 DEF RecipesNext
    <3> QED BY <3>1, <3>2
  <2> QED BY <2>7, <2>8
<1>3. LibraryFits => SkillLibraryBounded
  <2> SUFFICES ASSUME LibraryFits
               PROVE  SkillLibraryBounded
    OBVIOUS
  <2>1. {p \in SkillPackages : skillObjects[p] # "none"} \cup skillBucket = StoredSkills
    BY DEF LibraryFits, StoredSkills
  <2>2. BytesOf(StoredSkills) <= MaxSkillBytes
    BY DEF LibraryFits
  <2> QED BY <2>1, <2>2 DEF SkillLibraryBounded
<1> QED BY <1>1, <1>2, <1>3, RecipesInvariant, PTL DEF RecipesSpec

-----------------------------------------------------------------------------
(* The publication of a Recipe: types *)

\* What the code takes for granted of the requests, and does not check. A request is
\* carried out by one invocation, once: a second one can delete what the first one has
\* published (the run package_deleted). And two requests publish different contents: the
\* second request for one content is a repetition of the first under another key.
OneCallEach ==
  \A r, s \in PublicationRequests : PublicationKey(r) = PublicationKey(s) =>
    \A p \in RequestCalls[r], q \in RequestCalls[s] : p = q
OwnContents ==
  \A r, s \in PublicationRequests : PublicationKey(r) # PublicationKey(s) =>
    /\ Candidate[r].recipe # Candidate[s].recipe
    /\ Candidate[r].decision = "publish" /\ Candidate[s].decision = "publish" =>
         Candidate[r].skill # Candidate[s].skill

SkillContents == {Candidate[r].skill : r \in PublicationRequests}
RecipeContents == {Candidate[r].recipe : r \in PublicationRequests} \X Nat \X SkillContents
Digests == {<<>>} \cup RecipeContents \cup SkillContents

RecipeArtifact(b) == [name |-> "recipe", version |-> b.recipe, digest |-> b.content]
SkillArtifact(b) == [name |-> "skill", version |-> b.skill, digest |-> b.content[3]]
Artifacts(b) == IF b.publishes THEN {SkillArtifact(b), RecipeArtifact(b)} ELSE {RecipeArtifact(b)}

Bundle == [skill : Nat, recipe : Nat, publishes : BOOLEAN, content : {<<>>} \cup RecipeContents]

\* The bundles that are planned for a request, and those of a key.
PlannedBundle(r, b) ==
  /\ b \in Bundle /\ b.skill >= 1 /\ b.recipe >= 1
  /\ b.publishes = (Candidate[r].decision = "publish")
  /\ b.content = <<Candidate[r].recipe, b.skill, Candidate[r].skill>>
BundleOfKey(k, b) == \E r \in PublicationRequests : PublicationKey(r) = k /\ PlannedBundle(r, b)

Artifact == [name : ArtifactNames, version : Nat \ {0}, digest : Digests]
Intent == [phase : IntentPhases, bundle : Bundle, touched : 0..MaxHour, lease : 0..MaxHour]

PublishPhases ==
  {"idle", "checking", "touching", "resuming", "asserting", "reserving", "storing", "claiming",
   "committing"}
PublishCall ==
  [phase : PublishPhases, request : PublicationRequests \cup {"none"}, bundle : Bundle,
   at : 0..MaxHour, since : 0..MaxHour, left : Seq(Artifact)]

MaintenancePhases == {"idle", "selected", "deleting", "embedding", "marking"}

RequestRows ==
  /\ wishes \in [PublicationRequests -> [authorization : 0..MaxAuthorizations, plan : Bundle]]
  /\ authorizations \in [PublicationKeys -> [id : 0..MaxAuthorizations, approved : BOOLEAN]]

RegistryTypes ==
  /\ publication \in [PublicationKeys -> Bundle]
  /\ intents \in [PublicationKeys -> Intent]
  /\ published \in [ArtifactNames -> Seq(Digests)]
  /\ packages \subseteq Artifact

InvocationTypes ==
  /\ publishCalls \in [PublishCalls -> PublishCall]
  /\ maintenance \in [phase : MaintenancePhases, key : PublicationKeys \cup {"none"},
                      seen : IntentPhases, at : 0..MaxHour, left : {maintenance.left}]
  /\ hour \in 0..MaxHour

\* A plan, an upload and a publication are of a request of their key.
WishesPlanned ==
  \A r \in PublicationRequests : wishes[r].plan # NoBundle => PlannedBundle(r, wishes[r].plan)
RowsPlanned ==
  \A k \in PublicationKeys :
    /\ publication[k] # NoBundle => BundleOfKey(k, publication[k])
    /\ intents[k].phase # "none" => BundleOfKey(k, intents[k].bundle)

\* What a call has still to store of its bundle, and what it has stored by then.
LeftOf(b, left) ==
  \/ left = <<RecipeArtifact(b)>>
  \/ b.publishes /\ left = <<SkillArtifact(b), RecipeArtifact(b)>>
Stored(b, left) ==
  IF b.publishes /\ left = <<RecipeArtifact(b)>> THEN {SkillArtifact(b)} ELSE {}

-----------------------------------------------------------------------------
(* The publication of a Recipe: the invariant *)

IsPublished(a) == a.version \in 1..LatestVersion(a.name) /\ published[a.name][a.version] = a.digest

\* A version is what some key has published.
VersionsKnown ==
  \A n \in ArtifactNames : \A v \in 1..LatestVersion(n) :
    \E k \in PublicationKeys :
      /\ publication[k] # NoBundle
      /\ [name |-> n, version |-> v, digest |-> published[n][v]] \in Artifacts(publication[k])

\* Two artifacts with the same coordinate.
SameVersion(a, c) == a.name = c.name /\ a.version = c.version

\* Two uploads never hold the same coordinate.
IntentsApart ==
  \A k, o \in PublicationKeys :
    k # o /\ intents[k].phase # "none" /\ intents[o].phase # "none" =>
      \A a \in Artifacts(intents[k].bundle), c \in Artifacts(intents[o].bundle) : ~SameVersion(a, c)

\* An upload is of what is not published.
IntentsUnpublished ==
  \A k \in PublicationKeys : intents[k].phase # "none" =>
    \A a \in Artifacts(intents[k].bundle) : ~IsPublished(a)

\* The clock of a call.
CallTimely(c) ==
  /\ c.phase # "idle" => c.since <= hour /\ hour <= c.since + 1
  /\ c.phase \notin {"idle", "checking", "touching"} => c.at <= hour /\ hour <= c.at + 2

\* A call that has reserved still has its upload, at most in quarantine, since nothing
\* that it does takes longer than it may; and it still has what it has stored.
CallUploads(c, i) ==
  /\ c.phase \in {"resuming", "storing", "claiming", "committing"} =>
       /\ i.bundle = c.bundle /\ i.touched >= c.at
       /\ i.phase \in {"uploading", "finalizing", "quarantine"}
       /\ i.phase = "quarantine" => i.lease >= c.at + 2
  /\ c.phase = "storing" => LeftOf(c.bundle, c.left) /\ Stored(c.bundle, c.left) \subseteq packages
  /\ c.phase \in {"claiming", "committing"} => Artifacts(c.bundle) \subseteq packages
  /\ c.phase = "committing" => i.phase = "finalizing" /\ i.touched >= c.since

CallHolds(p) ==
  LET c == publishCalls[p] IN
  /\ CallTimely(c)
  /\ c.phase # "idle" =>
       /\ c.request \in PublicationRequests /\ p \in RequestCalls[c.request]
       /\ PlannedBundle(c.request, c.bundle)
       /\ CallUploads(c, intents[BundleKey(p)])
       /\ c.phase # "checking" => publication[BundleKey(p)] = NoBundle
       /\ c.phase \in {"reserving", "storing", "claiming", "committing"} => DependencyHolds(c.bundle)
CallsHold == \A p \in PublishCalls : CallHolds(p)

\* The clean-up deletes what its upload holds, and has deleted what it no longer lists.
CleanupHolds ==
  /\ maintenance.at <= hour
  /\ maintenance.phase \in {"selected", "deleting"} => maintenance.key \in PublicationKeys
  /\ maintenance.phase = "deleting" =>
       /\ intents[maintenance.key].phase = "cleanup"
       /\ intents[maintenance.key].lease = maintenance.at
       /\ maintenance.left \subseteq Artifacts(intents[maintenance.key].bundle)
       /\ Artifacts(intents[maintenance.key].bundle) \cap packages \subseteq maintenance.left

\* What waits for the index is all from some version on.
IndexHolds ==
  /\ pendingIndex \subseteq 1..LatestVersion("recipe")
  /\ \A v \in pendingIndex : v..LatestVersion("recipe") \subseteq pendingIndex
  /\ vector \in 0..LatestVersion("recipe")
  /\ \A v \in (1..LatestVersion("recipe")) \ pendingIndex : v <= vector
  /\ maintenance.phase \in {"embedding", "marking"} =>
       \E first \in pendingIndex, last \in 1..LatestVersion("recipe") :
         /\ maintenance.left = first..last /\ first <= last
         /\ \A v \in pendingIndex : v >= first
         /\ maintenance.phase = "marking" => vector = last

PublishedOnce ==
  Cardinality({k \in PublicationKeys : publication[k] # NoBundle}) = LatestVersion("recipe")

RowsInv ==
  /\ RegistryTypes /\ RowsPlanned /\ VersionsKnown /\ IntentsApart /\ IntentsUnpublished
  /\ PackagesKept /\ DependenciesKept /\ PackagesAccounted /\ PublishedOnce

PublicationsInv ==
  /\ RequestRows /\ WishesPlanned /\ InvocationTypes
  /\ RowsInv /\ CallsHold /\ CleanupHolds /\ IndexHolds

-----------------------------------------------------------------------------
(* The publication of a Recipe: what the operators of the model are *)

LEMMA HoursAre == MaxHour \in Nat /\ MaxAuthorizations \in Nat /\ IsFiniteSet(PublicationRequests)
BY PublicationsAssumption

\* A bundle that is planned has versions, and contents that are those of its request.
LEMMA PlannedIs ==
  ASSUME NEW r \in PublicationRequests, NEW b, PlannedBundle(r, b)
  PROVE  /\ b \in Bundle /\ b # NoBundle
         /\ b.skill \in Nat \ {0} /\ b.recipe \in Nat \ {0} /\ b.publishes \in BOOLEAN
         /\ b.publishes <=> Candidate[r].decision = "publish"
         /\ b.content \in RecipeContents /\ b.content[3] \in SkillContents
         /\ b.content[1] = Candidate[r].recipe /\ b.content[2] = b.skill
         /\ b.content[3] = Candidate[r].skill
<1>1. b.skill \in Nat \ {0} /\ b.recipe \in Nat \ {0} /\ b.publishes \in BOOLEAN
  BY DEF PlannedBundle, Bundle
<1>2. b # NoBundle
  BY DEF PlannedBundle, NoBundle
<1>3. b.content = <<Candidate[r].recipe, b.skill, Candidate[r].skill>>
  BY DEF PlannedBundle
<1>4. b.content \in RecipeContents /\ b.content[3] \in SkillContents
  BY <1>1, <1>3 DEF RecipeContents, SkillContents
<1>5. b \in Bundle /\ (b.publishes <=> Candidate[r].decision = "publish")
  BY Zenon DEF PlannedBundle
<1>6. /\ b.content[1] = Candidate[r].recipe /\ b.content[2] = b.skill
      /\ b.content[3] = Candidate[r].skill
  BY <1>3
<1> QED BY <1>1, <1>2, <1>4, <1>5, <1>6

\* What a bundle holds, as a set and as the sequence in which it is stored.
LEMMA ArtifactsAre ==
  ASSUME NEW b
  PROVE  /\ ToSet(BundleArtifacts(b)) = Artifacts(b)
         /\ \A a \in Artifacts(b) : \E n \in 1..Len(BundleArtifacts(b)) : BundleArtifacts(b)[n] = a
         /\ \A n \in 1..Len(BundleArtifacts(b)) : BundleArtifacts(b)[n] \in Artifacts(b)
         /\ BundleArtifacts(b) = IF b.publishes THEN <<SkillArtifact(b), RecipeArtifact(b)>>
                                 ELSE <<RecipeArtifact(b)>>
<1>1. BundleArtifacts(b) = IF b.publishes THEN <<SkillArtifact(b), RecipeArtifact(b)>>
                           ELSE <<RecipeArtifact(b)>>
  BY DEF BundleArtifacts, SkillArtifact, RecipeArtifact
<1>2. CASE b.publishes
  <2>1. Len(BundleArtifacts(b)) = 2 /\ BundleArtifacts(b)[1] = SkillArtifact(b)
        /\ BundleArtifacts(b)[2] = RecipeArtifact(b) /\ DOMAIN BundleArtifacts(b) = 1..2
    BY <1>1, <1>2
  <2>2. Artifacts(b) = {SkillArtifact(b), RecipeArtifact(b)}
    BY <1>2 DEF Artifacts
  <2>3. ToSet(BundleArtifacts(b)) = {BundleArtifacts(b)[n] : n \in 1..2}
    BY <2>1 DEF ToSet
  <2> QED BY <1>1, <2>1, <2>2, <2>3
<1>3. CASE ~b.publishes
  <2>1. Len(BundleArtifacts(b)) = 1 /\ BundleArtifacts(b)[1] = RecipeArtifact(b)
        /\ DOMAIN BundleArtifacts(b) = 1..1
    BY <1>1, <1>3
  <2>2. Artifacts(b) = {RecipeArtifact(b)}
    BY <1>3 DEF Artifacts
  <2>3. ToSet(BundleArtifacts(b)) = {BundleArtifacts(b)[n] : n \in 1..1}
    BY <2>1 DEF ToSet
  <2> QED BY <1>1, <2>1, <2>2, <2>3
<1> QED BY <1>2, <1>3

\* What a planned bundle holds is named, and is what its fields say.
LEMMA ArtifactIs ==
  ASSUME NEW r \in PublicationRequests, NEW b, PlannedBundle(r, b), NEW a \in Artifacts(b)
  PROVE  /\ a \in Artifact
         /\ a = [name |-> a.name, version |-> a.version, digest |-> a.digest]
         /\ \/ a.name = "recipe" /\ a.version = b.recipe /\ a.digest = b.content
            \/ b.publishes /\ a.name = "skill" /\ a.version = b.skill /\ a.digest = b.content[3]
         /\ RecipeArtifact(b) \in Artifact /\ SkillArtifact(b) \in Artifact
<1>1. b.skill \in Nat \ {0} /\ b.recipe \in Nat \ {0}
      /\ b.content \in Digests /\ b.content[3] \in Digests
  BY PlannedIs DEF Digests
<1>2. RecipeArtifact(b) \in Artifact /\ SkillArtifact(b) \in Artifact
  BY <1>1 DEF RecipeArtifact, SkillArtifact, Artifact, ArtifactNames
<1>3. a = RecipeArtifact(b) \/ (b.publishes /\ a = SkillArtifact(b))
  BY DEF Artifacts
<1> QED BY <1>2, <1>3 DEF RecipeArtifact, SkillArtifact

LEMMA NextVersionsAre ==
  ASSUME NEW b
  PROVE  NextVersions(b) <=> \A a \in Artifacts(b) : a.version = LatestVersion(a.name) + 1
BY ArtifactsAre DEF NextVersions

LEMMA NoIntentHoldsIs ==
  ASSUME NEW k, NEW b
  PROVE  NoIntentHolds(k, b) <=>
           /\ intents[k].phase = "none"
           /\ \A o \in PublicationKeys : intents[o].phase # "none" =>
                \A a \in Artifacts(b), c \in Artifacts(intents[o].bundle) : ~SameVersion(a, c)
<1>1. ASSUME NEW o \in PublicationKeys
      PROVE  (\A m \in 1..Len(BundleArtifacts(b)), n \in 1..Len(BundleArtifacts(intents[o].bundle)) :
                LET a == BundleArtifacts(b)[m]
                    c == BundleArtifacts(intents[o].bundle)[n] IN
                <<a.name, a.version>> # <<c.name, c.version>>)
             <=> \A a \in Artifacts(b), c \in Artifacts(intents[o].bundle) : ~SameVersion(a, c)
  <2>1. PICK d : d = intents[o].bundle
    OBVIOUS
  <2>2. /\ \A a \in Artifacts(b) : \E n \in 1..Len(BundleArtifacts(b)) : BundleArtifacts(b)[n] = a
        /\ \A n \in 1..Len(BundleArtifacts(b)) : BundleArtifacts(b)[n] \in Artifacts(b)
    BY ArtifactsAre
  <2>3. /\ \A a \in Artifacts(d) : \E n \in 1..Len(BundleArtifacts(d)) : BundleArtifacts(d)[n] = a
        /\ \A n \in 1..Len(BundleArtifacts(d)) : BundleArtifacts(d)[n] \in Artifacts(d)
    BY ArtifactsAre
  <2>4. \A a, c : SameVersion(a, c) <=> <<a.name, a.version>> = <<c.name, c.version>>
    BY DEF SameVersion
  <2>5. ASSUME NEW m \in 1..Len(BundleArtifacts(b)), NEW n \in 1..Len(BundleArtifacts(d)),
               \A a \in Artifacts(b), c \in Artifacts(d) : ~SameVersion(a, c)
        PROVE  <<BundleArtifacts(b)[m].name, BundleArtifacts(b)[m].version>>
                 # <<BundleArtifacts(d)[n].name, BundleArtifacts(d)[n].version>>
    BY <2>2, <2>3, <2>4, <2>5
  <2>6. ASSUME NEW a \in Artifacts(b), NEW c \in Artifacts(d),
               \A m \in 1..Len(BundleArtifacts(b)), n \in 1..Len(BundleArtifacts(d)) :
                 <<BundleArtifacts(b)[m].name, BundleArtifacts(b)[m].version>>
                   # <<BundleArtifacts(d)[n].name, BundleArtifacts(d)[n].version>>
        PROVE  ~SameVersion(a, c)
    BY <2>2, <2>3, <2>4, <2>6
  <2> QED BY <2>1, <2>5, <2>6
<1> QED BY <1>1 DEF NoIntentHolds

\* What is left of a bundle at first, and what is stored when nothing is left.
LEMMA LeftIs ==
  ASSUME NEW r \in PublicationRequests, NEW b, PlannedBundle(r, b)
  PROVE  /\ BundleArtifacts(b) \in Seq(Artifact)
         /\ LeftOf(b, BundleArtifacts(b)) /\ Stored(b, BundleArtifacts(b)) = {}
         /\ \A left : LeftOf(b, left) =>
              /\ left \in Seq(Artifact) /\ left # <<>>
              /\ Head(left) \in Artifacts(b) /\ Tail(left) \in Seq(Artifact)
              /\ IF Tail(left) = <<>>
                 THEN Artifacts(b) \subseteq Stored(b, left) \cup {Head(left)}
                 ELSE /\ LeftOf(b, Tail(left))
                      /\ Stored(b, Tail(left)) \subseteq Stored(b, left) \cup {Head(left)}
         /\ \A left : Stored(b, left) \subseteq Artifacts(b)
<1> DEFINE recipe == RecipeArtifact(b)  skill == SkillArtifact(b)
<1>1. recipe \in Artifact /\ skill \in Artifact
  <2>1. recipe \in Artifacts(b)
    BY DEF Artifacts
  <2> QED BY <2>1, ArtifactIs
<1>2. BundleArtifacts(b) = IF b.publishes THEN <<skill, recipe>> ELSE <<recipe>>
  BY ArtifactsAre
<1>3. skill # recipe
  BY DEF SkillArtifact, RecipeArtifact
<1>4. Artifacts(b) = IF b.publishes THEN {skill, recipe} ELSE {recipe}
  BY DEF Artifacts
<1>5. \A left : LeftOf(b, left) <=> left = <<recipe>> \/ (b.publishes /\ left = <<skill, recipe>>)
  BY DEF LeftOf
<1>6. \A left : Stored(b, left) = IF b.publishes /\ left = <<recipe>> THEN {skill} ELSE {}
  BY DEF Stored
<1> HIDE DEF recipe, skill
<1>7. <<recipe>> \in Seq(Artifact) /\ <<skill, recipe>> \in Seq(Artifact) /\ <<>> \in Seq(Artifact)
  BY <1>1
<1>8. /\ <<recipe>> # <<>> /\ Head(<<recipe>>) = recipe /\ Tail(<<recipe>>) = <<>>
      /\ <<skill, recipe>> # <<>> /\ Head(<<skill, recipe>>) = skill
      /\ Tail(<<skill, recipe>>) = <<recipe>> /\ <<recipe>> # <<skill, recipe>>
  BY <1>1
<1> QED BY <1>1, <1>2, <1>3, <1>4, <1>5, <1>6, <1>7, <1>8

-----------------------------------------------------------------------------
(* The publication of a Recipe: what a step leaves alone *)

\* A set of numbers up to a bound has a least and a largest one.
LEMMA Extrema ==
  ASSUME NEW m \in Nat, NEW S, S \subseteq 0..m, S # {}
  PROVE  /\ \E x \in S : \A y \in S : x <= y
         /\ \E x \in S : \A y \in S : y <= x
<1>1. ASSUME NEW T, T \subseteq Nat, T # {}
      PROVE  \E x \in T : \A y \in T : x <= y
  <2>1. IsWellFoundedOn(OpToRel(<, Nat), T)
    BY <1>1, NatLessThanWellFounded, IsWellFoundedOnSubset
  <2>2. PICK x \in T : \A y \in T : <<y, x>> \notin OpToRel(<, Nat)
    BY <1>1, <2>1, WFMin
  <2>3. \A y \in T : ~(y < x)
    BY <1>1, <2>2 DEF OpToRel
  <2>4. \A y \in T : x <= y
    BY <1>1, <2>3
  <2> QED BY <2>4
<1>2. S \subseteq Nat /\ \A y \in S : m - y \in Nat /\ y <= m
  OBVIOUS
<1>3. \E x \in S : \A y \in S : x <= y
  BY <1>1, <1>2
<1>4. PICK T : T = {m - y : y \in S}
  OBVIOUS
<1>5. T \subseteq Nat /\ T # {}
  BY <1>2, <1>4
<1>6. PICK x \in T : \A y \in T : x <= y
  BY <1>1, <1>5
<1>7. PICK z \in S : x = m - z
  BY <1>4
<1>8. ASSUME NEW y \in S
      PROVE  y <= z
  <2>1. m - y \in T
    BY <1>4
  <2>2. m - z <= m - y
    BY <1>6, <1>7, <2>1
  <2> QED BY <1>2, <2>2
<1> QED BY <1>3, <1>8

LEMMA KeysAre ==
  /\ IsFiniteSet(PublicationKeys)
  /\ \A r \in PublicationRequests : PublicationKey(r) \in PublicationKeys
<1>1. \A r \in PublicationRequests : PublicationKey(r) \in PublicationKeys
  BY DEF PublicationKeys
<1>2. [r \in PublicationRequests |-> PublicationKey(r)]
        \in Surjection(PublicationRequests, PublicationKeys)
  BY <1>1 DEF PublicationKeys, Surjection
<1>3. IsFiniteSet(PublicationKeys)
  BY <1>2, HoursAre, FS_Surjection
<1> QED BY <1>1, <1>3

LEMMA CallKey ==
  ASSUME NEW p \in PublishCalls, CallHolds(p), publishCalls[p].phase # "idle"
  PROVE  /\ publishCalls[p].request \in PublicationRequests
         /\ BundleKey(p) \in PublicationKeys
         /\ PlannedBundle(publishCalls[p].request, publishCalls[p].bundle)
BY KeysAre DEF CallHolds, BundleKey

\* Two calls are never of one key.
LEMMA CallsApart ==
  ASSUME OneCallEach, NEW p \in PublishCalls, NEW q \in PublishCalls, p # q,
         CallHolds(p), CallHolds(q), publishCalls[p].phase # "idle", publishCalls[q].phase # "idle"
  PROVE  BundleKey(p) # BundleKey(q)
<1>1. publishCalls[p].request \in PublicationRequests /\ p \in RequestCalls[publishCalls[p].request]
  BY DEF CallHolds
<1>2. publishCalls[q].request \in PublicationRequests /\ q \in RequestCalls[publishCalls[q].request]
  BY DEF CallHolds
<1> QED BY <1>1, <1>2 DEF OneCallEach, BundleKey

LEMMA NothingYet ==
  /\ NoBundle \in Bundle /\ NoIntent \in Intent /\ IdlePublishCall \in PublishCall
<1>1. <<>> \in Seq(Artifact)
  OBVIOUS
<1>2. 0 \in 0..MaxHour
  BY HoursAre
<1>3. NoBundle \in Bundle
  BY DEF NoBundle, Bundle
<1>4. NoIntent \in Intent
  BY <1>2, <1>3 DEF NoIntent, Intent, IntentPhases
<1>5. IdlePublishCall \in PublishCall
  BY <1>1, <1>2, <1>3 DEF IdlePublishCall, PublishCall, PublishPhases
<1> QED BY <1>3, <1>4, <1>5

\* What the steps of a call write in its row.
LEMMA CallGoes ==
  ASSUME InvocationTypes, NEW p \in PublishCalls, NEW phase \in PublishPhases,
         NEW at \in 0..MaxHour, NEW left \in Seq(Artifact),
         publishCalls' = [publishCalls EXCEPT ![p] =
                            [@ EXCEPT !.phase = phase, !.since = hour, !.at = at, !.left = left]]
  PROVE  /\ publishCalls' \in [PublishCalls -> PublishCall]
         /\ publishCalls'[p].phase = phase /\ publishCalls'[p].since = hour
         /\ publishCalls'[p].at = at /\ publishCalls'[p].left = left
         /\ publishCalls'[p].request = publishCalls[p].request
         /\ publishCalls'[p].bundle = publishCalls[p].bundle
         /\ \A q \in PublishCalls : q # p => publishCalls'[q] = publishCalls[q]
<1>1. publishCalls \in [PublishCalls -> PublishCall] /\ hour \in 0..MaxHour
  BY DEF InvocationTypes
<1>2. PICK c : c = [publishCalls[p] EXCEPT !.phase = phase, !.since = hour, !.at = at, !.left = left]
  OBVIOUS
<1>3. /\ c \in PublishCall /\ c.phase = phase /\ c.since = hour /\ c.at = at /\ c.left = left
      /\ c.request = publishCalls[p].request /\ c.bundle = publishCalls[p].bundle
  BY <1>1, <1>2 DEF PublishCall
<1>4. publishCalls' = [publishCalls EXCEPT ![p] = c]
  BY <1>2
<1> QED BY <1>1, <1>3, <1>4

LEMMA CallEnds ==
  ASSUME InvocationTypes, NEW p \in PublishCalls, PublishEnds(p)
  PROVE  /\ publishCalls' \in [PublishCalls -> PublishCall]
         /\ publishCalls'[p].phase = "idle"
         /\ \A q \in PublishCalls : q # p => publishCalls'[q] = publishCalls[q]
<1>1. publishCalls \in [PublishCalls -> PublishCall]
  BY DEF InvocationTypes
<1>2. IdlePublishCall.phase = "idle"
  BY DEF IdlePublishCall
<1> QED BY <1>1, <1>2, NothingYet DEF PublishEnds

LEMMA IdleCallHolds ==
  ASSUME NEW p \in PublishCalls, (publishCalls[p].phase = "idle")'
  PROVE  CallHolds(p)'
BY DEF CallHolds, CallTimely

\* A call goes on as it was when its key is left alone and no package of it is deleted.
LEMMA CallStays ==
  ASSUME NEW p \in PublishCalls, CallHolds(p), publishCalls'[p] = publishCalls[p], hour' = hour,
         publishCalls[p].phase # "idle" =>
           /\ CallUploads(publishCalls[p], intents[BundleKey(p)])'
           /\ publication'[BundleKey(p)] = publication[BundleKey(p)],
         \A b : b.skill \in Nat \ {0} /\ DependencyHolds(b) => DependencyHolds(b)'
  PROVE  CallHolds(p)'
<1>1. (publishCalls[p])' = publishCalls[p] /\ BundleKey(p)' = BundleKey(p)
  BY DEF BundleKey
<1>2. CallTimely(publishCalls[p])'
  BY <1>1 DEF CallHolds, CallTimely
<1>3. CASE publishCalls[p].phase = "idle"
  BY <1>1, <1>3, IdleCallHolds
<1>4. CASE publishCalls[p].phase # "idle"
  <2>1. (publication[BundleKey(p)])' = publication[BundleKey(p)]
    BY <1>1, <1>4
  <2>2. DependencyHolds(publishCalls[p].bundle) => DependencyHolds(publishCalls[p].bundle)'
    <3>1. publishCalls[p].bundle.skill \in Nat \ {0}
      BY <1>4, CallKey, PlannedIs
    <3> QED BY <1>1, <3>1
  <2>3. CallUploads(publishCalls[p], intents[BundleKey(p)])'
    BY <1>4
  <2> QED BY <1>1, <1>2, <1>4, <2>1, <2>2, <2>3 DEF CallHolds
<1> QED BY <1>3, <1>4

LEMMA UploadStays ==
  ASSUME NEW p \in PublishCalls, CallHolds(p), publishCalls[p].phase # "idle",
         publishCalls'[p] = publishCalls[p],
         intents'[BundleKey(p)] = intents[BundleKey(p)],
         Artifacts(publishCalls[p].bundle) \cap packages \subseteq packages'
  PROVE  CallUploads(publishCalls[p], intents[BundleKey(p)])'
<1>1. (publishCalls[p])' = publishCalls[p] /\ BundleKey(p)' = BundleKey(p)
  BY DEF BundleKey
<1>2. (intents[BundleKey(p)])' = intents[BundleKey(p)]
  BY <1>1
<1>3. CallUploads(publishCalls[p], intents[BundleKey(p)])
  BY DEF CallHolds
<1>4. Stored(publishCalls[p].bundle, publishCalls[p].left) \subseteq Artifacts(publishCalls[p].bundle)
  BY CallKey, LeftIs
<1>5. PICK c, i : c = publishCalls[p] /\ i = intents[BundleKey(p)]
  OBVIOUS
<1>6. CallUploads(c, i) => CallUploads(c, i)'
  BY <1>4, <1>5 DEF CallUploads
<1> QED BY <1>1, <1>2, <1>3, <1>5, <1>6

\* A step of one call leaves the other calls as they were.
LEMMA OtherCallsStay ==
  ASSUME OneCallEach, CallsHold, NEW p \in PublishCalls, hour' = hour,
         \A q \in PublishCalls : q # p => publishCalls'[q] = publishCalls[q],
         publishCalls[p].phase # "idle",
         \A k : k # BundleKey(p) => intents'[k] = intents[k] /\ publication'[k] = publication[k],
         packages \subseteq packages',
         \A b : b.skill \in Nat \ {0} /\ DependencyHolds(b) => DependencyHolds(b)',
         CallHolds(p)'
  PROVE  CallsHold'
<1> SUFFICES ASSUME NEW q \in PublishCalls, q # p
             PROVE  CallHolds(q)'
  BY DEF CallsHold
<1>1. CallHolds(p) /\ CallHolds(q)
  BY DEF CallsHold
<1>2. ASSUME publishCalls[q].phase # "idle"
      PROVE  /\ CallUploads(publishCalls[q], intents[BundleKey(q)])'
             /\ publication'[BundleKey(q)] = publication[BundleKey(q)]
  <2>1. BundleKey(q) # BundleKey(p)
    BY <1>1, <1>2, CallsApart
  <2>2. intents'[BundleKey(q)] = intents[BundleKey(q)]
        /\ publication'[BundleKey(q)] = publication[BundleKey(q)]
    BY <2>1
  <2> QED BY <1>1, <1>2, <2>2, UploadStays
<1> QED BY <1>1, <1>2, CallStays

LEMMA CallsStay ==
  ASSUME CallsHold, UNCHANGED <<publishCalls, hour, intents, publication, published, packages>>
  PROVE  CallsHold'
<1> SUFFICES ASSUME NEW q \in PublishCalls
             PROVE  CallHolds(q)'
  BY DEF CallsHold
<1>1. CallHolds(q)
  BY DEF CallsHold
<1>2. \A b : b.skill \in Nat \ {0} /\ DependencyHolds(b) => DependencyHolds(b)'
  BY DEF DependencyHolds, LatestVersion
<1>3. publishCalls[q].phase # "idle" =>
        /\ CallUploads(publishCalls[q], intents[BundleKey(q)])'
        /\ publication'[BundleKey(q)] = publication[BundleKey(q)]
  BY <1>1, UploadStays
<1> QED BY <1>1, <1>2, <1>3, CallStays

LEMMA RegistryStays ==
  ASSUME RowsInv, UNCHANGED <<publication, intents, published, packages>>
  PROVE  RowsInv'
<1>1. RegistryTypes'
  BY DEF RowsInv, RegistryTypes
<1>2. RowsPlanned'
  BY DEF RowsInv, RowsPlanned
<1>3. VersionsKnown' /\ IntentsApart' /\ IntentsUnpublished'
  BY DEF RowsInv, VersionsKnown, IntentsApart, IntentsUnpublished, LatestVersion, IsPublished
<1>4. PackagesKept' /\ DependenciesKept' /\ PackagesAccounted' /\ PublishedOnce'
  BY DEF RowsInv, PackagesKept, DependenciesKept, PackagesAccounted, PublishedOnce, LatestVersion
<1> QED BY <1>1, <1>2, <1>3, <1>4 DEF RowsInv

LEMMA IndexStays ==
  ASSUME IndexHolds, UNCHANGED <<published, pendingIndex, vector>>,
         maintenance' = maintenance \/ maintenance'.phase \notin {"embedding", "marking"}
  PROVE  IndexHolds'
BY DEF IndexHolds, LatestVersion

LEMMA CleanupStays ==
  ASSUME CleanupHolds, UNCHANGED <<maintenance, hour>>,
         maintenance.phase = "deleting" =>
           /\ intents'[maintenance.key] = intents[maintenance.key]
           /\ Artifacts(intents[maintenance.key].bundle) \cap packages' \subseteq packages
  PROVE  CleanupHolds'
BY DEF CleanupHolds

\* A call that only reads the Registry's rows, or none, changes nothing but its own row.
LEMMA CallReads ==
  ASSUME PublicationsInv, UNCHANGED <<wishes, registryRows, maintenance, hour>>,
         NEW p \in PublishCalls, publishCalls' \in [PublishCalls -> PublishCall],
         \A q \in PublishCalls : q # p => publishCalls'[q] = publishCalls[q],
         CallHolds(p)'
  PROVE  PublicationsInv'
<1>1. UNCHANGED <<wishes, authorizations, publication, intents, published, packages, dailyUsage,
                  pendingIndex, vector, maintenance, hour>>
  BY DEF registryRows
<1>2. RequestRows' /\ WishesPlanned'
  BY <1>1 DEF PublicationsInv, RequestRows, WishesPlanned
<1>3. InvocationTypes'
  BY <1>1 DEF PublicationsInv, InvocationTypes
<1>4. RowsInv' /\ IndexHolds' /\ CleanupHolds'
  BY <1>1, RegistryStays, IndexStays, CleanupStays DEF PublicationsInv
<1>5. \A b : b.skill \in Nat \ {0} /\ DependencyHolds(b) => DependencyHolds(b)'
  BY <1>1 DEF DependencyHolds, LatestVersion
<1>6. CallsHold'
  <2> SUFFICES ASSUME NEW q \in PublishCalls, q # p
               PROVE  CallHolds(q)'
    BY DEF CallsHold
  <2>1. CallHolds(q)
    BY DEF PublicationsInv, CallsHold
  <2>2. publishCalls[q].phase # "idle" =>
          /\ CallUploads(publishCalls[q], intents[BundleKey(q)])'
          /\ publication'[BundleKey(q)] = publication[BundleKey(q)]
    BY <1>1, <2>1, UploadStays
  <2> QED BY <1>1, <1>5, <2>1, <2>2, CallStays
<1> QED BY <1>2, <1>3, <1>4, <1>6 DEF PublicationsInv

-----------------------------------------------------------------------------
(* The publication of a Recipe: the owner's requests and the clock *)

LEMMA IssuedIs ==
  ASSUME RequestRows, NEW r \in PublicationRequests
  PROVE  AuthorizationsIssued \in 0..MaxAuthorizations
<1>1. PICK ids : ids = {authorizations[k].id : k \in PublicationKeys}
                       \cup {wishes[s].authorization : s \in PublicationRequests}
  OBVIOUS
<1>2. /\ \A k \in PublicationKeys : authorizations[k].id \in 0..MaxAuthorizations
      /\ \A s \in PublicationRequests : wishes[s].authorization \in 0..MaxAuthorizations
  BY DEF RequestRows
<1>3. ids \subseteq 0..MaxAuthorizations
  BY <1>1, <1>2
<1>4. wishes[r].authorization \in ids
  BY <1>1
<1>5. \E n \in ids : \A i \in ids : i <= n
  BY <1>3, <1>4, HoursAre, Extrema
<1>6. AuthorizationsIssued = CHOOSE n \in ids : \A i \in ids : i <= n
  BY <1>1 DEF AuthorizationsIssued
<1>7. AuthorizationsIssued \in ids
  BY <1>5, <1>6
<1> QED BY <1>3, <1>7

\* A step of the owner writes the rows of the requests and nothing else.
LEMMA WishesChange ==
  ASSUME PublicationsInv, RequestRows', WishesPlanned',
         UNCHANGED <<publication, intents, published, packages, dailyUsage, pendingIndex, vector,
                     publishCalls, maintenance, hour>>
  PROVE  PublicationsInv'
<1>1. InvocationTypes'
  BY DEF PublicationsInv, InvocationTypes
<1>2. RowsInv' /\ CallsHold' /\ IndexHolds' /\ CleanupHolds'
  BY RegistryStays, CallsStay, IndexStays, CleanupStays DEF PublicationsInv
<1> QED BY <1>1, <1>2 DEF PublicationsInv

LEMMA AuthorizationSteps ==
  ASSUME PublicationsInv,
         \/ \E r \in PublicationRequests : AuthorizePublish(r)
         \/ \E k \in PublicationKeys : ApprovePublishAuthorization(k) \/ AuthorizationExpires(k)
  PROVE  PublicationsInv'
<1>1. RequestRows /\ WishesPlanned
  BY DEF PublicationsInv
<1>2. 0 \in 0..MaxAuthorizations
  BY HoursAre
<1>3. ASSUME NEW r \in PublicationRequests, AuthorizePublish(r)
      PROVE  PublicationsInv'
  <2>1. PublicationKey(r) \in PublicationKeys
    BY KeysAre
  <2>2. CASE authorizations[PublicationKey(r)].id # 0
    <3>1. wishes' = [wishes EXCEPT ![r].authorization = authorizations[PublicationKey(r)].id]
          /\ authorizations' = authorizations
      BY <1>3, <2>2 DEF AuthorizePublish
    <3>2. authorizations[PublicationKey(r)].id \in 0..MaxAuthorizations
      BY <1>1, <2>1 DEF RequestRows
    <3>3. RequestRows' /\ WishesPlanned'
      BY <1>1, <3>1, <3>2 DEF RequestRows, WishesPlanned
    <3> QED BY <1>3, <3>3, WishesChange DEF AuthorizePublish
  <2>3. CASE authorizations[PublicationKey(r)].id = 0
    <3>1. PICK n : n = AuthorizationsIssued
      OBVIOUS
    <3>2. /\ n < MaxAuthorizations
          /\ authorizations' = [authorizations EXCEPT ![PublicationKey(r)] =
                                  [id |-> n + 1, approved |-> FALSE]]
          /\ wishes' = [wishes EXCEPT ![r].authorization = n + 1]
      BY <1>3, <2>3, <3>1 DEF AuthorizePublish
    <3>3. n + 1 \in 0..MaxAuthorizations
      BY <1>1, <3>1, <3>2, IssuedIs, HoursAre
    <3>4. RequestRows' /\ WishesPlanned'
      BY <1>1, <3>2, <3>3 DEF RequestRows, WishesPlanned
    <3> QED BY <1>3, <3>4, WishesChange DEF AuthorizePublish
  <2> QED BY <2>2, <2>3
<1>4. ASSUME NEW k \in PublicationKeys, ApprovePublishAuthorization(k)
      PROVE  PublicationsInv'
  <2>1. RequestRows' /\ WishesPlanned'
    BY <1>1, <1>4 DEF RequestRows, WishesPlanned, ApprovePublishAuthorization
  <2> QED BY <1>4, <2>1, WishesChange DEF ApprovePublishAuthorization
<1>5. ASSUME NEW k \in PublicationKeys, AuthorizationExpires(k)
      PROVE  PublicationsInv'
  <2>1. authorizations' \in [PublicationKeys -> [id : 0..MaxAuthorizations, approved : BOOLEAN]]
    BY <1>1, <1>2, <1>5 DEF RequestRows, AuthorizationExpires
  <2>2. \A r \in PublicationRequests :
          /\ [wishes[r] EXCEPT !.authorization = 0] \in [authorization : 0..MaxAuthorizations, plan : Bundle]
          /\ [wishes[r] EXCEPT !.authorization = 0].plan = wishes[r].plan
    BY <1>1, <1>2 DEF RequestRows
  <2>3. RequestRows' /\ WishesPlanned'
    BY <1>1, <1>5, <2>1, <2>2 DEF RequestRows, WishesPlanned, AuthorizationExpires
  <2> QED BY <1>5, <2>3, WishesChange DEF AuthorizationExpires
<1> QED BY <1>3, <1>4, <1>5

\* What the plan of a request can be.
LEMMA PlansArePlanned ==
  ASSUME RegistryTypes, NEW r \in PublicationRequests, NEW b \in Plans(r)
  PROVE  PlannedBundle(r, b)
<1>1. PICK v \in PlannedSkills(r) : b = Planned(r, v)
  BY DEF Plans
<1>2. \A n \in ArtifactNames : LatestVersion(n) \in Nat
  BY DEF RegistryTypes, LatestVersion
<1>3. v \in Nat /\ v >= 1
  BY <1>1, <1>2 DEF PlannedSkills, SkillTargets, ArtifactNames
<1>4. LatestVersion("recipe") + 1 \in Nat /\ LatestVersion("recipe") + 1 >= 1
  BY <1>2 DEF ArtifactNames
<1>5. PICK n : n = LatestVersion("recipe") + 1
  OBVIOUS
<1>6. b = [skill |-> v, recipe |-> n, publishes |-> (Candidate[r].decision = "publish"),
           content |-> <<Candidate[r].recipe, v, Candidate[r].skill>>]
  BY <1>1, <1>5 DEF Planned
<1>7. <<Candidate[r].recipe, v, Candidate[r].skill>> \in RecipeContents
  BY <1>3 DEF RecipeContents, SkillContents
<1>8. (Candidate[r].decision = "publish") \in BOOLEAN
  OBVIOUS
<1>9. b.publishes = (Candidate[r].decision = "publish")
  BY <1>6, Zenon
<1>10. b.skill = v /\ b.recipe = n /\ b.content = <<Candidate[r].recipe, v, Candidate[r].skill>>
  BY <1>6
<1>11. b \in Bundle
  <2>1. ASSUME NEW w \in BOOLEAN, NEW c \in RecipeContents
        PROVE  [skill |-> v, recipe |-> n, publishes |-> w, content |-> c] \in Bundle
    BY <1>3, <1>4, <1>5 DEF Bundle
  <2> QED BY <1>6, <1>7, <1>8, <2>1
<1> QED BY <1>3, <1>4, <1>5, <1>9, <1>10, <1>11 DEF PlannedBundle

LEMMA PreviewPublishStep ==
  ASSUME PublicationsInv, NEW r \in PublicationRequests, PreviewPublish(r)
  PROVE  PublicationsInv'
<1>1. PICK b \in Plans(r) : wishes' = [wishes EXCEPT ![r].plan = b]
  BY DEF PreviewPublish
<1>2. UNCHANGED <<authorizations, publication, intents, published, packages, dailyUsage,
                  pendingIndex, vector, publishCalls, maintenance, hour>>
  BY DEF PreviewPublish, registryRows
<1>3. PlannedBundle(r, b)
  BY PlansArePlanned DEF PublicationsInv, RowsInv
<1>4. b \in Bundle
  BY <1>3 DEF PlannedBundle
<1>5. wishes \in [PublicationRequests -> [authorization : 0..MaxAuthorizations, plan : Bundle]]
  BY DEF PublicationsInv, RequestRows
<1>6. \A s \in PublicationRequests :
        /\ wishes'[s] \in [authorization : 0..MaxAuthorizations, plan : Bundle]
        /\ wishes'[s].plan = IF s = r THEN b ELSE wishes[s].plan
  BY <1>1, <1>4, <1>5
<1>7. RequestRows'
  BY <1>1, <1>2, <1>5, <1>6 DEF PublicationsInv, RequestRows
<1>8. WishesPlanned'
  <2> SUFFICES ASSUME NEW s \in PublicationRequests, wishes'[s].plan # NoBundle
               PROVE  PlannedBundle(s, wishes'[s].plan)
    BY DEF WishesPlanned
  <2>1. CASE s = r
    BY <1>3, <1>6, <2>1
  <2>2. CASE s # r
    BY <1>6, <2>2 DEF PublicationsInv, WishesPlanned
  <2> QED BY <2>1, <2>2
<1> QED BY <1>2, <1>7, <1>8, WishesChange

\* An hour passes only while each call and the maintenance have time left.
LEMMA HourPassesStep ==
  ASSUME PublicationsInv, HourPasses
  PROVE  PublicationsInv'
<1>1. UNCHANGED <<wishes, authorizations, publication, intents, published, packages, dailyUsage,
                  pendingIndex, vector, publishCalls, maintenance>>
  BY DEF HourPasses, registryRows
<1>2. hour \in 0..MaxHour /\ hour' = hour + 1 /\ hour' \in 0..MaxHour
  BY HoursAre DEF HourPasses, PublicationsInv, InvocationTypes
<1>3. RequestRows' /\ WishesPlanned' /\ InvocationTypes'
  BY <1>1, <1>2 DEF PublicationsInv, RequestRows, WishesPlanned, InvocationTypes
<1>4. RowsInv' /\ IndexHolds'
  BY <1>1, RegistryStays, IndexStays DEF PublicationsInv
<1>5. CleanupHolds'
  <2>1. maintenance.at \in 0..MaxHour
    BY DEF PublicationsInv, InvocationTypes
  <2>2. maintenance.at <= hour'
    BY <1>2, <2>1 DEF PublicationsInv, CleanupHolds
  <2> QED BY <1>1, <2>2 DEF PublicationsInv, CleanupHolds
<1>6. CallsHold'
  <2> SUFFICES ASSUME NEW q \in PublishCalls
               PROVE  CallHolds(q)'
    BY DEF CallsHold
  <2>1. PICK c : c = publishCalls[q]
    OBVIOUS
  <2>2. c.at \in 0..MaxHour /\ c.since \in 0..MaxHour
    BY <2>1 DEF PublicationsInv, InvocationTypes, PublishCall
  <2>3. CallHolds(q) /\ (c.phase = "idle" \/ (c.since = hour /\ hour < c.at + 2))
    BY <2>1 DEF PublicationsInv, CallsHold, HourPasses, Publishing
  <2>4. CallTimely(c)
    BY <2>1, <2>3 DEF CallHolds
  <2>5. c.phase \notin {"idle", "checking", "touching"} => c.at <= hour'
    BY <1>2, <2>2, <2>4 DEF CallTimely
  <2>6. c.phase # "idle" => c.since <= hour' /\ hour' <= c.since + 1 /\ hour' <= c.at + 2
    BY <1>2, <2>2, <2>3
  <2>7. CallTimely(c)'
    BY <2>5, <2>6 DEF CallTimely
  <2>8. publishCalls'[q] = c /\ BundleKey(q)' = BundleKey(q)
    BY <1>1, <2>1 DEF BundleKey
  <2>9. DependencyHolds(c.bundle) => DependencyHolds(c.bundle)'
    BY <1>1 DEF DependencyHolds, LatestVersion
  <2>10. PICK i, b : i = intents[BundleKey(q)] /\ b = publication[BundleKey(q)]
    OBVIOUS
  <2>11. (intents[BundleKey(q)])' = i /\ (publication[BundleKey(q)])' = b
    BY <1>1, <2>8, <2>10
  <2>12. CallUploads(c, i) => CallUploads(c, i)'
    BY <1>1 DEF CallUploads
  <2> QED BY <2>1, <2>3, <2>7, <2>8, <2>9, <2>10, <2>11, <2>12 DEF CallHolds
<1> QED BY <1>3, <1>4, <1>5, <1>6 DEF PublicationsInv

-----------------------------------------------------------------------------
(* The publication of a Recipe: the steps of publishBundle *)

LEMMA CallTypes ==
  ASSUME PublicationsInv, NEW p \in PublishCalls
  PROVE  /\ InvocationTypes /\ hour \in 0..MaxHour /\ CallHolds(p)
         /\ publishCalls \in [PublishCalls -> PublishCall]
         /\ publishCalls[p] \in PublishCall
         /\ publishCalls[p].at \in 0..MaxHour /\ publishCalls[p].since \in 0..MaxHour
         /\ publishCalls[p].left \in Seq(Artifact)
BY DEF PublicationsInv, InvocationTypes, CallsHold, PublishCall

LEMMA BeginPublishStep ==
  ASSUME PublicationsInv, NEW p \in PublishCalls, NEW r \in PublicationRequests, BeginPublish(p, r)
  PROVE  PublicationsInv'
<1>1. /\ p \in RequestCalls[r] /\ wishes[r].plan \in Plans(r)
      /\ UNCHANGED <<wishes, registryRows, maintenance, hour>>
  BY DEF BeginPublish
<1>2. PICK b : b = wishes[r].plan
  OBVIOUS
<1>3. PlannedBundle(r, b) /\ b \in Bundle
  BY <1>1, <1>2, PlansArePlanned, PlannedIs DEF PublicationsInv, RowsInv
<1>4. PICK c : c = [phase |-> "checking", request |-> r, bundle |-> b,
                    at |-> hour, since |-> hour, left |-> <<>>]
  OBVIOUS
<1>5. publishCalls' = [publishCalls EXCEPT ![p] = c]
  BY <1>2, <1>4 DEF BeginPublish
<1>6. <<>> \in Seq(Artifact)
  OBVIOUS
<1>7. c \in PublishCall
  BY <1>3, <1>4, <1>6, CallTypes DEF PublishCall, PublishPhases
<1>8. /\ publishCalls' \in [PublishCalls -> PublishCall] /\ publishCalls'[p] = c
      /\ \A q \in PublishCalls : q # p => publishCalls'[q] = publishCalls[q]
  BY <1>5, <1>7, CallTypes
<1>9. CallHolds(p)'
  <2>1. hour \in Nat /\ hour' = hour
    BY <1>1, CallTypes, HoursAre
  <2>2. CallTimely(c)'
    BY <1>4, <2>1 DEF CallTimely
  <2>3. PICK i : i = intents'[BundleKey(p)']
    OBVIOUS
  <2>4. CallUploads(c, i)'
    BY <1>4 DEF CallUploads
  <2> QED BY <1>1, <1>3, <1>4, <1>8, <2>2, <2>3, <2>4 DEF CallHolds
<1> QED BY <1>1, <1>8, <1>9, CallReads

LEMMA PublishEndsStep ==
  ASSUME PublicationsInv, NEW p \in PublishCalls, PublishEnds(p),
         UNCHANGED <<wishes, registryRows, maintenance, hour>>
  PROVE  PublicationsInv'
<1>1. /\ publishCalls' \in [PublishCalls -> PublishCall]
      /\ publishCalls'[p].phase = "idle"
      /\ \A q \in PublishCalls : q # p => publishCalls'[q] = publishCalls[q]
  BY CallEnds, CallTypes
<1>2. CallHolds(p)'
  BY <1>1, IdleCallHolds
<1> QED BY <1>1, <1>2, CallReads

\* How the steps of a call that goes on are written: its phase and clock, and what is
\* left to store.
LEMMA PublishGoesIs ==
  ASSUME PublicationsInv, NEW p \in PublishCalls, NEW phase \in PublishPhases, PublishGoes(p, phase)
  PROVE  /\ publishCalls' \in [PublishCalls -> PublishCall]
         /\ publishCalls'[p].phase = phase /\ publishCalls'[p].since = hour
         /\ publishCalls'[p].at = publishCalls[p].at /\ publishCalls'[p].left = publishCalls[p].left
         /\ publishCalls'[p].request = publishCalls[p].request
         /\ publishCalls'[p].bundle = publishCalls[p].bundle
         /\ \A q \in PublishCalls : q # p => publishCalls'[q] = publishCalls[q]
<1>1. publishCalls' = [publishCalls EXCEPT ![p].phase = phase, ![p].since = hour]
  BY DEF PublishGoes
<1>2. publishCalls \in [PublishCalls -> PublishCall] /\ hour \in 0..MaxHour
  BY CallTypes
<1>3. PICK c : c = [publishCalls[p] EXCEPT !.phase = phase, !.since = hour]
  OBVIOUS
<1>4. /\ c \in PublishCall /\ c.phase = phase /\ c.since = hour /\ c.at = publishCalls[p].at
      /\ c.left = publishCalls[p].left /\ c.request = publishCalls[p].request
      /\ c.bundle = publishCalls[p].bundle
  BY <1>2, <1>3 DEF PublishCall
<1>5. publishCalls' = [publishCalls EXCEPT ![p] = c]
  BY <1>1, <1>2, <1>3
<1> QED BY <1>2, <1>4, <1>5

LEMMA StoreIs ==
  ASSUME PublicationsInv, NEW p \in PublishCalls, Store(p), publishCalls[p].phase # "idle"
  PROVE  /\ publishCalls' \in [PublishCalls -> PublishCall]
         /\ publishCalls'[p].phase = "storing" /\ publishCalls'[p].since = hour
         /\ publishCalls'[p].at = publishCalls[p].at
         /\ publishCalls'[p].left = BundleArtifacts(publishCalls[p].bundle)
         /\ publishCalls'[p].request = publishCalls[p].request
         /\ publishCalls'[p].bundle = publishCalls[p].bundle
         /\ \A q \in PublishCalls : q # p => publishCalls'[q] = publishCalls[q]
<1>1. PICK left : left = BundleArtifacts(publishCalls[p].bundle)
  OBVIOUS
<1>2. publishCalls' = [publishCalls EXCEPT ![p].phase = "storing", ![p].since = hour, ![p].left = left]
  BY <1>1 DEF Store
<1>3. publishCalls \in [PublishCalls -> PublishCall] /\ hour \in 0..MaxHour /\ left \in Seq(Artifact)
  BY <1>1, CallTypes, CallKey, LeftIs
<1>4. PICK c : c = [publishCalls[p] EXCEPT !.phase = "storing", !.since = hour, !.left = left]
  OBVIOUS
<1>5. /\ c \in PublishCall /\ c.phase = "storing" /\ c.since = hour /\ c.at = publishCalls[p].at
      /\ c.left = left /\ c.request = publishCalls[p].request /\ c.bundle = publishCalls[p].bundle
  BY <1>3, <1>4 DEF PublishCall, PublishPhases
<1>6. publishCalls' = [publishCalls EXCEPT ![p] = c]
  BY <1>2, <1>3, <1>4
<1> QED BY <1>1, <1>3, <1>5, <1>6

\* The call that goes on is in time, whatever it does next.
LEMMA GoesInTime ==
  ASSUME PublicationsInv, NEW p \in PublishCalls, hour' = hour,
         publishCalls'[p].since = hour,
         \/ publishCalls'[p].phase = "touching"
         \/ publishCalls'[p].at = hour
         \/ /\ publishCalls'[p].at = publishCalls[p].at
            /\ publishCalls[p].phase \notin {"idle", "checking", "touching"}
  PROVE  CallTimely(publishCalls[p])'
<1>1. hour \in Nat
  BY CallTypes, HoursAre
<1>2. CallTimely(publishCalls[p])
  BY CallTypes DEF CallHolds
<1> QED BY <1>1, <1>2 DEF CallTimely

LEMMA ReplayStep ==
  ASSUME PublicationsInv, NEW p \in PublishCalls, Replay(p)
  PROVE  PublicationsInv'
<1>1. publishCalls[p].phase = "checking" /\ UNCHANGED <<wishes, registryRows, maintenance, hour>>
  BY DEF Replay, Publishing
<1>2. CASE publication[BundleKey(p)] = NoBundle
  <2>1. PublishGoes(p, "touching") /\ "touching" \in PublishPhases
    BY <1>2 DEF Replay, PublishPhases
  <2>2. BundleKey(p)' = BundleKey(p)
    BY <2>1, PublishGoesIs DEF BundleKey
  <2>3. CallTimely(publishCalls[p])'
    BY <1>1, <2>1, PublishGoesIs, GoesInTime
  <2>4. (publication[BundleKey(p)])' = NoBundle
    BY <1>1, <1>2, <2>2 DEF registryRows
  <2>5. (publishCalls[p].phase)' = "touching"
    BY <2>1, PublishGoesIs
  <2>6. CallUploads(publishCalls[p], intents[BundleKey(p)])'
    BY <2>5 DEF CallUploads
  <2>7. (publishCalls[p].request)' = publishCalls[p].request
        /\ (publishCalls[p].bundle)' = publishCalls[p].bundle
    BY <2>1, PublishGoesIs
  <2>8. CallHolds(p)
    BY CallTypes
  <2>9. CallHolds(p)'
    BY <1>1, <2>3, <2>4, <2>5, <2>6, <2>7, <2>8 DEF CallHolds
  <2> QED BY <1>1, <2>1, <2>9, PublishGoesIs, CallReads
<1>3. CASE publication[BundleKey(p)] # NoBundle
  BY <1>1, <1>3, PublishEndsStep DEF Replay
<1> QED BY <1>2, <1>3

LEMMA AssertPublishableStep ==
  ASSUME PublicationsInv, NEW p \in PublishCalls, AssertPublishable(p)
  PROVE  PublicationsInv'
<1>1. publishCalls[p].phase \in {"asserting", "resuming"}
      /\ UNCHANGED <<wishes, registryRows, maintenance, hour>>
  BY DEF AssertPublishable, Publishing
<1>2. PICK b : b = publishCalls[p].bundle
  OBVIOUS
<1>3. CASE PublishEnds(p)
  BY <1>1, <1>3, PublishEndsStep
<1>4. CASE ~PublishEnds(p)
  <2>1. DependencyHolds(b)
        /\ (IF publishCalls[p].phase = "resuming" THEN Store(p) ELSE PublishGoes(p, "reserving"))
    BY <1>2, <1>4 DEF AssertPublishable, Publishing
  <2>2. /\ publishCalls' \in [PublishCalls -> PublishCall]
        /\ publishCalls'[p].since = hour
        /\ publishCalls'[p].at = publishCalls[p].at
        /\ publishCalls'[p].request = publishCalls[p].request /\ publishCalls'[p].bundle = b
        /\ \A q \in PublishCalls : q # p => publishCalls'[q] = publishCalls[q]
        /\ IF publishCalls[p].phase = "resuming"
           THEN publishCalls'[p].phase = "storing" /\ publishCalls'[p].left = BundleArtifacts(b)
           ELSE publishCalls'[p].phase = "reserving"
    <3>1. "reserving" \in PublishPhases
      BY DEF PublishPhases
    <3>2. CASE publishCalls[p].phase = "resuming"
      BY <1>1, <1>2, <2>1, <3>2, StoreIs
    <3>3. CASE publishCalls[p].phase # "resuming"
      BY <1>1, <1>2, <2>1, <3>1, <3>3, PublishGoesIs
    <3> QED BY <3>2, <3>3
  <2>3. CallHolds(p) /\ BundleKey(p)' = BundleKey(p)
    BY <2>2, CallTypes DEF BundleKey
  <2>4. CallTimely(publishCalls[p])'
    BY <1>1, <2>2, GoesInTime
  <2>5. PICK i : i = intents[BundleKey(p)]
    OBVIOUS
  <2>6. (intents[BundleKey(p)])' = i /\ (publication[BundleKey(p)])' = publication[BundleKey(p)]
    BY <1>1, <2>3, <2>5 DEF registryRows
  <2>7. PlannedBundle(publishCalls[p].request, b) /\ publishCalls[p].request \in PublicationRequests
    BY <1>1, <1>2, <2>3, CallKey
  <2>8. CallUploads(publishCalls[p], i)
    BY <1>1, <2>3, <2>5 DEF CallHolds
  <2>9. LeftOf(b, BundleArtifacts(b)) /\ Stored(b, BundleArtifacts(b)) = {}
    BY <2>7, LeftIs
  <2>10. CallUploads(publishCalls[p], i)'
    <3>1. PICK c, d : c = publishCalls[p] /\ d = publishCalls'[p]
      OBVIOUS
    <3>2. CallUploads(d, i)'
      BY <1>1, <1>2, <2>2, <2>8, <2>9, <3>1 DEF CallUploads
    <3> QED BY <3>1, <3>2
  <2>11. DependencyHolds(b)'
    BY <1>1, <2>1 DEF DependencyHolds, LatestVersion, registryRows
  <2>12. CallHolds(p)'
    BY <1>1, <1>2, <2>2, <2>3, <2>4, <2>5, <2>6, <2>10, <2>11 DEF CallHolds
  <2> QED BY <1>1, <2>2, <2>12, CallReads
<1> QED BY <1>3, <1>4

\* An upload that goes on, whatever its phase, is of the same bundle.
LEMMA IntentTurns ==
  ASSUME RowsInv, NEW k \in PublicationKeys, NEW i \in Intent,
         intents' = [intents EXCEPT ![k] = i],
         i.phase # "none", intents[k].phase # "none", i.bundle = intents[k].bundle,
         UNCHANGED <<publication, published, packages>>
  PROVE  RowsInv'
<1>1. intents \in [PublicationKeys -> Intent]
  BY DEF RowsInv, RegistryTypes
<1>2. /\ intents' \in [PublicationKeys -> Intent]
      /\ \A o \in PublicationKeys : /\ intents'[o].bundle = intents[o].bundle
                                    /\ intents'[o].phase # "none" <=> intents[o].phase # "none"
  BY <1>1
<1>3. RegistryTypes' /\ RowsPlanned'
  BY <1>2 DEF RowsInv, RegistryTypes, RowsPlanned
<1>4. VersionsKnown'
  BY DEF RowsInv, VersionsKnown, LatestVersion
<1>5. IntentsApart'
  BY <1>2 DEF RowsInv, IntentsApart
<1>6. IntentsUnpublished'
  BY <1>2 DEF RowsInv, IntentsUnpublished, LatestVersion, IsPublished
<1>7. PackagesKept' /\ DependenciesKept' /\ PublishedOnce'
  BY DEF RowsInv, PackagesKept, DependenciesKept, PublishedOnce, LatestVersion
<1>8. PackagesAccounted'
  BY <1>2 DEF RowsInv, PackagesAccounted, LatestVersion
<1> QED BY <1>3, <1>4, <1>5, <1>6, <1>7, <1>8 DEF RowsInv

\* A call that touches its upload, or claims it, changes its own row and the upload's.
LEMMA CallTouches ==
  ASSUME PublicationsInv, OneCallEach, NEW p \in PublishCalls, publishCalls[p].phase # "idle",
         Touchable(BundleKey(p), publishCalls[p].bundle), NEW i \in Intent,
         i.phase \in {"uploading", "finalizing"}, i.bundle = publishCalls[p].bundle,
         intents' = [intents EXCEPT ![BundleKey(p)] = i],
         UNCHANGED <<wishes, authorizations, publication, published, packages, dailyUsage,
                     pendingIndex, vector, maintenance, hour>>,
         publishCalls' \in [PublishCalls -> PublishCall],
         \A q \in PublishCalls : q # p => publishCalls'[q] = publishCalls[q],
         CallHolds(p)'
  PROVE  PublicationsInv'
<1>1. PICK k : k = BundleKey(p)
  OBVIOUS
<1>2. k \in PublicationKeys
  BY <1>1, CallTypes, CallKey
<1>3. intents[k].phase \in {"uploading", "finalizing"} /\ intents[k].bundle = publishCalls[p].bundle
  BY <1>1 DEF Touchable
<1>4. RowsInv'
  BY <1>1, <1>2, <1>3, IntentTurns DEF PublicationsInv
<1>5. intents \in [PublicationKeys -> Intent]
  BY DEF PublicationsInv, RowsInv, RegistryTypes
<1>6. \A o : o # k => intents'[o] = intents[o]
  BY <1>1, <1>5
<1>7. \A b : b.skill \in Nat \ {0} /\ DependencyHolds(b) => DependencyHolds(b)'
  BY DEF DependencyHolds, LatestVersion
<1>8. CallsHold'
  BY <1>1, <1>6, <1>7, OtherCallsStay DEF PublicationsInv
<1>9. RequestRows' /\ WishesPlanned' /\ InvocationTypes'
  BY DEF PublicationsInv, RequestRows, WishesPlanned, InvocationTypes
<1>10. CleanupHolds'
  BY <1>3, <1>6, CleanupStays DEF PublicationsInv, CleanupHolds
<1>11. IndexHolds'
  BY IndexStays DEF PublicationsInv
<1> QED BY <1>4, <1>8, <1>9, <1>10, <1>11 DEF PublicationsInv

LEMMA TouchPendingStep ==
  ASSUME PublicationsInv, OneCallEach, NEW p \in PublishCalls, TouchPending(p)
  PROVE  PublicationsInv'
<1>1. PICK k, b : k = BundleKey(p) /\ b = publishCalls[p].bundle
  OBVIOUS
<1>2. publishCalls[p].phase = "touching"
      /\ UNCHANGED <<wishes, authorizations, publication, published, packages, dailyUsage,
                     pendingIndex, vector, maintenance, hour>>
  BY DEF TouchPending, Publishing
<1>3. hour \in 0..MaxHour /\ CallHolds(p)
  BY CallTypes
<1>4. PICK phase \in PublishPhases :
        /\ phase = IF Touchable(k, b) THEN "resuming" ELSE "asserting"
        /\ publishCalls' = [publishCalls EXCEPT ![p].phase = phase, ![p].since = hour, ![p].at = hour]
  BY <1>1 DEF TouchPending, PublishPhases
<1>5. /\ publishCalls' \in [PublishCalls -> PublishCall]
      /\ publishCalls'[p].phase = phase /\ publishCalls'[p].since = hour
      /\ publishCalls'[p].at = hour
      /\ publishCalls'[p].request = publishCalls[p].request /\ publishCalls'[p].bundle = b
      /\ \A q \in PublishCalls : q # p => publishCalls'[q] = publishCalls[q]
  <2>1. publishCalls \in [PublishCalls -> PublishCall]
    BY CallTypes
  <2>2. PICK c : c = [publishCalls[p] EXCEPT !.phase = phase, !.since = hour, !.at = hour]
    OBVIOUS
  <2>3. /\ c \in PublishCall /\ c.phase = phase /\ c.since = hour /\ c.at = hour
        /\ c.request = publishCalls[p].request /\ c.bundle = b
    BY <1>1, <1>3, <2>1, <2>2 DEF PublishCall
  <2>4. publishCalls' = [publishCalls EXCEPT ![p] = c]
    BY <1>4, <2>1, <2>2
  <2> QED BY <2>1, <2>3, <2>4
<1>6. BundleKey(p)' = k
  BY <1>1, <1>5 DEF BundleKey
<1>7. CallTimely(publishCalls[p])'
  BY <1>2, <1>5, GoesInTime
<1>8. (publication[BundleKey(p)])' = NoBundle
  BY <1>1, <1>2, <1>3, <1>6 DEF CallHolds
<1>9. CallHolds(p)' <=> CallUploads(publishCalls[p], intents[BundleKey(p)])'
  BY <1>1, <1>2, <1>3, <1>4, <1>5, <1>6, <1>7, <1>8 DEF CallHolds
<1>10. CASE Touchable(k, b)
  <2>1. intents' = [intents EXCEPT ![k].touched = hour]
    BY <1>1, <1>10 DEF TouchPending
  <2>2. intents \in [PublicationKeys -> Intent] /\ k \in PublicationKeys
    BY <1>1, <1>2, <1>3, CallKey DEF PublicationsInv, RowsInv, RegistryTypes
  <2>3. PICK i : i = [intents[k] EXCEPT !.touched = hour]
    OBVIOUS
  <2>4. /\ i \in Intent /\ i.phase \in {"uploading", "finalizing"} /\ i.bundle = b /\ i.touched = hour
        /\ intents' = [intents EXCEPT ![k] = i] /\ intents'[k] = i
    BY <1>3, <1>10, <2>1, <2>2, <2>3 DEF Intent, Touchable
  <2>5. CallUploads(publishCalls[p], intents[BundleKey(p)])'
    <3>1. PICK d : d = publishCalls'[p]
      OBVIOUS
    <3>2. CallUploads(d, i)'
      BY <1>3, <1>4, <1>5, <1>10, <2>4, <3>1, HoursAre DEF CallUploads
    <3>3. (publishCalls[p])' = d /\ (intents[BundleKey(p)])' = i
      BY <1>6, <2>4, <3>1
    <3> QED BY <3>2, <3>3
  <2> QED BY <1>1, <1>2, <1>5, <1>9, <1>10, <2>4, <2>5, CallTouches
<1>11. CASE ~Touchable(k, b)
  <2>1. intents' = intents
    BY <1>1, <1>11 DEF TouchPending
  <2>2. CallUploads(publishCalls[p], intents[BundleKey(p)])'
    <3>1. (publishCalls[p].phase)' = "asserting"
      BY <1>4, <1>5, <1>11
    <3> QED BY <3>1 DEF CallUploads
  <2>3. UNCHANGED <<wishes, registryRows, maintenance, hour>>
    BY <1>2, <2>1 DEF registryRows
  <2> QED BY <1>5, <1>9, <2>2, <2>3, CallReads
<1> QED BY <1>10, <1>11

LEMMA ClaimFinalizationStep ==
  ASSUME PublicationsInv, OneCallEach, NEW p \in PublishCalls, ClaimFinalization(p)
  PROVE  PublicationsInv'
<1>1. PICK k, b : k = BundleKey(p) /\ b = publishCalls[p].bundle
  OBVIOUS
<1>2. publishCalls[p].phase = "claiming"
      /\ UNCHANGED <<wishes, authorizations, publication, published, packages, dailyUsage,
                     pendingIndex, vector, maintenance, hour>>
  BY DEF ClaimFinalization, Publishing
<1>3. hour \in 0..MaxHour /\ CallHolds(p)
  BY CallTypes
<1>4. CASE Touchable(k, b)
  <2>1. intents' = [intents EXCEPT ![k].phase = "finalizing", ![k].lease = 0, ![k].touched = hour]
        /\ PublishGoes(p, "committing") /\ "committing" \in PublishPhases
    BY <1>1, <1>4 DEF ClaimFinalization, PublishPhases
  <2>2. intents \in [PublicationKeys -> Intent] /\ k \in PublicationKeys
    BY <1>1, <1>2, <1>3, CallKey DEF PublicationsInv, RowsInv, RegistryTypes
  <2>3. PICK i : i = [intents[k] EXCEPT !.phase = "finalizing", !.lease = 0, !.touched = hour]
    OBVIOUS
  <2>4. /\ i \in Intent /\ i.phase = "finalizing" /\ i.bundle = b /\ i.touched = hour
        /\ intents' = [intents EXCEPT ![k] = i] /\ intents'[k] = i
    <3>1. 0 \in 0..MaxHour
      BY HoursAre
    <3> QED BY <1>3, <1>4, <2>1, <2>2, <2>3, <3>1 DEF Intent, IntentPhases, Touchable
  <2>5. /\ publishCalls' \in [PublishCalls -> PublishCall]
        /\ publishCalls'[p].phase = "committing" /\ publishCalls'[p].since = hour
        /\ publishCalls'[p].at = publishCalls[p].at
        /\ publishCalls'[p].request = publishCalls[p].request /\ publishCalls'[p].bundle = b
        /\ \A q \in PublishCalls : q # p => publishCalls'[q] = publishCalls[q]
    BY <1>1, <2>1, PublishGoesIs
  <2>6. BundleKey(p)' = k
    BY <1>1, <2>5 DEF BundleKey
  <2>7. CallTimely(publishCalls[p])'
    BY <1>2, <2>5, GoesInTime
  <2>8. CallUploads(publishCalls[p], intents[BundleKey(p)])'
    <3>1. PICK d : d = publishCalls'[p]
      OBVIOUS
    <3>2. publishCalls[p].at <= hour
      BY <1>2, <1>3 DEF CallHolds, CallTimely
    <3>3. Artifacts(b) \subseteq packages
      BY <1>1, <1>2, <1>3 DEF CallHolds, CallUploads
    <3>4. CallUploads(d, i)'
      BY <1>2, <1>3, <2>4, <2>5, <3>1, <3>2, <3>3, HoursAre DEF CallUploads
    <3>5. (publishCalls[p])' = d /\ (intents[BundleKey(p)])' = i
      BY <2>4, <2>6, <3>1
    <3> QED BY <3>4, <3>5
  <2>9. (publication[BundleKey(p)])' = NoBundle
    BY <1>1, <1>2, <1>3, <2>6 DEF CallHolds
  <2>10. DependencyHolds(b)'
    BY <1>1, <1>2, <1>3 DEF CallHolds, DependencyHolds, LatestVersion
  <2>11. CallHolds(p)'
    BY <1>1, <1>2, <1>3, <2>5, <2>6, <2>7, <2>8, <2>9, <2>10 DEF CallHolds
  <2> QED BY <1>1, <1>2, <1>4, <2>4, <2>5, <2>11, CallTouches
<1>5. CASE ~Touchable(k, b)
  <2>1. PublishEnds(p) /\ intents' = intents
    BY <1>1, <1>5 DEF ClaimFinalization
  <2>2. UNCHANGED <<wishes, registryRows, maintenance, hour>>
    BY <1>2, <2>1 DEF registryRows
  <2> QED BY <2>1, <2>2, PublishEndsStep
<1> QED BY <1>4, <1>5

\* The contents of a key that has not published are published nowhere: no other request
\* publishes them, and what is published is known.
LEMMA NotPublishedYet ==
  ASSUME RowsInv, OwnContents, NEW k \in PublicationKeys, publication[k] = NoBundle,
         NEW r \in PublicationRequests, PublicationKey(r) = k, NEW b, PlannedBundle(r, b),
         NEW a \in Artifacts(b)
  PROVE  ~IsPublished(a)
<1> SUFFICES ASSUME IsPublished(a)
             PROVE  FALSE
  OBVIOUS
<1>1. a \in Artifact /\ a = [name |-> a.name, version |-> a.version, digest |-> a.digest]
  BY ArtifactIs
<1>2. a.name \in ArtifactNames /\ a.version \in 1..LatestVersion(a.name)
      /\ published[a.name][a.version] = a.digest
  BY <1>1 DEF Artifact, IsPublished
<1>3. PICK o \in PublicationKeys : publication[o] # NoBundle /\ a \in Artifacts(publication[o])
  BY <1>1, <1>2 DEF RowsInv, VersionsKnown
<1>4. PICK s \in PublicationRequests : PublicationKey(s) = o /\ PlannedBundle(s, publication[o])
  BY <1>3 DEF RowsInv, RowsPlanned, BundleOfKey
<1>5. PublicationKey(r) # PublicationKey(s)
  BY <1>3, <1>4
<1> DEFINE c == publication[o]
<1>6. \/ a.name = "recipe" /\ a.digest = b.content
      \/ b.publishes /\ a.name = "skill" /\ a.digest = b.content[3]
  BY ArtifactIs
<1>7. \/ a.name = "recipe" /\ a.digest = c.content
      \/ c.publishes /\ a.name = "skill" /\ a.digest = c.content[3]
  BY <1>3, <1>4, ArtifactIs
<1>8. \/ b.content = c.content
      \/ b.publishes /\ c.publishes /\ b.content[3] = c.content[3]
  BY <1>6, <1>7
<1>9. /\ b.content[1] = Candidate[r].recipe /\ b.content[3] = Candidate[r].skill
      /\ b.publishes => Candidate[r].decision = "publish"
  BY PlannedIs
<1>10. /\ c.content[1] = Candidate[s].recipe /\ c.content[3] = Candidate[s].skill
       /\ c.publishes => Candidate[s].decision = "publish"
  BY <1>4, PlannedIs
<1> QED BY <1>5, <1>8, <1>9, <1>10 DEF OwnContents

\* What the rows are after a reservation of what nobody has reserved or published.
LEMMA ReservedRows ==
  ASSUME RowsInv, OwnContents, NEW k \in PublicationKeys, publication[k] = NoBundle,
         NEW r \in PublicationRequests, PublicationKey(r) = k, NEW b, PlannedBundle(r, b),
         NoIntentHolds(k, b), NEW i \in Intent, i.phase # "none", i.bundle = b,
         intents' = [intents EXCEPT ![k] = i], UNCHANGED <<publication, published, packages>>
  PROVE  RowsInv'
<1>1. intents \in [PublicationKeys -> Intent]
  BY DEF RowsInv, RegistryTypes
<1>2. intents' \in [PublicationKeys -> Intent] /\ intents'[k] = i
      /\ \A o \in PublicationKeys : o # k => intents'[o] = intents[o]
  BY <1>1
<1>3. /\ intents[k].phase = "none"
      /\ \A o \in PublicationKeys : intents[o].phase # "none" =>
           \A a \in Artifacts(b), c \in Artifacts(intents[o].bundle) : ~SameVersion(a, c)
  BY NoIntentHoldsIs
<1>4. RegistryTypes'
  BY <1>2 DEF RowsInv, RegistryTypes
<1>5. RowsPlanned'
  <2>1. BundleOfKey(k, b)
    BY DEF BundleOfKey
  <2> QED BY <1>2, <2>1 DEF RowsInv, RowsPlanned
<1>6. VersionsKnown'
  BY DEF RowsInv, VersionsKnown, LatestVersion
<1>7. IntentsApart'
  <2>1. \A a, c : SameVersion(a, c) <=> SameVersion(c, a)
    BY DEF SameVersion
  <2> SUFFICES ASSUME NEW o \in PublicationKeys, NEW q \in PublicationKeys, o # q,
                      intents'[o].phase # "none", intents'[q].phase # "none",
                      NEW a \in Artifacts(intents'[o].bundle), NEW c \in Artifacts(intents'[q].bundle)
               PROVE  ~SameVersion(a, c)
    BY DEF IntentsApart
  <2>2. CASE o = k
    BY <1>2, <1>3, <2>2
  <2>3. CASE q = k
    BY <1>2, <1>3, <2>1, <2>3
  <2>4. CASE o # k /\ q # k
    BY <1>2, <2>4 DEF RowsInv, IntentsApart
  <2> QED BY <2>2, <2>3, <2>4
<1>8. IntentsUnpublished'
  <2> SUFFICES ASSUME NEW o \in PublicationKeys, intents'[o].phase # "none",
                      NEW a \in Artifacts(intents'[o].bundle)
               PROVE  ~IsPublished(a)
    BY DEF IntentsUnpublished, IsPublished, LatestVersion
  <2>1. CASE o = k
    BY <1>2, <2>1, NotPublishedYet
  <2>2. CASE o # k
    BY <1>2, <2>2 DEF RowsInv, IntentsUnpublished
  <2> QED BY <2>1, <2>2
<1>9. PackagesKept' /\ DependenciesKept' /\ PublishedOnce'
  BY DEF RowsInv, PackagesKept, DependenciesKept, PublishedOnce, LatestVersion
<1>10. PackagesAccounted'
  BY <1>2, <1>3 DEF RowsInv, PackagesAccounted, LatestVersion
<1> QED BY <1>4, <1>5, <1>6, <1>7, <1>8, <1>9, <1>10 DEF RowsInv

LEMMA ReservePublicationStep ==
  ASSUME PublicationsInv, OneCallEach, OwnContents, NEW p \in PublishCalls, ReservePublication(p)
  PROVE  PublicationsInv'
<1>1. PICK k, b, at : k = BundleKey(p) /\ b = publishCalls[p].bundle /\ at = publishCalls[p].at
  OBVIOUS
<1>2. publishCalls[p].phase = "reserving"
      /\ UNCHANGED <<wishes, authorizations, publication, published, packages, pendingIndex, vector,
                     maintenance, hour>>
  BY DEF ReservePublication, Publishing
<1>3. hour \in 0..MaxHour /\ at \in 0..MaxHour /\ CallHolds(p)
  BY <1>1, CallTypes
<1>4. PICK r \in PublicationRequests :
        r = publishCalls[p].request /\ PublicationKey(r) = k /\ PlannedBundle(r, b)
  BY <1>1, <1>2, <1>3, CallKey DEF BundleKey
<1>5. intents \in [PublicationKeys -> Intent] /\ k \in PublicationKeys
      /\ publication[k] = NoBundle /\ DependencyHolds(b)
  BY <1>1, <1>2, <1>3, CallKey DEF PublicationsInv, RowsInv, RegistryTypes, CallHolds
<1>6. CASE PublishEnds(p) /\ UNCHANGED <<intents, dailyUsage>>
  <2>1. UNCHANGED <<wishes, registryRows, maintenance, hour>>
    BY <1>2, <1>6 DEF registryRows
  <2> QED BY <1>6, <2>1, PublishEndsStep
<1>7. ASSUME NEW i \in Intent, i.phase \in {"uploading", "finalizing"}, i.bundle = b, i.touched = at,
             intents' = [intents EXCEPT ![k] = i], Store(p)
      PROVE  /\ publishCalls' \in [PublishCalls -> PublishCall]
             /\ \A q \in PublishCalls : q # p => publishCalls'[q] = publishCalls[q]
             /\ CallHolds(p)'
  <2>1. /\ publishCalls' \in [PublishCalls -> PublishCall]
        /\ publishCalls'[p].phase = "storing" /\ publishCalls'[p].since = hour
        /\ publishCalls'[p].at = at /\ publishCalls'[p].left = BundleArtifacts(b)
        /\ publishCalls'[p].request = r /\ publishCalls'[p].bundle = b
        /\ \A q \in PublishCalls : q # p => publishCalls'[q] = publishCalls[q]
    BY <1>1, <1>2, <1>4, <1>7, StoreIs
  <2>2. BundleKey(p)' = k /\ intents'[k] = i
    BY <1>4, <1>5, <1>7, <2>1 DEF BundleKey
  <2>3. CallTimely(publishCalls[p])'
    BY <1>1, <1>2, <2>1, GoesInTime
  <2>4. CallUploads(publishCalls[p], intents[BundleKey(p)])'
    <3>1. PICK d : d = publishCalls'[p]
      OBVIOUS
    <3>2. LeftOf(b, BundleArtifacts(b)) /\ Stored(b, BundleArtifacts(b)) = {}
      BY <1>4, LeftIs
    <3>3. CallUploads(d, i)'
      BY <1>3, <1>7, <2>1, <3>1, <3>2, HoursAre DEF CallUploads
    <3>4. (publishCalls[p])' = d /\ (intents[BundleKey(p)])' = i
      BY <2>2, <3>1
    <3> QED BY <3>3, <3>4
  <2>5. (publication[BundleKey(p)])' = NoBundle
    BY <1>2, <1>5, <2>2
  <2>6. DependencyHolds(b)'
    BY <1>2, <1>5 DEF DependencyHolds, LatestVersion
  <2>7. CallHolds(p)'
    BY <1>1, <1>2, <1>3, <1>4, <2>1, <2>2, <2>3, <2>4, <2>5, <2>6 DEF CallHolds
  <2> QED BY <2>1, <2>7
<1>8. CASE /\ NoIntentHolds(k, b)
           /\ intents' = [intents EXCEPT ![k] =
                [phase |-> "uploading", bundle |-> b, touched |-> at, lease |-> 0]]
           /\ Store(p)
  <2>1. PICK i : i = [phase |-> "uploading", bundle |-> b, touched |-> at, lease |-> 0]
    OBVIOUS
  <2>2. i \in Intent
    <3>1. 0 \in 0..MaxHour /\ b \in Bundle
      BY <1>4, HoursAre, PlannedIs
    <3> QED BY <1>3, <2>1, <3>1 DEF Intent, IntentPhases
  <2>3. i.phase = "uploading" /\ i.bundle = b /\ i.touched = at /\ intents' = [intents EXCEPT ![k] = i]
    BY <1>8, <2>1
  <2>4. /\ publishCalls' \in [PublishCalls -> PublishCall]
        /\ \A q \in PublishCalls : q # p => publishCalls'[q] = publishCalls[q]
        /\ CallHolds(p)'
    BY <1>7, <1>8, <2>2, <2>3
  <2>5. RowsInv'
    BY <1>2, <1>4, <1>5, <1>8, <2>2, <2>3, ReservedRows DEF PublicationsInv
  <2>6. \A o : o # k => intents'[o] = intents[o]
    BY <1>5, <2>3
  <2>7. \A c : c.skill \in Nat \ {0} /\ DependencyHolds(c) => DependencyHolds(c)'
    BY <1>2 DEF DependencyHolds, LatestVersion
  <2>8. CallsHold'
    BY <1>1, <1>2, <2>4, <2>6, <2>7, OtherCallsStay DEF PublicationsInv
  <2>9. RequestRows' /\ WishesPlanned' /\ InvocationTypes'
    BY <1>2, <2>4 DEF PublicationsInv, RequestRows, WishesPlanned, InvocationTypes
  <2>10. CleanupHolds'
    <3>1. intents[k].phase = "none"
      BY <1>8, NoIntentHoldsIs
    <3> QED BY <1>2, <2>6, <3>1, CleanupStays DEF PublicationsInv, CleanupHolds
  <2>11. IndexHolds'
    BY <1>2, IndexStays DEF PublicationsInv
  <2> QED BY <2>5, <2>8, <2>9, <2>10, <2>11 DEF PublicationsInv
<1>9. CASE /\ Touchable(k, b)
           /\ intents' = [intents EXCEPT ![k].touched = at]
           /\ Store(p) /\ UNCHANGED dailyUsage
  <2>1. PICK i : i = [intents[k] EXCEPT !.touched = at]
    OBVIOUS
  <2>2. /\ i \in Intent /\ i.phase \in {"uploading", "finalizing"} /\ i.bundle = b /\ i.touched = at
        /\ intents' = [intents EXCEPT ![k] = i]
    BY <1>3, <1>5, <1>9, <2>1 DEF Intent, Touchable
  <2>3. /\ publishCalls' \in [PublishCalls -> PublishCall]
        /\ \A q \in PublishCalls : q # p => publishCalls'[q] = publishCalls[q]
        /\ CallHolds(p)'
    BY <1>7, <1>9, <2>2
  <2>4. publishCalls[p].phase # "idle"
    BY <1>2
  <2> QED BY <1>1, <1>2, <1>9, <2>2, <2>3, <2>4, CallTouches
<1> QED BY <1>1, <1>6, <1>8, <1>9 DEF ReservePublication

LEMMA StoreObjectStep ==
  ASSUME PublicationsInv, OneCallEach, NEW p \in PublishCalls, StoreObject(p)
  PROVE  PublicationsInv'
<1>1. PICK k, b, left : k = BundleKey(p) /\ b = publishCalls[p].bundle /\ left = publishCalls[p].left
  OBVIOUS
<1>2. /\ publishCalls[p].phase = "storing" /\ packages' = packages \cup {Head(left)}
      /\ UNCHANGED <<wishes, authorizations, publication, intents, published, dailyUsage,
                     pendingIndex, vector, maintenance, hour>>
  BY <1>1 DEF StoreObject, Publishing
<1>3. hour \in 0..MaxHour /\ CallHolds(p)
  BY CallTypes
<1>4. PICK r \in PublicationRequests : r = publishCalls[p].request /\ PlannedBundle(r, b)
  BY <1>1, <1>2, <1>3, CallKey DEF BundleKey
<1>5. PICK i : i = intents[k]
  OBVIOUS
<1>6. k \in PublicationKeys /\ CallUploads(publishCalls[p], i)
      /\ publication[k] = NoBundle /\ DependencyHolds(b)
  BY <1>1, <1>2, <1>3, <1>5, CallKey DEF CallHolds
<1>7. /\ i.bundle = b /\ i.phase \in {"uploading", "finalizing", "quarantine"}
      /\ LeftOf(b, left) /\ Stored(b, left) \subseteq packages
  BY <1>1, <1>2, <1>6 DEF CallUploads
<1>8. PICK rest, object : rest = Tail(left) /\ object = Head(left)
  OBVIOUS
<1>9. /\ object \in Artifacts(b) /\ object \in Artifact /\ rest \in Seq(Artifact)
      /\ IF rest = <<>> THEN Artifacts(b) \subseteq packages'
         ELSE LeftOf(b, rest) /\ Stored(b, rest) \subseteq packages'
  <2>1. object \in Artifacts(b) /\ rest \in Seq(Artifact)
    BY <1>4, <1>7, <1>8, LeftIs
  <2>2. object \in Artifact
    BY <1>4, <2>1, ArtifactIs
  <2>3. IF rest = <<>> THEN Artifacts(b) \subseteq Stored(b, left) \cup {object}
        ELSE LeftOf(b, rest) /\ Stored(b, rest) \subseteq Stored(b, left) \cup {object}
    BY <1>4, <1>7, <1>8, LeftIs
  <2>4. packages' = packages \cup {object}
    BY <1>2, <1>8
  <2> QED BY <1>7, <2>1, <2>2, <2>3, <2>4
<1>10. PICK phase \in PublishPhases :
         /\ phase = IF rest = <<>> THEN "claiming" ELSE "storing"
         /\ publishCalls' = [publishCalls EXCEPT ![p].left = rest, ![p].since = hour, ![p].phase = phase]
  BY <1>1, <1>8 DEF StoreObject, PublishPhases
<1>11. /\ publishCalls' \in [PublishCalls -> PublishCall]
       /\ publishCalls'[p].phase = phase /\ publishCalls'[p].since = hour
       /\ publishCalls'[p].at = publishCalls[p].at /\ publishCalls'[p].left = rest
       /\ publishCalls'[p].request = r /\ publishCalls'[p].bundle = b
       /\ \A q \in PublishCalls : q # p => publishCalls'[q] = publishCalls[q]
  <2>1. publishCalls \in [PublishCalls -> PublishCall]
    BY CallTypes
  <2>2. PICK c : c = [publishCalls[p] EXCEPT !.left = rest, !.since = hour, !.phase = phase]
    OBVIOUS
  <2>3. /\ c \in PublishCall /\ c.phase = phase /\ c.since = hour /\ c.at = publishCalls[p].at
        /\ c.left = rest /\ c.request = r /\ c.bundle = b
    BY <1>1, <1>3, <1>4, <1>9, <2>1, <2>2 DEF PublishCall
  <2>4. publishCalls' = [publishCalls EXCEPT ![p] = c]
    BY <1>10, <2>1, <2>2
  <2> QED BY <2>1, <2>3, <2>4
<1>12. BundleKey(p)' = k
  BY <1>1, <1>4, <1>11 DEF BundleKey
<1>13. CallHolds(p)'
  <2>1. CallTimely(publishCalls[p])'
    BY <1>2, <1>11, GoesInTime
  <2>2. CallUploads(publishCalls[p], intents[BundleKey(p)])'
    <3>1. PICK c, d : c = publishCalls[p] /\ d = publishCalls'[p]
      OBVIOUS
    <3>2. CallUploads(d, i)'
      BY <1>1, <1>2, <1>6, <1>9, <1>10, <1>11, <3>1 DEF CallUploads
    <3>3. (publishCalls[p])' = d /\ (intents[BundleKey(p)])' = i
      BY <1>2, <1>5, <1>12, <3>1
    <3> QED BY <3>2, <3>3
  <2>3. (publication[BundleKey(p)])' = NoBundle
    BY <1>2, <1>6, <1>12
  <2>4. DependencyHolds(b)'
    BY <1>2, <1>6 DEF DependencyHolds, LatestVersion
  <2> QED BY <1>1, <1>2, <1>3, <1>4, <1>11, <2>1, <2>2, <2>3, <2>4 DEF CallHolds
<1>14. CallsHold'
  <2>1. \A c : c.skill \in Nat \ {0} /\ DependencyHolds(c) => DependencyHolds(c)'
    BY <1>2 DEF DependencyHolds, LatestVersion
  <2> QED BY <1>2, <1>11, <1>13, <2>1, OtherCallsStay DEF PublicationsInv
<1>15. RequestRows' /\ WishesPlanned' /\ InvocationTypes'
  BY <1>2, <1>11 DEF PublicationsInv, RequestRows, WishesPlanned, InvocationTypes
<1>16. IndexHolds'
  BY <1>2, IndexStays DEF PublicationsInv
<1>17. RowsInv'
  <2>1. RegistryTypes'
    BY <1>2, <1>8, <1>9 DEF PublicationsInv, RowsInv, RegistryTypes
  <2>2. RowsPlanned' /\ VersionsKnown' /\ IntentsApart' /\ IntentsUnpublished'
    BY <1>2 DEF PublicationsInv, RowsInv, RowsPlanned, VersionsKnown, IntentsApart, IntentsUnpublished,
       LatestVersion, IsPublished
  <2>3. PackagesKept' /\ DependenciesKept' /\ PublishedOnce'
    BY <1>2 DEF PublicationsInv, RowsInv, PackagesKept, DependenciesKept, PublishedOnce, LatestVersion
  <2>4. PackagesAccounted'
    <3>1. object \in ToSet(BundleArtifacts(intents[k].bundle)) /\ intents[k].phase # "none"
      BY <1>5, <1>7, <1>9, ArtifactsAre
    <3> QED BY <1>2, <1>6, <1>8, <3>1 DEF PublicationsInv, RowsInv, PackagesAccounted, LatestVersion
  <2> QED BY <2>1, <2>2, <2>3, <2>4 DEF RowsInv
<1>18. CleanupHolds'
  <2> SUFFICES ASSUME maintenance.phase = "deleting"
               PROVE  /\ intents'[maintenance.key] = intents[maintenance.key]
                      /\ Artifacts(intents[maintenance.key].bundle) \cap packages' \subseteq packages
    BY <1>2, CleanupStays DEF PublicationsInv
  <2>1. PICK o \in PublicationKeys : o = maintenance.key /\ intents[o].phase = "cleanup"
    BY DEF PublicationsInv, CleanupHolds
  <2>2. o # k /\ intents[k].phase # "none"
    BY <1>5, <1>7, <2>1
  <2>3. \A a \in Artifacts(intents[o].bundle) : ~SameVersion(object, a)
    BY <1>5, <1>6, <1>7, <1>9, <2>1, <2>2 DEF PublicationsInv, RowsInv, IntentsApart
  <2>4. object \notin Artifacts(intents[o].bundle)
    BY <2>3 DEF SameVersion
  <2> QED BY <1>2, <1>8, <2>1, <2>4
<1> QED BY <1>14, <1>15, <1>16, <1>17, <1>18 DEF PublicationsInv

-----------------------------------------------------------------------------
(* The publication of a Recipe: the commit *)

\* The versions of every name stay where they are, and what is added is of a bundle.
PublishedStay ==
  \A n \in ArtifactNames : \A v \in 1..LatestVersion(n) :
    v \in 1..LatestVersion(n)' /\ published'[n][v] = published[n][v]
PublishedAdded(b) ==
  \A n \in ArtifactNames : \A v \in 1..LatestVersion(n)' :
    \/ v \in 1..LatestVersion(n)
    \/ [name |-> n, version |-> v, digest |-> published'[n][v]] \in Artifacts(b)

\* What a commit adds: the artifacts of its bundle, each as the latest version of its name.
CommitAdds(b) ==
  /\ published' \in [ArtifactNames -> Seq(Digests)]
  /\ PublishedStay /\ PublishedAdded(b)
  /\ \A n \in ArtifactNames : LatestVersion(n) \in Nat /\ LatestVersion(n)' \in Nat
  /\ LatestVersion("recipe")' = LatestVersion("recipe") + 1
  /\ b.recipe = LatestVersion("recipe") + 1 /\ published'["recipe"][b.recipe] = b.content
  /\ b.publishes => b.skill = LatestVersion("skill")' /\ published'["skill"][b.skill] = b.content[3]

LEMMA CommitIs ==
  ASSUME RegistryTypes, NEW k, NEW r \in PublicationRequests, NEW b, PlannedBundle(r, b),
         Committable(k, b),
         published' = [published EXCEPT
           !["recipe"] = Append(@, b.content),
           !["skill"] = IF b.publishes THEN Append(@, b.content[3]) ELSE @]
  PROVE  CommitAdds(b)
<1>1. b.content \in Digests /\ b.content[3] \in Digests
  BY PlannedIs DEF Digests
<1>2. \A a \in Artifacts(b) : a.version = LatestVersion(a.name) + 1
  BY NextVersionsAre DEF Committable
<1>3. RecipeArtifact(b) \in Artifacts(b) /\ (b.publishes => SkillArtifact(b) \in Artifacts(b))
  BY DEF Artifacts
<1>4. b.recipe = LatestVersion("recipe") + 1 /\ (b.publishes => b.skill = LatestVersion("skill") + 1)
  BY <1>2, <1>3 DEF RecipeArtifact, SkillArtifact
<1>5. published \in [ArtifactNames -> Seq(Digests)]
  BY DEF RegistryTypes
<1>6. PICK oldRecipes, oldSkills : oldRecipes = published["recipe"] /\ oldSkills = published["skill"]
  OBVIOUS
<1>7. oldRecipes \in Seq(Digests) /\ oldSkills \in Seq(Digests)
  BY <1>5, <1>6 DEF ArtifactNames
<1>8. PICK newRecipes, newSkills :
        /\ newRecipes = Append(oldRecipes, b.content)
        /\ newSkills = IF b.publishes THEN Append(oldSkills, b.content[3]) ELSE oldSkills
  OBVIOUS
<1>9. /\ newRecipes \in Seq(Digests) /\ Len(newRecipes) = Len(oldRecipes) + 1
      /\ \A v \in 1..Len(oldRecipes) : newRecipes[v] = oldRecipes[v]
      /\ newRecipes[Len(oldRecipes) + 1] = b.content
  BY <1>1, <1>7, <1>8
<1>10. /\ newSkills \in Seq(Digests)
       /\ \A v \in 1..Len(oldSkills) : newSkills[v] = oldSkills[v]
       /\ IF b.publishes THEN Len(newSkills) = Len(oldSkills) + 1 /\ newSkills[Len(oldSkills) + 1] = b.content[3]
          ELSE Len(newSkills) = Len(oldSkills)
  BY <1>1, <1>7, <1>8
<1>11. published' = [published EXCEPT !["recipe"] = newRecipes, !["skill"] = newSkills]
  BY <1>6, <1>8
<1>12. /\ published' \in [ArtifactNames -> Seq(Digests)]
       /\ published'["recipe"] = newRecipes /\ published'["skill"] = newSkills
  <2>1. "recipe" \in ArtifactNames /\ "skill" \in ArtifactNames
    BY DEF ArtifactNames
  <2>2. newRecipes \in Seq(Digests) /\ newSkills \in Seq(Digests)
    BY <1>9, <1>10
  <2> QED BY <1>5, <1>11, <2>1, <2>2
<1>13. /\ LatestVersion("recipe") = Len(oldRecipes) /\ LatestVersion("recipe")' = Len(newRecipes)
       /\ LatestVersion("skill") = Len(oldSkills) /\ LatestVersion("skill")' = Len(newSkills)
  BY <1>6, <1>12 DEF LatestVersion
<1>14. Len(oldRecipes) \in Nat /\ Len(oldSkills) \in Nat
  BY <1>7
<1>15. [name |-> "recipe", version |-> b.recipe, digest |-> newRecipes[b.recipe]] = RecipeArtifact(b)
  BY <1>4, <1>9, <1>13 DEF RecipeArtifact
<1>16. b.publishes =>
         [name |-> "skill", version |-> b.skill, digest |-> newSkills[b.skill]] = SkillArtifact(b)
  BY <1>4, <1>10, <1>13 DEF SkillArtifact
<1>17. \A n \in ArtifactNames : n = "recipe" \/ n = "skill"
  BY DEF ArtifactNames
<1>18. ASSUME NEW n \in ArtifactNames
       PROVE  LatestVersion(n)' = IF n = "recipe" THEN Len(newRecipes) ELSE Len(newSkills)
  BY <1>12, <1>17 DEF LatestVersion
<1>19. ASSUME NEW n \in ArtifactNames
       PROVE  LatestVersion(n) = IF n = "recipe" THEN Len(oldRecipes) ELSE Len(oldSkills)
  BY <1>6, <1>17 DEF LatestVersion
<1>20. PublishedStay
  <2> SUFFICES ASSUME NEW n \in ArtifactNames, NEW v \in 1..LatestVersion(n)
               PROVE  v \in 1..LatestVersion(n)' /\ published'[n][v] = published[n][v]
    BY DEF PublishedStay
  <2>1. PICK m, m1 : m = LatestVersion(n) /\ m1 = LatestVersion(n)'
    OBVIOUS
  <2>2. CASE n = "recipe"
    <3>1. m = Len(oldRecipes) /\ m1 = Len(newRecipes)
      BY <1>18, <1>19, <2>1, <2>2
    <3> QED BY <1>6, <1>9, <1>12, <1>14, <2>1, <2>2, <3>1
  <2>3. CASE n = "skill"
    <3>1. m = Len(oldSkills) /\ m1 = Len(newSkills)
      BY <1>18, <1>19, <2>1, <2>3
    <3> QED BY <1>6, <1>10, <1>12, <1>14, <2>1, <2>3, <3>1
  <2> QED BY <1>17, <2>2, <2>3
<1>21. PublishedAdded(b)
  <2> SUFFICES ASSUME NEW n \in ArtifactNames, NEW v \in 1..LatestVersion(n)',
                      v \notin 1..LatestVersion(n)
               PROVE  [name |-> n, version |-> v, digest |-> published'[n][v]] \in Artifacts(b)
    BY DEF PublishedAdded
  <2>1. PICK m, m1 : m = LatestVersion(n) /\ m1 = LatestVersion(n)'
    OBVIOUS
  <2>2. CASE n = "recipe"
    <3>1. m = Len(oldRecipes) /\ m1 = Len(newRecipes)
      BY <1>18, <1>19, <2>1, <2>2
    <3>2. v = b.recipe
      BY <1>4, <1>9, <1>13, <1>14, <2>1, <3>1
    <3> QED BY <1>3, <1>12, <1>15, <2>2, <3>2
  <2>3. CASE n = "skill"
    <3>1. m = Len(oldSkills) /\ m1 = Len(newSkills)
      BY <1>18, <1>19, <2>1, <2>3
    <3>2. b.publishes /\ v = b.skill
      BY <1>4, <1>10, <1>13, <1>14, <2>1, <3>1
    <3> QED BY <1>3, <1>12, <1>16, <2>3, <3>2
  <2> QED BY <1>17, <2>2, <2>3
<1>22. \A n \in ArtifactNames : LatestVersion(n) \in Nat /\ LatestVersion(n)' \in Nat
  BY <1>9, <1>10, <1>14, <1>18, <1>19
<1>23. /\ LatestVersion("recipe")' = LatestVersion("recipe") + 1
       /\ published'["recipe"][b.recipe] = b.content
  BY <1>4, <1>9, <1>12, <1>13
<1>24. b.publishes => b.skill = LatestVersion("skill")' /\ published'["skill"][b.skill] = b.content[3]
  BY <1>4, <1>10, <1>12, <1>13
<1> QED BY <1>4, <1>12, <1>20, <1>21, <1>22, <1>23, <1>24 DEF CommitAdds

LEMMA CommittedRows ==
  ASSUME RowsInv, NEW k \in PublicationKeys,
         NEW r \in PublicationRequests, PublicationKey(r) = k, NEW b, PlannedBundle(r, b),
         Committable(k, b), DependencyHolds(b), Artifacts(b) \subseteq packages,
         intents[k].bundle = b, intents[k].phase = "finalizing",
         published' = [published EXCEPT
           !["recipe"] = Append(@, b.content),
           !["skill"] = IF b.publishes THEN Append(@, b.content[3]) ELSE @],
         publication' = [publication EXCEPT ![k] = b],
         intents' = [intents EXCEPT ![k] = NoIntent], packages' = packages
  PROVE  RowsInv' /\ \A c : c.skill \in Nat \ {0} /\ DependencyHolds(c) => DependencyHolds(c)'
<1>1. RegistryTypes /\ publication[k] = NoBundle
  BY DEF RowsInv, Committable
<1>2. CommitAdds(b)
  BY <1>1, CommitIs
<1>3. b \in Bundle /\ b # NoBundle /\ b.skill \in Nat \ {0}
  BY PlannedIs
<1>4. /\ publication' \in [PublicationKeys -> Bundle] /\ publication'[k] = b
      /\ \A o \in PublicationKeys : o # k => publication'[o] = publication[o]
  BY <1>1, <1>3 DEF RegistryTypes
<1>5. /\ intents' \in [PublicationKeys -> Intent] /\ intents'[k].phase = "none"
      /\ \A o \in PublicationKeys : o # k => intents'[o] = intents[o]
  <2>1. NoIntent.phase = "none"
    BY DEF NoIntent
  <2> QED BY <1>1, <2>1, NothingYet DEF RegistryTypes
<1>6. ArtifactNames = {"skill", "recipe"}
  BY DEF ArtifactNames
<1>7. ASSUME NEW a, a.name \in ArtifactNames, IsPublished(a)'
      PROVE  IsPublished(a) \/ [name |-> a.name, version |-> a.version, digest |-> a.digest] \in Artifacts(b)
  BY <1>2, <1>7 DEF IsPublished, PublishedAdded, PublishedStay, CommitAdds
<1>8. \A a \in Artifacts(b) : IsPublished(a)'
  <2>1. ASSUME NEW a \in Artifacts(b)
        PROVE  IsPublished(a)'
    <3>1. \/ a.name = "recipe" /\ a.version = b.recipe /\ a.digest = b.content
          \/ b.publishes /\ a.name = "skill" /\ a.version = b.skill /\ a.digest = b.content[3]
      BY ArtifactIs
    <3>2. LatestVersion("recipe") \in Nat /\ LatestVersion("skill")' \in Nat
      BY <1>2, <1>6 DEF CommitAdds
    <3>3. CASE a.name = "recipe" /\ a.version = b.recipe /\ a.digest = b.content
      <4>1. a.version \in 1..LatestVersion("recipe")'
        BY <1>2, <3>2, <3>3 DEF CommitAdds
      <4> QED BY <1>2, <3>3, <4>1 DEF IsPublished, CommitAdds
    <3>4. CASE b.publishes /\ a.name = "skill" /\ a.version = b.skill /\ a.digest = b.content[3]
      <4>1. PICK m1 : m1 = LatestVersion("skill")'
        OBVIOUS
      <4>2. a.version = m1 /\ published'["skill"][a.version] = a.digest
        BY <1>2, <3>4, <4>1 DEF CommitAdds
      <4>3. a.version \in 1..m1
        BY <1>3, <3>4, <4>2
      <4> QED BY <3>4, <4>1, <4>2, <4>3 DEF IsPublished
    <3> QED BY <3>1, <3>3, <3>4
  <2> QED BY <2>1
<1>9. RegistryTypes'
  BY <1>1, <1>2, <1>4, <1>5 DEF RegistryTypes, CommitAdds
<1>10. RowsPlanned'
  <2>1. BundleOfKey(k, b)
    BY DEF BundleOfKey
  <2> QED BY <1>4, <1>5, <2>1 DEF RowsInv, RowsPlanned
<1>11. VersionsKnown'
  <2> SUFFICES ASSUME NEW n \in ArtifactNames, NEW v \in 1..LatestVersion(n)'
               PROVE  \E o \in PublicationKeys :
                        /\ publication'[o] # NoBundle
                        /\ [name |-> n, version |-> v, digest |-> published'[n][v]] \in Artifacts(publication'[o])
    BY DEF VersionsKnown
  <2>1. CASE [name |-> n, version |-> v, digest |-> published'[n][v]] \in Artifacts(b)
    BY <1>3, <1>4, <2>1
  <2>2. CASE v \in 1..LatestVersion(n)
    <3>1. v \in 1..LatestVersion(n) /\ published'[n][v] = published[n][v]
      BY <1>2, <2>2 DEF PublishedStay, CommitAdds
    <3>2. PICK o \in PublicationKeys :
            /\ publication[o] # NoBundle
            /\ [name |-> n, version |-> v, digest |-> published[n][v]] \in Artifacts(publication[o])
      BY <3>1 DEF RowsInv, VersionsKnown
    <3>3. o # k
      BY <1>1, <3>2
    <3> QED BY <1>4, <3>1, <3>2, <3>3
  <2> QED BY <1>2, <2>1, <2>2 DEF PublishedAdded, CommitAdds
<1>12. IntentsApart'
  BY <1>5 DEF RowsInv, IntentsApart
<1>13. IntentsUnpublished'
  <2> SUFFICES ASSUME NEW o \in PublicationKeys, intents'[o].phase # "none",
                      NEW a \in Artifacts(intents'[o].bundle), IsPublished(a)'
               PROVE  FALSE
    BY DEF IntentsUnpublished
  <2>1. o # k /\ intents'[o] = intents[o]
    BY <1>5
  <2>2. PICK s \in PublicationRequests : PlannedBundle(s, intents[o].bundle)
    BY <2>1 DEF RowsInv, RowsPlanned, BundleOfKey
  <2>3. a \in Artifact /\ a = [name |-> a.name, version |-> a.version, digest |-> a.digest]
    BY <2>1, <2>2, ArtifactIs
  <2>4. ~IsPublished(a)
    BY <2>1 DEF RowsInv, IntentsUnpublished
  <2>5. a \in Artifacts(b)
    BY <1>7, <2>3, <2>4 DEF Artifact
  <2> QED BY <2>1, <2>5 DEF RowsInv, IntentsApart, SameVersion
<1>14. PackagesKept'
  <2> SUFFICES ASSUME NEW n \in ArtifactNames, NEW v \in 1..LatestVersion(n)'
               PROVE  [name |-> n, version |-> v, digest |-> published'[n][v]] \in packages
    BY DEF PackagesKept
  <2>1. CASE [name |-> n, version |-> v, digest |-> published'[n][v]] \in Artifacts(b)
    BY <2>1
  <2>2. CASE v \in 1..LatestVersion(n)
    <3>1. v \in 1..LatestVersion(n) /\ published'[n][v] = published[n][v]
      BY <1>2, <2>2 DEF PublishedStay, CommitAdds
    <3> QED BY <3>1 DEF RowsInv, PackagesKept
  <2> QED BY <1>2, <2>1, <2>2 DEF PublishedAdded, CommitAdds
<1>15. \A v \in 1..LatestVersion("skill") :
         v <= LatestVersion("skill")' /\ published'["skill"][v] = published["skill"][v]
  <2>1. PICK m1 \in Nat : m1 = LatestVersion("skill")'
    BY <1>2, <1>6 DEF CommitAdds
  <2>2. \A v \in 1..LatestVersion("skill") :
          v \in 1..m1 /\ published'["skill"][v] = published["skill"][v]
    BY <1>2, <1>6, <2>1 DEF PublishedStay, CommitAdds
  <2>3. \A v \in 1..m1 : v <= m1
    OBVIOUS
  <2> QED BY <2>1, <2>2, <2>3
<1>16. ASSUME NEW c, c.skill \in Nat \ {0}
       PROVE  DependencyHolds(c) => DependencyHolds(c)'
  <2>1. ASSUME c.skill <= LatestVersion("skill"), published["skill"][c.skill] = c.content[3]
        PROVE  c.skill <= LatestVersion("skill")' /\ published'["skill"][c.skill] = c.content[3]
    <3>1. LatestVersion("skill") \in Nat
      BY <1>2, <1>6 DEF CommitAdds
    <3>2. c.skill \in 1..LatestVersion("skill")
      BY <1>16, <2>1, <3>1
    <3> QED BY <1>15, <2>1, <3>2
  <2> QED BY <2>1 DEF DependencyHolds
<1>17. DependenciesKept'
  <2> SUFFICES ASSUME NEW v \in 1..LatestVersion("recipe")'
               PROVE  LET content == published'["recipe"][v] IN
                      content[2] <= LatestVersion("skill")' /\ published'["skill"][content[2]] = content[3]
    BY DEF DependenciesKept
  <2>1. CASE v = b.recipe
    <3>1. published'["recipe"][v] = b.content /\ b.content[2] = b.skill
      BY <1>2, <2>1, PlannedIs DEF CommitAdds
    <3>2. CASE b.publishes
      <4>1. LatestVersion("skill")' \in Nat
        BY <1>2, <1>6 DEF CommitAdds
      <4>2. b.skill = LatestVersion("skill")' /\ published'["skill"][b.skill] = b.content[3]
        BY <1>2, <3>2 DEF CommitAdds
      <4>3. b.skill <= LatestVersion("skill")'
        BY <4>1, <4>2
      <4> QED BY <3>1, <4>2, <4>3
    <3>3. CASE ~b.publishes
      BY <1>3, <1>16, <3>1, <3>3 DEF DependencyHolds
    <3> QED BY <3>2, <3>3
  <2>2. CASE v # b.recipe
    <3>1. LatestVersion("recipe") \in Nat
      BY <1>2, <1>6 DEF CommitAdds
    <3>2. v \in 1..LatestVersion("recipe")
      BY <1>2, <2>2, <3>1 DEF CommitAdds
    <3>3. PICK content : content = published["recipe"][v] /\ content = published'["recipe"][v]
      BY <1>2, <1>6, <3>2 DEF PublishedStay, CommitAdds
    <3>4. content[2] <= LatestVersion("skill") /\ published["skill"][content[2]] = content[3]
      BY <3>2, <3>3 DEF RowsInv, DependenciesKept
    <3>5. content[2] \in Nat \ {0}
      <4>1. PICK o \in PublicationKeys :
              /\ publication[o] # NoBundle
              /\ [name |-> "recipe", version |-> v, digest |-> content] \in Artifacts(publication[o])
        BY <1>6, <3>2, <3>3 DEF RowsInv, VersionsKnown
      <4>2. PICK s \in PublicationRequests : PlannedBundle(s, publication[o])
        BY <4>1 DEF RowsInv, RowsPlanned, BundleOfKey
      <4>3. content = publication[o].content
        BY <4>1, <4>2, ArtifactIs
      <4> QED BY <4>2, <4>3, PlannedIs
    <3>6. LatestVersion("skill") \in Nat /\ content[2] \in 1..LatestVersion("skill")
      BY <1>2, <1>6, <3>4, <3>5 DEF CommitAdds
    <3> QED BY <1>15, <3>3, <3>4, <3>6
  <2> QED BY <2>1, <2>2
<1>18. PackagesAccounted'
  <2> SUFFICES ASSUME NEW a \in packages
               PROVE  \/ a.version <= LatestVersion(a.name)' /\ published'[a.name][a.version] = a.digest
                      \/ \E o \in PublicationKeys :
                           intents'[o].phase # "none" /\ a \in ToSet(BundleArtifacts(intents'[o].bundle))
    BY DEF PackagesAccounted
  <2>1. a \in Artifact
    BY <1>1 DEF RegistryTypes
  <2>2. a.name \in ArtifactNames /\ a.version \in Nat \ {0}
    BY <2>1 DEF Artifact
  <2>3. CASE a.version <= LatestVersion(a.name) /\ published[a.name][a.version] = a.digest
    <3>1. LatestVersion(a.name) \in Nat /\ LatestVersion(a.name)' \in Nat
      BY <1>2, <2>2 DEF CommitAdds
    <3>2. a.version \in 1..LatestVersion(a.name)
      BY <2>2, <2>3, <3>1
    <3>3. a.version \in 1..LatestVersion(a.name)' /\ published'[a.name][a.version] = a.digest
      BY <1>2, <2>2, <2>3, <3>2 DEF PublishedStay, CommitAdds
    <3>4. PICK m1 : m1 = LatestVersion(a.name)'
      OBVIOUS
    <3>5. a.version <= m1
      BY <3>1, <3>3, <3>4
    <3> QED BY <3>3, <3>4, <3>5
  <2>4. ASSUME NEW o \in PublicationKeys, intents[o].phase # "none",
               a \in ToSet(BundleArtifacts(intents[o].bundle))
        PROVE  \/ a.version <= LatestVersion(a.name)' /\ published'[a.name][a.version] = a.digest
               \/ a \in ToSet(BundleArtifacts(intents'[o].bundle)) /\ intents'[o].phase # "none"
    <3>1. CASE o = k
      <4>1. a \in Artifacts(b)
        BY <2>4, <3>1, ArtifactsAre
      <4>2. IsPublished(a)'
        BY <1>8, <4>1
      <4>3. LatestVersion(a.name)' \in Nat
        BY <1>2, <2>2 DEF CommitAdds
      <4>4. PICK m1 : m1 = LatestVersion(a.name)'
        OBVIOUS
      <4>5. a.version \in 1..m1 /\ published'[a.name][a.version] = a.digest
        BY <4>2, <4>4 DEF IsPublished
      <4>6. a.version <= m1
        BY <4>3, <4>4, <4>5
      <4> QED BY <4>4, <4>5, <4>6
    <3>2. CASE o # k
      BY <1>5, <2>4, <3>2
    <3> QED BY <3>1, <3>2
  <2> QED BY <2>3, <2>4 DEF RowsInv, PackagesAccounted
<1>19. PublishedOnce'
  <2>1. PICK S : S = {o \in PublicationKeys : publication[o] # NoBundle}
    OBVIOUS
  <2>2. IsFiniteSet(S) /\ k \notin S
    BY <1>1, <2>1, KeysAre, FS_Subset
  <2>3. {o \in PublicationKeys : publication'[o] # NoBundle} = S \cup {k}
    BY <1>3, <1>4, <2>1
  <2>4. Cardinality(S \cup {k}) = Cardinality(S) + 1
    BY <2>2, FS_AddElement
  <2> QED BY <1>2, <2>1, <2>3, <2>4 DEF RowsInv, PublishedOnce, CommitAdds
<1> QED BY <1>9, <1>10, <1>11, <1>12, <1>13, <1>14, <1>16, <1>17, <1>18, <1>19 DEF RowsInv

LEMMA CommitPublicationStep ==
  ASSUME PublicationsInv, OneCallEach, NEW p \in PublishCalls, CommitPublication(p)
  PROVE  PublicationsInv'
<1>1. PICK k, b : k = BundleKey(p) /\ b = publishCalls[p].bundle
  OBVIOUS
<1>2. /\ publishCalls[p].phase = "committing" /\ PublishEnds(p)
      /\ UNCHANGED <<wishes, authorizations, packages, dailyUsage, vector, maintenance, hour>>
  BY DEF CommitPublication, Publishing
<1>3. CallHolds(p)
  BY CallTypes
<1>4. PICK r \in PublicationRequests :
        r = publishCalls[p].request /\ PublicationKey(r) = k /\ PlannedBundle(r, b)
  BY <1>1, <1>2, <1>3, CallKey DEF BundleKey
<1>5. k \in PublicationKeys /\ CallUploads(publishCalls[p], intents[k]) /\ DependencyHolds(b)
  BY <1>1, <1>2, <1>3, CallKey DEF CallHolds
<1>6. intents[k].bundle = b /\ intents[k].phase = "finalizing" /\ Artifacts(b) \subseteq packages
  BY <1>1, <1>2, <1>5 DEF CallUploads
<1>7. CASE ~Committable(k, b)
  <2>1. UNCHANGED <<wishes, registryRows, maintenance, hour>>
    BY <1>1, <1>2, <1>7 DEF CommitPublication, registryRows
  <2> QED BY <1>2, <2>1, PublishEndsStep
<1>8. CASE Committable(k, b)
  <2>1. /\ published' = [published EXCEPT
             !["recipe"] = Append(@, b.content),
             !["skill"] = IF b.publishes THEN Append(@, b.content[3]) ELSE @]
        /\ pendingIndex' = pendingIndex \cup {b.recipe}
        /\ publication' = [publication EXCEPT ![k] = b]
        /\ intents' = [intents EXCEPT ![k] = IF @.phase = "finalizing" THEN NoIntent ELSE @]
    BY <1>1, <1>8 DEF CommitPublication
  <2>2. intents' = [intents EXCEPT ![k] = NoIntent]
    BY <1>6, <2>1
  <2>3. RowsInv /\ RegistryTypes
    BY DEF PublicationsInv, RowsInv
  <2>4. RowsInv' /\ \A c : c.skill \in Nat \ {0} /\ DependencyHolds(c) => DependencyHolds(c)'
    BY <1>2, <1>4, <1>5, <1>6, <1>8, <2>1, <2>2, <2>3, CommittedRows
  <2>5. CommitAdds(b)
    BY <1>4, <1>8, <2>1, <2>3, CommitIs
  <2>6. /\ publishCalls' \in [PublishCalls -> PublishCall] /\ CallHolds(p)'
        /\ \A q \in PublishCalls : q # p => publishCalls'[q] = publishCalls[q]
    BY <1>2, CallEnds, CallTypes, IdleCallHolds
  <2>7. \A o : o # k => intents'[o] = intents[o] /\ publication'[o] = publication[o]
    BY <2>1, <2>2, <2>3 DEF RegistryTypes
  <2>8. CallsHold'
    BY <1>1, <1>2, <2>4, <2>6, <2>7, OtherCallsStay DEF PublicationsInv
  <2>9. RequestRows' /\ WishesPlanned' /\ InvocationTypes'
    BY <1>2, <2>6 DEF PublicationsInv, RequestRows, WishesPlanned, InvocationTypes
  <2>10. CleanupHolds'
    BY <1>2, <1>6, <2>7, CleanupStays DEF PublicationsInv, CleanupHolds
  <2>11. IndexHolds'
    <3>1. PICK m, m1 : m = LatestVersion("recipe") /\ m1 = LatestVersion("recipe")'
      OBVIOUS
    <3>2. m \in Nat /\ m1 = m + 1 /\ b.recipe = m1
      BY <2>5, <3>1 DEF CommitAdds, ArtifactNames
    <3>3. /\ pendingIndex \subseteq 1..m
          /\ \A v \in pendingIndex : v..m \subseteq pendingIndex
          /\ vector \in 0..m
          /\ \A v \in (1..m) \ pendingIndex : v <= vector
      BY <3>1 DEF PublicationsInv, IndexHolds
    <3>4. pendingIndex' = pendingIndex \cup {m1} /\ vector' = vector
      BY <1>2, <2>1, <3>2
    <3>5. pendingIndex' \subseteq 1..m1 /\ vector' \in 0..m1
      BY <3>2, <3>3, <3>4
    <3>6. \A v \in pendingIndex' : v..m1 \subseteq pendingIndex'
      BY <3>2, <3>3, <3>4
    <3>7. \A v \in (1..m1) \ pendingIndex' : v <= vector'
      BY <3>2, <3>3, <3>4
    <3>8. ASSUME maintenance.phase \in {"embedding", "marking"}
          PROVE  \E first \in pendingIndex', last \in 1..m1 :
                   /\ maintenance.left = first..last /\ first <= last
                   /\ \A v \in pendingIndex' : v >= first
                   /\ maintenance.phase = "marking" => vector' = last
      <4>1. PICK first \in pendingIndex, last \in 1..m :
              /\ maintenance.left = first..last /\ first <= last
              /\ \A v \in pendingIndex : v >= first
              /\ maintenance.phase = "marking" => vector = last
        BY <3>1, <3>8 DEF PublicationsInv, IndexHolds
      <4>2. first \in pendingIndex' /\ last \in 1..m1 /\ m1 >= first
        BY <3>2, <3>3, <3>4, <4>1
      <4>3. \A v \in pendingIndex' : v >= first
        BY <3>4, <4>1, <4>2
      <4> QED BY <3>4, <4>1, <4>2, <4>3
    <3> QED BY <1>2, <3>1, <3>5, <3>6, <3>7, <3>8 DEF IndexHolds
  <2> QED BY <2>4, <2>8, <2>9, <2>10, <2>11 DEF PublicationsInv
<1> QED BY <1>7, <1>8

LEMMA PublishDiesStep ==
  ASSUME PublicationsInv, NEW p \in PublishCalls, PublishDies(p)
  PROVE  PublicationsInv'
BY PublishEndsStep DEF PublishDies

-----------------------------------------------------------------------------
(* The publication of a Recipe: the maintenance *)

\* A step of the maintenance that leaves the uploads, the packages and the index alone.
LEMMA MaintenanceMoves ==
  ASSUME PublicationsInv, UNCHANGED <<wishes, authorizations, publication, published, dailyUsage,
                                      publishCalls, hour, intents, packages>>,
         CleanupHolds', IndexHolds',
         maintenance' \in [phase : MaintenancePhases, key : PublicationKeys \cup {"none"},
                           seen : IntentPhases, at : 0..MaxHour, left : {maintenance'.left}]
  PROVE  PublicationsInv'
<1>1. RequestRows' /\ WishesPlanned' /\ InvocationTypes'
  BY DEF PublicationsInv, RequestRows, WishesPlanned, InvocationTypes
<1>2. RowsInv' /\ CallsHold'
  BY RegistryStays, CallsStay DEF PublicationsInv
<1> QED BY <1>1, <1>2 DEF PublicationsInv

LEMMA MaintenanceIs ==
  ASSUME PublicationsInv
  PROVE  /\ maintenance.phase \in MaintenancePhases /\ maintenance.key \in PublicationKeys \cup {"none"}
         /\ maintenance.seen \in IntentPhases /\ maintenance.at \in 0..MaxHour
         /\ hour \in 0..MaxHour /\ maintenance.at <= hour
         /\ maintenance = [phase |-> maintenance.phase, key |-> maintenance.key,
                           seen |-> maintenance.seen, at |-> maintenance.at, left |-> maintenance.left]
         /\ intents \in [PublicationKeys -> Intent]
BY DEF PublicationsInv, InvocationTypes, CleanupHolds, RowsInv, RegistryTypes

LEMMA IdleMaintenanceIs ==
  /\ IdleMaintenance.phase = "idle" /\ IdleMaintenance.at = 0
  /\ IdleMaintenance \in [phase : MaintenancePhases, key : PublicationKeys \cup {"none"},
                          seen : IntentPhases, at : 0..MaxHour, left : {IdleMaintenance.left}]
<1>1. 0 \in 0..MaxHour
  BY HoursAre
<1> QED BY <1>1 DEF IdleMaintenance, MaintenancePhases, IntentPhases

\* The maintenance ends, whatever it has done to the uploads and the index.
LEMMA MaintenanceEndsIs ==
  ASSUME PublicationsInv, MaintenanceEnds, hour' = hour
  PROVE  CleanupHolds' /\ maintenance'.phase = "idle"
         /\ maintenance' \in [phase : MaintenancePhases, key : PublicationKeys \cup {"none"},
                              seen : IntentPhases, at : 0..MaxHour, left : {maintenance'.left}]
BY IdleMaintenanceIs, MaintenanceIs, HoursAre DEF CleanupHolds, MaintenanceEnds

LEMMA SelectCandidateStep ==
  ASSUME PublicationsInv, NEW k \in PublicationKeys, SelectCandidate(k)
  PROVE  PublicationsInv'
<1>1. UNCHANGED <<wishes, authorizations, publication, published, dailyUsage, publishCalls, hour,
                  intents, packages, pendingIndex, vector>>
  BY DEF SelectCandidate, UnchangedByMaintenance
<1>2. maintenance' = [phase |-> "selected", key |-> k, seen |-> intents[k].phase, at |-> hour,
                      left |-> {}]
  BY DEF SelectCandidate
<1>3. intents[k].phase \in IntentPhases /\ hour \in 0..MaxHour /\ hour \in Nat
  BY MaintenanceIs, HoursAre DEF Intent
<1>4. maintenance'.phase = "selected" /\ maintenance'.key = k /\ maintenance'.at = hour
      /\ maintenance' \in [phase : MaintenancePhases, key : PublicationKeys \cup {"none"},
                           seen : IntentPhases, at : 0..MaxHour, left : {maintenance'.left}]
  BY <1>2, <1>3 DEF MaintenancePhases
<1>5. CleanupHolds'
  BY <1>1, <1>3, <1>4 DEF CleanupHolds
<1>6. IndexHolds'
  BY <1>1, <1>4, IndexStays DEF PublicationsInv
<1> QED BY <1>1, <1>4, <1>5, <1>6, MaintenanceMoves

\* An upload that the maintenance takes over is not one that a call still holds: it takes
\* over only what nobody has touched since before any of the calls began, and cleans up
\* only what was put in quarantine an hour before that.
LEMMA MaintenanceTurns ==
  ASSUME PublicationsInv, maintenance.phase = "selected",
         NEW k \in PublicationKeys, k = maintenance.key, NEW i \in Intent, i.bundle = intents[k].bundle,
         i.lease = maintenance.at,
         \/ i.phase = "quarantine" /\ StaleUpload(k, maintenance.at) /\ i.touched = intents[k].touched
         \/ i.phase = "cleanup" /\ ExpiredLease(k, maintenance.at),
         intents' = [intents EXCEPT ![k] = i],
         UNCHANGED <<wishes, authorizations, publication, published, dailyUsage, publishCalls, hour,
                     packages>>
  PROVE  RowsInv' /\ CallsHold' /\ RequestRows' /\ WishesPlanned'
<1>1. intents \in [PublicationKeys -> Intent] /\ maintenance.at \in 0..MaxHour
      /\ maintenance.at <= hour /\ hour \in 0..MaxHour
  BY MaintenanceIs
<1>2. intents[k].phase # "none" /\ i.phase # "none"
  BY DEF StaleUpload, ExpiredLease
<1>3. RowsInv'
  BY <1>2, IntentTurns DEF PublicationsInv
<1>4. intents'[k] = i /\ \A o : o # k => intents'[o] = intents[o]
  BY <1>1
<1>5. CallsHold'
  <2> SUFFICES ASSUME NEW q \in PublishCalls
               PROVE  CallHolds(q)'
    BY DEF CallsHold
  <2>1. PICK c : c = publishCalls[q]
    OBVIOUS
  <2>2. CallHolds(q) /\ c.at \in 0..MaxHour /\ c.since \in 0..MaxHour
    BY <2>1, CallTypes
  <2>3. \A b : b.skill \in Nat \ {0} /\ DependencyHolds(b) => DependencyHolds(b)'
    BY DEF DependencyHolds, LatestVersion
  <2>4. ASSUME c.phase # "idle"
        PROVE  CallUploads(publishCalls[q], intents[BundleKey(q)])'
    <3>1. CASE BundleKey(q) # k
      BY <1>4, <2>1, <2>2, <2>4, <3>1, UploadStays
    <3>2. CASE BundleKey(q) = k
      <4>1. CallUploads(c, intents[k]) /\ CallTimely(c)
        BY <2>1, <2>2, <2>4, <3>2 DEF CallHolds
      <4>2. c.phase \in {"resuming", "storing", "claiming", "committing"} =>
              /\ intents[k].bundle = c.bundle /\ intents[k].touched >= c.at
              /\ intents[k].phase \in {"uploading", "finalizing", "quarantine"}
              /\ intents[k].phase = "quarantine" => intents[k].lease >= c.at + 2
              /\ c.at <= hour /\ hour <= c.at + 2
        BY <4>1 DEF CallUploads, CallTimely
      <4>3. c.phase = "committing" =>
              /\ intents[k].phase = "finalizing" /\ intents[k].touched >= c.since
              /\ hour <= c.since + 1
        BY <4>1 DEF CallUploads, CallTimely
      <4>4. intents[k].touched \in Nat /\ intents[k].lease \in Nat /\ maintenance.at \in Nat
            /\ hour \in Nat /\ c.at \in Nat /\ c.since \in Nat
        BY <1>1, <2>2, HoursAre DEF Intent
      <4>5. CASE /\ i.phase = "quarantine" /\ intents[k].touched + 1 < maintenance.at
                 /\ i.touched = intents[k].touched
        <5>1. c.phase # "committing"
          BY <1>1, <4>3, <4>4, <4>5
        <5>2. c.phase \in {"resuming", "storing", "claiming", "committing"} =>
                i.bundle = c.bundle /\ i.touched >= c.at /\ i.lease >= c.at + 2
          BY <4>2, <4>4, <4>5
        <5>3. CallUploads(c, i)'
          BY <4>1, <4>5, <5>1, <5>2 DEF CallUploads
        <5>4. (publishCalls[q])' = c /\ (intents[BundleKey(q)])' = i
          BY <1>4, <2>1, <3>2 DEF BundleKey
        <5> QED BY <5>3, <5>4
      <4>6. CASE i.phase = "cleanup" /\ ExpiredLease(k, maintenance.at)
        <5>1. intents[k].phase \in {"quarantine", "cleanup"} /\ intents[k].lease + 1 < maintenance.at
          BY <4>6 DEF ExpiredLease, Expired
        <5>2. c.phase \notin {"resuming", "storing", "claiming", "committing"}
          BY <1>1, <4>2, <4>4, <5>1
        <5>3. CallUploads(c, i)'
          BY <5>2 DEF CallUploads
        <5>4. (publishCalls[q])' = c /\ (intents[BundleKey(q)])' = i
          BY <1>4, <2>1, <3>2 DEF BundleKey
        <5> QED BY <5>3, <5>4
      <4> QED BY <4>5, <4>6 DEF StaleUpload, Expired
    <3> QED BY <3>1, <3>2
  <2> QED BY <2>1, <2>2, <2>3, <2>4, CallStays
<1> QED BY <1>3, <1>5 DEF PublicationsInv, RequestRows, WishesPlanned

LEMMA QuarantineUploadStep ==
  ASSUME PublicationsInv, QuarantineUpload
  PROVE  PublicationsInv'
<1>1. PICK k, at : k = maintenance.key /\ at = maintenance.at
  OBVIOUS
<1>2. /\ maintenance.phase = "selected" /\ MaintenanceEnds
      /\ UNCHANGED <<wishes, authorizations, publication, published, dailyUsage, publishCalls, hour,
                     packages, pendingIndex, vector>>
  BY DEF QuarantineUpload, UnchangedByMaintenance, Maintaining
<1>3. k \in PublicationKeys /\ at \in 0..MaxHour
  BY <1>1, <1>2, MaintenanceIs DEF PublicationsInv, CleanupHolds
<1>4. /\ CleanupHolds' /\ maintenance'.phase = "idle"
      /\ maintenance' \in [phase : MaintenancePhases, key : PublicationKeys \cup {"none"},
                           seen : IntentPhases, at : 0..MaxHour, left : {maintenance'.left}]
  BY <1>2, MaintenanceEndsIs
<1>5. IndexHolds'
  BY <1>2, <1>4, IndexStays DEF PublicationsInv
<1>6. CASE ~StaleUpload(k, at)
  <2>1. intents' = intents
    BY <1>1, <1>6 DEF QuarantineUpload
  <2> QED BY <1>2, <1>4, <1>5, <2>1, MaintenanceMoves
<1>7. CASE StaleUpload(k, at)
  <2>1. intents' = [intents EXCEPT ![k].phase = "quarantine", ![k].lease = at]
    BY <1>1, <1>7 DEF QuarantineUpload
  <2>2. PICK i : i = [intents[k] EXCEPT !.phase = "quarantine", !.lease = at]
    OBVIOUS
  <2>3. /\ i \in Intent /\ i.phase = "quarantine" /\ i.lease = at /\ i.bundle = intents[k].bundle
        /\ i.touched = intents[k].touched /\ intents' = [intents EXCEPT ![k] = i]
    BY <1>3, <2>1, <2>2, MaintenanceIs DEF Intent, IntentPhases
  <2>4. RowsInv' /\ CallsHold' /\ RequestRows' /\ WishesPlanned'
    BY <1>1, <1>2, <1>3, <1>7, <2>3, MaintenanceTurns
  <2>5. InvocationTypes'
    BY <1>2, <1>4 DEF PublicationsInv, InvocationTypes
  <2> QED BY <1>4, <1>5, <2>4, <2>5 DEF PublicationsInv
<1> QED BY <1>6, <1>7

LEMMA ClaimCleanupStep ==
  ASSUME PublicationsInv, ClaimCleanup
  PROVE  PublicationsInv'
<1>1. PICK k, at : k = maintenance.key /\ at = maintenance.at
  OBVIOUS
<1>2. /\ maintenance.phase = "selected"
      /\ UNCHANGED <<wishes, authorizations, publication, published, dailyUsage, publishCalls, hour,
                     packages, pendingIndex, vector>>
  BY DEF ClaimCleanup, UnchangedByMaintenance, Maintaining
<1>3. k \in PublicationKeys /\ at \in 0..MaxHour
  BY <1>1, <1>2, MaintenanceIs DEF PublicationsInv, CleanupHolds
<1>4. CASE ~ExpiredLease(k, at)
  <2>1. MaintenanceEnds /\ intents' = intents
    BY <1>1, <1>4 DEF ClaimCleanup
  <2>2. /\ CleanupHolds' /\ maintenance'.phase = "idle"
        /\ maintenance' \in [phase : MaintenancePhases, key : PublicationKeys \cup {"none"},
                             seen : IntentPhases, at : 0..MaxHour, left : {maintenance'.left}]
    BY <1>2, <2>1, MaintenanceEndsIs
  <2>3. IndexHolds'
    BY <1>2, <2>2, IndexStays DEF PublicationsInv
  <2> QED BY <1>2, <2>1, <2>2, <2>3, MaintenanceMoves
<1>5. CASE ExpiredLease(k, at)
  <2>1. PICK left : left = ToSet(BundleArtifacts(intents[k].bundle))
    OBVIOUS
  <2>2. /\ intents' = [intents EXCEPT ![k].phase = "cleanup", ![k].lease = at]
        /\ maintenance' = [maintenance EXCEPT !.phase = "deleting", !.left = left]
    BY <1>1, <1>5, <2>1 DEF ClaimCleanup
  <2>3. PICK i : i = [intents[k] EXCEPT !.phase = "cleanup", !.lease = at]
    OBVIOUS
  <2>4. /\ i \in Intent /\ i.phase = "cleanup" /\ i.lease = at /\ i.bundle = intents[k].bundle
        /\ intents' = [intents EXCEPT ![k] = i] /\ intents'[k] = i
    BY <1>3, <2>2, <2>3, MaintenanceIs DEF Intent, IntentPhases
  <2>5. RowsInv' /\ CallsHold' /\ RequestRows' /\ WishesPlanned'
    BY <1>1, <1>2, <1>3, <1>5, <2>4, MaintenanceTurns
  <2>6. /\ maintenance'.phase = "deleting" /\ maintenance'.key = k /\ maintenance'.at = at
        /\ maintenance'.left = left
        /\ maintenance' \in [phase : MaintenancePhases, key : PublicationKeys \cup {"none"},
                             seen : IntentPhases, at : 0..MaxHour, left : {maintenance'.left}]
    BY <1>1, <2>2, MaintenanceIs DEF MaintenancePhases
  <2>7. InvocationTypes'
    BY <1>2, <2>6 DEF PublicationsInv, InvocationTypes
  <2>8. IndexHolds'
    BY <1>2, <2>6, IndexStays DEF PublicationsInv
  <2>9. left = Artifacts(i.bundle)
    BY <2>1, <2>4, ArtifactsAre
  <2>10. CleanupHolds'
    BY <1>1, <1>2, <1>3, <2>4, <2>6, <2>9, MaintenanceIs DEF CleanupHolds
  <2> QED BY <2>5, <2>7, <2>8, <2>10 DEF PublicationsInv
<1> QED BY <1>4, <1>5

LEMMA DeletePackageObjectStep ==
  ASSUME PublicationsInv, DeletePackageObject
  PROVE  PublicationsInv'
<1>1. PICK k : k = maintenance.key
  OBVIOUS
<1>2. /\ maintenance.phase = "deleting"
      /\ UNCHANGED <<wishes, authorizations, publication, published, dailyUsage, publishCalls, hour,
                     intents, pendingIndex, vector>>
  BY DEF DeletePackageObject, UnchangedByMaintenance, Maintaining
<1>3. PICK a \in maintenance.left :
        packages' = packages \ {a} /\ maintenance' = [maintenance EXCEPT !.left = @ \ {a}]
  BY DEF DeletePackageObject
<1>4. /\ k \in PublicationKeys /\ intents[k].phase = "cleanup" /\ intents[k].lease = maintenance.at
      /\ maintenance.left \subseteq Artifacts(intents[k].bundle)
      /\ Artifacts(intents[k].bundle) \cap packages \subseteq maintenance.left
  BY <1>1, <1>2 DEF PublicationsInv, CleanupHolds
<1>5. PICK r \in PublicationRequests : PlannedBundle(r, intents[k].bundle)
  BY <1>4 DEF PublicationsInv, RowsInv, RowsPlanned, BundleOfKey
<1>6. a \in Artifacts(intents[k].bundle) /\ ~IsPublished(a) /\ a \in Artifact
  BY <1>3, <1>4, <1>5, ArtifactIs DEF PublicationsInv, RowsInv, IntentsUnpublished
<1>7. PICK left : left = maintenance.left \ {a}
  OBVIOUS
<1>8. /\ maintenance'.phase = "deleting" /\ maintenance'.key = k /\ maintenance'.at = maintenance.at
      /\ maintenance'.left = left
      /\ maintenance' \in [phase : MaintenancePhases, key : PublicationKeys \cup {"none"},
                           seen : IntentPhases, at : 0..MaxHour, left : {maintenance'.left}]
  BY <1>1, <1>2, <1>3, <1>7, MaintenanceIs
<1>9. RequestRows' /\ WishesPlanned' /\ InvocationTypes'
  BY <1>2, <1>8 DEF PublicationsInv, RequestRows, WishesPlanned, InvocationTypes
<1>10. IndexHolds'
  BY <1>2, <1>8, IndexStays DEF PublicationsInv
<1>11. CleanupHolds'
  BY <1>2, <1>3, <1>4, <1>7, <1>8, MaintenanceIs DEF CleanupHolds
<1>12. RowsInv'
  <2>1. RegistryTypes' /\ RowsPlanned' /\ VersionsKnown' /\ IntentsApart' /\ IntentsUnpublished'
    BY <1>2, <1>3 DEF PublicationsInv, RowsInv, RegistryTypes, RowsPlanned, VersionsKnown, IntentsApart,
       IntentsUnpublished, LatestVersion, IsPublished
  <2>2. DependenciesKept' /\ PublishedOnce'
    BY <1>2 DEF PublicationsInv, RowsInv, DependenciesKept, PublishedOnce, LatestVersion
  <2>3. PackagesAccounted'
    BY <1>2, <1>3 DEF PublicationsInv, RowsInv, PackagesAccounted, LatestVersion
  <2>4. PackagesKept'
    <3> SUFFICES ASSUME NEW n \in ArtifactNames, NEW v \in 1..LatestVersion(n)
                 PROVE  [name |-> n, version |-> v, digest |-> published[n][v]] \in packages'
      BY <1>2 DEF PackagesKept, LatestVersion
    <3>1. [name |-> n, version |-> v, digest |-> published[n][v]] \in packages
      BY DEF PublicationsInv, RowsInv, PackagesKept
    <3>2. [name |-> n, version |-> v, digest |-> published[n][v]] # a
      BY <1>6 DEF IsPublished
    <3> QED BY <1>3, <3>1, <3>2
  <2> QED BY <2>1, <2>2, <2>3, <2>4 DEF RowsInv
<1>13. CallsHold'
  <2> SUFFICES ASSUME NEW q \in PublishCalls
               PROVE  CallHolds(q)'
    BY DEF CallsHold
  <2>1. PICK c, o : c = publishCalls[q] /\ o = BundleKey(q)
    OBVIOUS
  <2>2. CallHolds(q)
    BY CallTypes
  <2>3. \A b : b.skill \in Nat \ {0} /\ DependencyHolds(b) => DependencyHolds(b)'
    BY <1>2 DEF DependencyHolds, LatestVersion
  <2>4. ASSUME c.phase # "idle"
        PROVE  CallUploads(publishCalls[q], intents[BundleKey(q)])'
    <3>1. o \in PublicationKeys /\ CallUploads(c, intents[o])
      BY <2>1, <2>2, <2>4, CallKey DEF CallHolds
    <3>2. CASE c.phase \in {"resuming", "storing", "claiming", "committing"}
      <4>1. intents[o].bundle = c.bundle /\ intents[o].phase \in {"uploading", "finalizing", "quarantine"}
        BY <3>1, <3>2 DEF CallUploads
      <4>2. \A d \in Artifacts(c.bundle) : ~SameVersion(a, d)
        BY <1>4, <1>6, <3>1, <4>1 DEF PublicationsInv, RowsInv, IntentsApart
      <4>3. a \notin Artifacts(c.bundle)
        BY <4>2 DEF SameVersion
      <4>4. Artifacts(c.bundle) \cap packages \subseteq packages'
        BY <1>3, <4>3
      <4> QED BY <1>2, <2>1, <2>2, <2>4, <4>4, UploadStays
    <3>3. CASE c.phase \notin {"resuming", "storing", "claiming", "committing"}
      <4>1. CallUploads(c, intents[o])'
        BY <3>3 DEF CallUploads
      <4>2. (publishCalls[q])' = c /\ BundleKey(q)' = o
        BY <1>2, <2>1 DEF BundleKey
      <4>3. PICK i : i = intents[o]
        OBVIOUS
      <4>4. CallUploads(c, i)'
        BY <3>3 DEF CallUploads
      <4>5. (intents[BundleKey(q)])' = i
        BY <1>2, <4>2, <4>3
      <4> QED BY <4>2, <4>4, <4>5
    <3> QED BY <3>2, <3>3
  <2> QED BY <1>2, <2>1, <2>2, <2>3, <2>4, CallStays
<1> QED BY <1>9, <1>10, <1>11, <1>12, <1>13 DEF PublicationsInv

LEMMA DeleteIntentStep ==
  ASSUME PublicationsInv, DeleteIntent
  PROVE  PublicationsInv'
<1>1. PICK k : k = maintenance.key
  OBVIOUS
<1>2. /\ maintenance.phase = "deleting" /\ maintenance.left = {} /\ MaintenanceEnds
      /\ UNCHANGED <<wishes, authorizations, publication, published, dailyUsage, publishCalls, hour,
                     packages, pendingIndex, vector>>
  BY DEF DeleteIntent, UnchangedByMaintenance, Maintaining
<1>3. /\ k \in PublicationKeys /\ intents[k].phase = "cleanup" /\ intents[k].lease = maintenance.at
      /\ Artifacts(intents[k].bundle) \cap packages = {}
  BY <1>1, <1>2 DEF PublicationsInv, CleanupHolds
<1>4. intents' = [intents EXCEPT ![k] = NoIntent]
  BY <1>1, <1>3 DEF DeleteIntent
<1>5. /\ intents' \in [PublicationKeys -> Intent] /\ intents'[k].phase = "none"
      /\ \A o : o # k => intents'[o] = intents[o]
  <2>1. NoIntent.phase = "none"
    BY DEF NoIntent
  <2> QED BY <1>3, <1>4, <2>1, NothingYet, MaintenanceIs
<1>6. /\ CleanupHolds' /\ maintenance'.phase = "idle"
      /\ maintenance' \in [phase : MaintenancePhases, key : PublicationKeys \cup {"none"},
                           seen : IntentPhases, at : 0..MaxHour, left : {maintenance'.left}]
  BY <1>2, MaintenanceEndsIs
<1>7. RequestRows' /\ WishesPlanned' /\ InvocationTypes'
  BY <1>2, <1>6 DEF PublicationsInv, RequestRows, WishesPlanned, InvocationTypes
<1>8. IndexHolds'
  BY <1>2, <1>6, IndexStays DEF PublicationsInv
<1>9. RowsInv'
  <2>1. RegistryTypes'
    BY <1>2, <1>5 DEF PublicationsInv, RowsInv, RegistryTypes
  <2>2. RowsPlanned' /\ IntentsApart'
    BY <1>2, <1>5 DEF PublicationsInv, RowsInv, RowsPlanned, IntentsApart
  <2>3. IntentsUnpublished'
    BY <1>2, <1>5 DEF PublicationsInv, RowsInv, IntentsUnpublished, LatestVersion, IsPublished
  <2>4. VersionsKnown' /\ PackagesKept' /\ DependenciesKept' /\ PublishedOnce'
    BY <1>2 DEF PublicationsInv, RowsInv, VersionsKnown, PackagesKept, DependenciesKept, PublishedOnce,
       LatestVersion
  <2>5. PackagesAccounted'
    <3>1. \A a \in packages : a \notin ToSet(BundleArtifacts(intents[k].bundle))
      BY <1>3, ArtifactsAre
    <3> QED BY <1>2, <1>5, <3>1 DEF PublicationsInv, RowsInv, PackagesAccounted, LatestVersion
  <2> QED BY <2>1, <2>2, <2>3, <2>4, <2>5 DEF RowsInv
<1>10. CallsHold'
  <2> SUFFICES ASSUME NEW q \in PublishCalls
               PROVE  CallHolds(q)'
    BY DEF CallsHold
  <2>1. PICK c, o : c = publishCalls[q] /\ o = BundleKey(q)
    OBVIOUS
  <2>2. CallHolds(q)
    BY CallTypes
  <2>3. \A b : b.skill \in Nat \ {0} /\ DependencyHolds(b) => DependencyHolds(b)'
    BY <1>2 DEF DependencyHolds, LatestVersion
  <2>4. ASSUME c.phase # "idle"
        PROVE  CallUploads(publishCalls[q], intents[BundleKey(q)])'
    <3>1. CASE o # k
      BY <1>2, <1>5, <2>1, <2>2, <2>4, <3>1, UploadStays
    <3>2. CASE o = k
      <4>1. CallUploads(c, intents[k])
        BY <2>1, <2>2, <2>4, <3>2 DEF CallHolds
      <4>2. c.phase \notin {"resuming", "storing", "claiming", "committing"}
        BY <1>3, <4>1 DEF CallUploads
      <4>3. PICK i : i = intents'[k]
        OBVIOUS
      <4>4. CallUploads(c, i)'
        BY <4>2 DEF CallUploads
      <4>5. (publishCalls[q])' = c /\ (intents[BundleKey(q)])' = i
        BY <1>2, <2>1, <3>2, <4>3 DEF BundleKey
      <4> QED BY <4>4, <4>5
    <3> QED BY <3>1, <3>2
  <2> QED BY <1>2, <2>1, <2>2, <2>3, <2>4, CallStays
<1> QED BY <1>6, <1>7, <1>8, <1>9, <1>10 DEF PublicationsInv

\* The last of the versions the maintenance has read is the one the index ends up with.
LEMMA LastOf ==
  ASSUME NEW first \in Nat, NEW last \in Nat, first <= last
  PROVE  (CHOOSE v \in first..last : \A o \in first..last : o <= v) = last
<1>1. \A v \in first..last : (\A o \in first..last : o <= v) <=> v = last
  OBVIOUS
<1>2. last \in first..last
  OBVIOUS
<1> QED BY <1>1, <1>2

LEMMA IndexSteps ==
  ASSUME PublicationsInv, ReadPendingRecipes \/ UpsertVectors \/ MarkIndexed \/ MaintenanceDies
  PROVE  PublicationsInv'
<1>1. UNCHANGED <<wishes, authorizations, publication, published, dailyUsage, publishCalls, hour,
                  intents, packages>>
  BY DEF ReadPendingRecipes, UpsertVectors, MarkIndexed, MaintenanceDies, UnchangedByMaintenance
<1>2. PICK m : m = LatestVersion("recipe")
  OBVIOUS
<1>3. m \in Nat /\ m = LatestVersion("recipe")'
  BY <1>1, <1>2 DEF PublicationsInv, RowsInv, RegistryTypes, LatestVersion, ArtifactNames
<1>4. /\ pendingIndex \subseteq 1..m
      /\ \A v \in pendingIndex : v..m \subseteq pendingIndex
      /\ vector \in 0..m
      /\ \A v \in (1..m) \ pendingIndex : v <= vector
  BY <1>2 DEF PublicationsInv, IndexHolds
<1>5. ASSUME maintenance.phase \in {"embedding", "marking"}
      PROVE  \E first \in pendingIndex, last \in 1..m :
               /\ maintenance.left = first..last /\ first <= last
               /\ \A v \in pendingIndex : v >= first
               /\ maintenance.phase = "marking" => vector = last
  BY <1>2, <1>5 DEF PublicationsInv, IndexHolds
<1>6. CASE ReadPendingRecipes
  <2>1. /\ pendingIndex # {} /\ UNCHANGED <<pendingIndex, vector>>
        /\ maintenance' = [IdleMaintenance EXCEPT !.phase = "embedding", !.at = hour,
                                                  !.left = pendingIndex]
    BY <1>6 DEF ReadPendingRecipes
  <2>2. /\ maintenance'.phase = "embedding" /\ maintenance'.at = hour
        /\ maintenance'.left = pendingIndex
        /\ maintenance' \in [phase : MaintenancePhases, key : PublicationKeys \cup {"none"},
                             seen : IntentPhases, at : 0..MaxHour, left : {maintenance'.left}]
    BY <2>1, MaintenanceIs DEF IdleMaintenance, MaintenancePhases, IntentPhases
  <2>3. CleanupHolds'
    BY <1>1, <2>2, MaintenanceIs, HoursAre DEF CleanupHolds
  <2>4. PICK first \in pendingIndex : \A v \in pendingIndex : first <= v
    <3>1. pendingIndex \subseteq 0..m
      BY <1>3, <1>4
    <3> QED BY <1>3, <2>1, <3>1, Extrema
  <2>5. pendingIndex = first..m /\ first \in Nat /\ first <= m /\ m \in 1..m
    <3>1. first \in 1..m /\ first..m \subseteq pendingIndex
      BY <1>4
    <3>2. first \in Nat /\ first <= m /\ m \in 1..m
      BY <1>3, <3>1
    <3>3. pendingIndex \subseteq first..m
      BY <1>3, <1>4, <2>4
    <3> QED BY <3>1, <3>2, <3>3
  <2>6. IndexHolds'
    BY <1>3, <1>4, <2>1, <2>2, <2>4, <2>5 DEF IndexHolds
  <2> QED BY <1>1, <2>2, <2>3, <2>6, MaintenanceMoves
<1>7. CASE UpsertVectors
  <2>1. /\ maintenance.phase = "embedding" /\ pendingIndex' = pendingIndex
        /\ vector' = CHOOSE v \in maintenance.left : \A o \in maintenance.left : o <= v
        /\ maintenance' = [maintenance EXCEPT !.phase = "marking"]
    BY <1>7 DEF UpsertVectors, Maintaining, MaintenanceGoes
  <2>2. /\ maintenance'.phase = "marking" /\ maintenance'.at = maintenance.at
        /\ maintenance'.left = maintenance.left
        /\ maintenance' \in [phase : MaintenancePhases, key : PublicationKeys \cup {"none"},
                             seen : IntentPhases, at : 0..MaxHour, left : {maintenance'.left}]
    BY <2>1, MaintenanceIs DEF MaintenancePhases
  <2>3. CleanupHolds'
    BY <1>1, <2>2, MaintenanceIs DEF CleanupHolds
  <2>4. PICK first \in pendingIndex, last \in 1..m :
          /\ maintenance.left = first..last /\ first <= last
          /\ \A v \in pendingIndex : v >= first
    BY <1>5, <2>1
  <2>5. first \in Nat /\ last \in Nat
    BY <1>3, <1>4
  <2>6. vector' = last
    BY <2>1, <2>4, <2>5, LastOf
  <2>7. \A v \in (1..m) \ pendingIndex : v <= last
    <3>1. first..m \subseteq pendingIndex
      BY <1>4
    <3> QED BY <1>3, <2>4, <2>5, <3>1
  <2>8. vector' \in 0..m
    BY <1>3, <2>5, <2>6
  <2>9. IndexHolds'
    BY <1>3, <1>4, <2>1, <2>2, <2>4, <2>6, <2>7, <2>8 DEF IndexHolds
  <2> QED BY <1>1, <2>2, <2>3, <2>9, MaintenanceMoves
<1>8. CASE MarkIndexed
  <2>1. /\ maintenance.phase = "marking" /\ vector' = vector /\ MaintenanceEnds
        /\ pendingIndex' = pendingIndex \ maintenance.left
    BY <1>8 DEF MarkIndexed, Maintaining
  <2>2. /\ CleanupHolds' /\ maintenance'.phase = "idle"
        /\ maintenance' \in [phase : MaintenancePhases, key : PublicationKeys \cup {"none"},
                             seen : IntentPhases, at : 0..MaxHour, left : {maintenance'.left}]
    BY <1>1, <2>1, MaintenanceEndsIs
  <2>3. PICK first \in pendingIndex, last \in 1..m :
          /\ maintenance.left = first..last /\ first <= last
          /\ \A v \in pendingIndex : v >= first
          /\ vector = last
    BY <1>5, <2>1
  <2>4. first \in Nat /\ last \in Nat /\ pendingIndex' = pendingIndex \ (first..last)
    BY <1>3, <1>4, <2>1, <2>3
  <2>5. pendingIndex' \subseteq 1..m
    BY <1>4, <2>4
  <2>6. ASSUME NEW v \in pendingIndex'
        PROVE  v \in pendingIndex /\ v \in Nat /\ v > last
    <3>1. v \in pendingIndex /\ v \notin first..last
      BY <2>4
    <3>2. v \in Nat /\ v >= first
      BY <1>3, <1>4, <2>3, <3>1
    <3> QED BY <2>4, <3>1, <3>2
  <2>7. \A v \in pendingIndex' : v..m \subseteq pendingIndex'
    BY <1>3, <1>4, <2>4, <2>6
  <2>8. \A v \in (1..m) \ pendingIndex' : v <= vector
    BY <1>3, <1>4, <2>3, <2>4
  <2>9. IndexHolds'
    BY <1>3, <1>4, <2>1, <2>2, <2>5, <2>7, <2>8 DEF IndexHolds
  <2> QED BY <1>1, <2>2, <2>9, MaintenanceMoves
<1>9. CASE MaintenanceDies
  <2>1. MaintenanceEnds /\ UNCHANGED <<pendingIndex, vector>>
    BY <1>9 DEF MaintenanceDies
  <2>2. /\ CleanupHolds' /\ maintenance'.phase = "idle"
        /\ maintenance' \in [phase : MaintenancePhases, key : PublicationKeys \cup {"none"},
                             seen : IntentPhases, at : 0..MaxHour, left : {maintenance'.left}]
    BY <1>1, <2>1, MaintenanceEndsIs
  <2>3. IndexHolds'
    BY <1>1, <2>1, <2>2, IndexStays DEF PublicationsInv
  <2> QED BY <1>1, <2>2, <2>3, MaintenanceMoves
<1> QED BY <1>6, <1>7, <1>8, <1>9

-----------------------------------------------------------------------------
(* The publication of a Recipe: the theorems *)

LEMMA PublicationsInitInv ==
  ASSUME PublicationsInit
  PROVE  PublicationsInv
<1>1. 0 \in 0..MaxHour /\ 0 \in 0..MaxAuthorizations
  BY HoursAre
<1>2. RequestRows /\ WishesPlanned
  BY <1>1, NothingYet DEF PublicationsInit, RequestRows, WishesPlanned
<1>3. InvocationTypes
  BY <1>1, NothingYet, IdleMaintenanceIs DEF PublicationsInit, InvocationTypes
<1>4. \A k \in PublicationKeys : publication[k] = NoBundle /\ intents[k].phase = "none"
  BY DEF PublicationsInit, NoIntent
<1>5. \A n \in ArtifactNames : published[n] = <<>>
  BY DEF PublicationsInit
<1>6. \A n \in ArtifactNames : LatestVersion(n) = 0
  BY <1>5 DEF LatestVersion
<1>7. RegistryTypes
  BY NothingYet DEF PublicationsInit, RegistryTypes
<1>8. RowsPlanned /\ IntentsApart /\ IntentsUnpublished
  BY <1>4 DEF RowsPlanned, IntentsApart, IntentsUnpublished
<1>9. VersionsKnown /\ PackagesKept
  BY <1>6 DEF VersionsKnown, PackagesKept
<1>10. DependenciesKept /\ PackagesAccounted
  BY <1>6 DEF DependenciesKept, PackagesAccounted, PublicationsInit, ArtifactNames
<1>11. PublishedOnce
  <2>1. {k \in PublicationKeys : publication[k] # NoBundle} = {}
    BY <1>4
  <2>2. Cardinality({}) = 0
    BY FS_EmptySet
  <2> QED BY <1>6, <2>1, <2>2 DEF PublishedOnce, ArtifactNames
<1>12. CallsHold
  <2>1. \A p \in PublishCalls : publishCalls[p].phase = "idle"
    BY DEF PublicationsInit, IdlePublishCall
  <2> QED BY <2>1 DEF CallsHold, CallHolds, CallTimely
<1>13. CleanupHolds
  BY IdleMaintenanceIs DEF PublicationsInit, CleanupHolds
<1>14. IndexHolds
  BY <1>6, IdleMaintenanceIs DEF PublicationsInit, IndexHolds, ArtifactNames
<1> QED BY <1>2, <1>3, <1>7, <1>8, <1>9, <1>10, <1>11, <1>12, <1>13, <1>14 DEF PublicationsInv, RowsInv

LEMMA PublicationsStutter ==
  ASSUME PublicationsInv, UNCHANGED publicationVars
  PROVE  PublicationsInv'
<1>1. UNCHANGED <<wishes, authorizations, publication, intents, published, packages, dailyUsage,
                  pendingIndex, vector, publishCalls, maintenance, hour>>
  BY DEF publicationVars, registryRows
<1>2. RequestRows' /\ WishesPlanned'
  BY <1>1 DEF PublicationsInv, RequestRows, WishesPlanned
<1> QED BY <1>1, <1>2, WishesChange

LEMMA PublicationsStep ==
  ASSUME OneCallEach, OwnContents, PublicationsInv, [PublicationsNext]_publicationVars
  PROVE  PublicationsInv'
<1>1. CASE \E r \in PublicationRequests : AuthorizePublish(r) \/ PreviewPublish(r)
  BY <1>1, AuthorizationSteps, PreviewPublishStep
<1>2. CASE \E k \in PublicationKeys : ApprovePublishAuthorization(k) \/ AuthorizationExpires(k)
  BY <1>2, AuthorizationSteps
<1>3. ASSUME NEW p \in PublishCalls,
             \/ \E r \in PublicationRequests : BeginPublish(p, r)
             \/ Replay(p) \/ TouchPending(p) \/ AssertPublishable(p) \/ ReservePublication(p)
             \/ StoreObject(p) \/ ClaimFinalization(p) \/ CommitPublication(p)
             \/ PublishDies(p)
      PROVE  PublicationsInv'
  BY <1>3, BeginPublishStep, ReplayStep, TouchPendingStep, AssertPublishableStep,
     ReservePublicationStep, StoreObjectStep, ClaimFinalizationStep, CommitPublicationStep,
     PublishDiesStep
<1>4. CASE MaintenanceNext
  BY <1>4, SelectCandidateStep, QuarantineUploadStep, ClaimCleanupStep, DeletePackageObjectStep,
     DeleteIntentStep, IndexSteps DEF MaintenanceNext
<1>5. CASE HourPasses
  BY <1>5, HourPassesStep
<1>6. CASE UNCHANGED publicationVars
  BY <1>6, PublicationsStutter
<1> QED BY <1>1, <1>2, <1>3, <1>4, <1>5, <1>6 DEF PublicationsNext

\* While every request is one invocation's and has contents of its own, the rows of the
\* Registry, its bucket, its index and what every invocation still does agree.
THEOREM PublicationsInvariant ==
  ASSUME OneCallEach, OwnContents
  PROVE  PublicationsSpec => []PublicationsInv
<1>1. PublicationsInit => PublicationsInv
  BY PublicationsInitInv
<1>2. PublicationsInv /\ [PublicationsNext]_publicationVars => PublicationsInv'
  BY PublicationsStep
<1> QED BY <1>1, <1>2, PTL DEF PublicationsSpec

\* The Registry stays whole whichever invocation dies between which two of its requests,
\* and however late the others go on: packages and dependencies are kept, no package is
\* left over, a key publishes once, and a version marked indexed is in the index.
THEOREM RegistryKept ==
  ASSUME OneCallEach, OwnContents
  PROVE  PublicationsSpec => []RegistryStaysWhole
<1>1. PublicationsInv => RegistryStaysWhole
  BY DEF PublicationsInv, RowsInv, PublishedOnce, IndexHolds, RegistryStaysWhole
<1> QED BY <1>1, PublicationsInvariant, PTL

THEOREM PublicationsTypeCorrect ==
  ASSUME OneCallEach, OwnContents
  PROVE  PublicationsSpec => []PublicationsTypeOK
<1> SUFFICES PublicationsInv => PublicationsTypeOK
  BY PublicationsInvariant, PTL
<1> SUFFICES ASSUME PublicationsInv
             PROVE  PublicationsTypeOK
  OBVIOUS
<1>1. \A r \in PublicationRequests : wishes[r].authorization \in 0..MaxAuthorizations
  BY DEF PublicationsInv, RequestRows
<1>2. \A k \in PublicationKeys :
        /\ authorizations[k].id \in 0..MaxAuthorizations
        /\ intents[k].phase \in IntentPhases /\ intents[k].touched \in 0..MaxHour
  BY DEF PublicationsInv, RequestRows, RowsInv, RegistryTypes, Intent
<1>3. \A a \in packages : a.name \in ArtifactNames
  BY DEF PublicationsInv, RowsInv, RegistryTypes, Artifact
<1>4. vector \in 0..LatestVersion("recipe") /\ pendingIndex \subseteq 1..LatestVersion("recipe")
  BY DEF PublicationsInv, IndexHolds
<1>5. \A p \in PublishCalls : publishCalls[p].phase \in PublishPhases
  BY DEF PublicationsInv, InvocationTypes, PublishCall
<1>6. hour \in 0..MaxHour
  BY DEF PublicationsInv, InvocationTypes
<1> QED BY <1>1, <1>2, <1>3, <1>4, <1>5, <1>6 DEF PublicationsTypeOK, PublishPhases


-----------------------------------------------------------------------------
(* The owner's work side by side *)

\* A step of the whole is a step of each part, or leaves it alone.
LEMMA OwnerStep ==
  ASSUME [OwnerNext]_ownerVars
  PROVE  /\ [EventTriggersNext]_eventTriggerVars /\ [WorkflowsNext]_workflowVars
         /\ [BriefsNext]_briefVars /\ [RecipesNext]_recipeVars
         /\ [PublicationsNext]_publicationVars
<1>1. CASE UNCHANGED ownerVars
  BY <1>1 DEF ownerVars
<1>2. CASE OwnerNext
  <2>1. [EventTriggersNext]_eventTriggerVars
    BY <1>2 DEF OwnerNext, OperationStep, EventTriggersNext
  <2>2. [WorkflowsNext]_workflowVars
    BY <1>2 DEF OwnerNext
  <2>3. [BriefsNext]_briefVars
    BY <1>2 DEF OwnerNext, BriefStep
  <2>4. [RecipesNext]_recipeVars
    BY <1>2 DEF OwnerNext, RecipeStep
  <2>5. [PublicationsNext]_publicationVars
    BY <1>2 DEF OwnerNext
  <2> QED BY <2>1, <2>2, <2>3, <2>4, <2>5
<1> QED BY <1>1, <1>2

\* The rows of triggers, Workflows, Briefs, Skills and installations are well typed, and
\* so are those of the Registry, in every behaviour of them all.
THEOREM OwnerTypeCorrect ==
  ASSUME OneCallEach, OwnContents
  PROVE  OwnerSpec => []OwnerTypeOK
<1>1. OwnerInit => EventInv /\ WorkflowsInit /\ BriefsInit /\ RecipesInit /\ PublicationsInit
  BY EventInitInv DEF OwnerInit
<1>2. EventInv /\ [OwnerNext]_ownerVars => EventInv'
  BY OwnerStep, EventStepInv
<1>3. [OwnerNext]_ownerVars =>
        /\ [WorkflowsNext]_workflowVars /\ [BriefsNext]_briefVars
        /\ [RecipesNext]_recipeVars /\ [PublicationsNext]_publicationVars
  BY OwnerStep
<1>4. EventInv => EventTriggersTypeOK
  BY DEF EventInv
<1>5. OwnerSpec => []EventTriggersTypeOK
  BY <1>1, <1>2, <1>4, PTL DEF OwnerSpec
<1>6. OwnerSpec => WorkflowsSpec /\ BriefsSpec /\ RecipesSpec /\ PublicationsSpec
  BY <1>1, <1>3, PTL DEF OwnerSpec, WorkflowsSpec, BriefsSpec, RecipesSpec, PublicationsSpec
<1>7. EventTriggersTypeOK /\ WorkflowsTypeOK /\ BriefsTypeOK /\ RecipesTypeOK /\ PublicationsTypeOK
        => OwnerTypeOK
  BY DEF OwnerTypeOK
<1> QED BY <1>5, <1>6, <1>7, WorkflowTypeCorrect, BriefsTypeCorrect, RecipesTypeCorrect,
     PublicationsTypeCorrect, PTL
=============================================================================
