----------------------------- MODULE SessionTools -----------------------------
(***************************************************************************)
(* The tool calls of a model's turn as its session makes them: each is     *)
(* authorized, may wait for the owner's approval, is checked again, and    *)
(* then reserved, dispatched and completed at the owner's two ledgers      *)
(* (ToolExecutions and RuntimeToolExecutions), with the provider called in *)
(* the middle. A call of the owner may be lost on its way or on the way    *)
(* back, and the session may restart: what it held of a call is gone then, *)
(* only a call that waits for an approval is durable.                      *)
(*                                                                         *)
(* External: Think, which asks authorizeToolAction, pauses, asks           *)
(* beforeToolCall and executes, in this order; and the provider, which may *)
(* apply an effect after the session stopped waiting for it.               *)
(***************************************************************************)
EXTENDS RuntimeToolExecutions

CONSTANT RemoteEffects     \* the effects of remote MCP tools; the others are Composio's

ASSUME SessionAssumption == RemoteEffects \subseteq Effects /\ ToolCalls \cap RuntimeCalls = {}

VARIABLES
  crewCalls,         \* what the session holds of each tool call
  providers,         \* whether the provider was called, and has applied the effect
  checkpointed       \* Runs whose session has stored a stage checkpoint

sessionVars == <<crewCalls, providers, checkpointed>>
sessionToolsVars == <<runtimeVars, sessionVars>>

Phases == {"none", "paused", "checking", "reserving", "permitted", "calling", "completing",
           "answered", "over"}

\* subject is the effect of an external call or the tool of a runtime call; asked:
\* a pending approval is stored; outcome is what the session will report.
CrewCall ==
  [phase : Phases, run : Runs \cup {"none"}, subject : Effects \cup Tools \cup {"none"},
   asked : BOOLEAN, outcome : {"none", "completed", "failed", "unknown"}]

NoCall == [phase |-> "none", run |-> "none", subject |-> "none", asked |-> FALSE, outcome |-> "none"]

Goes(t, phase) == crewCalls' = [crewCalls EXCEPT ![t].phase = phase]

Ends(t, outcome) ==
  crewCalls' = [crewCalls EXCEPT ![t].phase = "completing", ![t].outcome = outcome]

InFlight(r) ==
  \E t \in ToolCalls \cup RuntimeCalls :
    crewCalls[t].run = r /\ crewCalls[t].phase \notin {"none", "paused", "answered", "over"}

ActiveRunReference(r) ==
  admissions[r].status = "redeemed" /\ admissions[r].recorded /\ admissions[r].runAge < MaxDuration

-----------------------------------------------------------------------------
(* External calls: authorization, approval and the check before execution *)

\* evaluate answers with a decision, and not with an error.
Evaluates(r, e) == GateOpen(r) /\ (e \notin Reads => ~UnknownEffect(e))

\* A read is left to the check before execution, and so is a write the policy
\* denies, for the sake of its reason. A write that needs an approval pauses, with
\* a pending approval unless it was denied.
AuthorizedPhase(r, e, answered) ==
  IF e \in Reads THEN "checking"
  ELSE IF ~answered \/ ~Evaluates(r, e) THEN "over"
  ELSE IF e \in NeedApproval THEN "paused" ELSE "checking"

AuthorizeToolAction(t, r, e, answered) ==
  LET phase == AuthorizedPhase(r, e, answered) IN
  /\ crewCalls[t].phase = "none"
  /\ ActiveRunReference(r)
  /\ r \notin checkpointed
  /\ crewCalls' = [crewCalls EXCEPT ![t] =
       [NoCall EXCEPT !.phase = phase, !.run = r, !.subject = e,
                      !.asked = phase = "paused" /\ PolicyAllows(Gate(r, e))]]
  /\ UNCHANGED <<runtimeVars, providers, checkpointed>>

\* The owner lists or decides what the session says is pending.
ListApproval(t) ==
  /\ crewCalls[t].phase = "paused" /\ crewCalls[t].asked
  /\ RecordApproval(t, crewCalls[t].run, crewCalls[t].subject)
  /\ UNCHANGED <<sandboxes, alarm, sessionVars>>

DecisionArrives(t, decision) ==
  crewCalls' = [crewCalls EXCEPT ![t].asked = FALSE,
                                 ![t].phase = IF decision = "approved" THEN "checking" ELSE "over"]

\* The decision is recorded first and sent to the session after that; if it is
\* lost, the owner may decide the same again.
DecideApprovalAtSession(t, decision, delivered) ==
  /\ crewCalls[t].phase = "paused" /\ crewCalls[t].asked
  /\ DecideApproval(t, decision)
  /\ IF delivered /\ ActiveRunReference(crewCalls[t].run) THEN DecisionArrives(t, decision)
     ELSE UNCHANGED crewCalls
  /\ UNCHANGED <<sandboxes, alarm, providers, checkpointed>>

DecideAgain(t) ==
  /\ crewCalls[t].phase = "paused" /\ crewCalls[t].asked
  /\ approvals[t].decision \in {"approved", "rejected"} /\ approvals[t].ttl > 0
  /\ ActiveRunReference(crewCalls[t].run)
  /\ authority.agent = "active" /\ authority.connection = "active" /\ authority.grant = "active"
  /\ authority.revision = admissions[crewCalls[t].run].revision
  /\ DecisionArrives(t, approvals[t].decision)
  /\ UNCHANGED <<runtimeVars, providers, checkpointed>>

\* The evaluation leaves approvals aside: it must say what the grant says.
BeforeToolCall(t, answered) ==
  LET r == crewCalls[t].run  e == crewCalls[t].subject IN
  /\ t \in ToolCalls /\ crewCalls[t].phase = "checking"
  /\ Goes(t, IF /\ answered /\ ActiveRunReference(r)
                /\ Evaluates(r, e) /\ PolicyAllows(Gate(r, e)) THEN "reserving" ELSE "over")
  /\ UNCHANGED <<runtimeVars, providers, checkpointed>>

-----------------------------------------------------------------------------
(* #executeTool *)

ReserveArrives(t) ==
  /\ crewCalls[t].phase = "reserving"
  /\ ReserveBegin(t, crewCalls[t].run, crewCalls[t].subject)
  /\ UNCHANGED <<sandboxes, alarm, sessionVars>>

\* Without an answer, or with a permit that is not fresh, nothing is executed and
\* the reservation is left to its deadline.
ReserveAnswered(s, delivered) ==
  /\ ReserveCommit(s)
  /\ IF crewCalls[s.call].phase = "reserving"
     THEN Goes(s.call, IF delivered /\ StillReservable(s) THEN "permitted" ELSE "over")
     ELSE UNCHANGED crewCalls
  /\ UNCHANGED <<sandboxes, alarm, providers, checkpointed>>

\* Denied, or lost before it arrived.
ReserveDenied(t) ==
  /\ crewCalls[t].phase = "reserving"
  /\ ~\E s \in reserving : s.call = t
  /\ Goes(t, "over")
  /\ UNCHANGED <<runtimeVars, providers, checkpointed>>

\* What the session reports of a call whose dispatch it could not learn of: only
\* the owner's word that a remote MCP tool was not dispatched makes a write fail.
Undispatched(e) == IF e \in RemoteEffects THEN {"failed", Unproven(e)} ELSE {Unproven(e)}

\* resolveToolExecutionConnection, or the claim inside executeRemoteMcpTool: the
\* provider is called next, unless the connection does not verify, the arguments'
\* files cannot be staged, or the answer is lost.
DispatchCall(t) ==
  /\ crewCalls[t].phase = "permitted"
  /\ Dispatch(t)
  /\ \/ Goes(t, "calling") /\ providers' = [providers EXCEPT ![t] = "called"]
     \/ /\ Ends(t, Unproven(executions[t].effect)) /\ UNCHANGED providers
     \/ /\ executions[t].effect \notin RemoteEffects
        /\ Ends(t, "failed") /\ UNCHANGED providers
  /\ UNCHANGED <<sandboxes, alarm, checkpointed>>

\* Refused, or lost before it arrived. The owner says that it refused; of a remote
\* MCP tool that is enough to know that nothing was called.
DispatchRefused(t) ==
  /\ t \in ToolCalls /\ crewCalls[t].phase = "permitted"
  /\ \E outcome \in Undispatched(crewCalls[t].subject) : Ends(t, outcome)
  /\ UNCHANGED <<runtimeVars, providers, checkpointed>>

ProviderApplies(t) ==
  /\ providers[t] = "called"
  /\ providers' = [providers EXCEPT ![t] = "applied"]
  /\ UNCHANGED <<runtimeVars, crewCalls, checkpointed>>

\* Mutation: an error of the provider call means that the call failed.
ReturnsFailed(t) == IF providers[t] = "applied" THEN {"completed", "failed"} ELSE {"failed"}

\* An answer of the provider, an error, a timeout, or an output that is too large.
Returns(t) ==
  {Unproven(crewCalls[t].subject)} \cup (IF providers[t] = "applied" THEN {"completed"} ELSE {})

CallReturns(t) ==
  /\ t \in ToolCalls /\ crewCalls[t].phase = "calling"
  /\ \E outcome \in Returns(t) : Ends(t, outcome)
  /\ UNCHANGED <<runtimeVars, providers, checkpointed>>

\* The model is given the output only when the owner says that it has recorded the
\* completion.
CompletedPhase(t, delivered) ==
  IF delivered /\ crewCalls[t].outcome = "completed" THEN "answered" ELSE "over"

CompleteCall(t, delivered) ==
  /\ t \in ToolCalls /\ crewCalls[t].phase = "completing"
  /\ Complete(t, crewCalls[t].outcome, FALSE)
  /\ Goes(t, CompletedPhase(t, delivered))
  /\ UNCHANGED <<sandboxes, alarm, providers, checkpointed>>

\* The ledger has settled the call before, or the report is lost.
Unrecorded(t) == "over"

CompletionUnrecorded(t) ==
  /\ crewCalls[t].phase = "completing"
  /\ Goes(t, Unrecorded(t))
  /\ UNCHANGED <<runtimeVars, providers, checkpointed>>

-----------------------------------------------------------------------------
(* Runtime tools: #executeSandboxCode and #executePublicReadRuntimeTool *)

\* Both hooks look only at the input and the Run.
AuthorizeRuntimeTool(t, r, tool) ==
  /\ crewCalls[t].phase = "none"
  /\ ActiveRunReference(r)
  /\ r \notin checkpointed
  /\ crewCalls' = [crewCalls EXCEPT ![t] =
       [NoCall EXCEPT !.phase = "reserving", !.run = r, !.subject = tool]]
  /\ UNCHANGED <<runtimeVars, providers, checkpointed>>

ReserveRuntimeTool(t, delivered) ==
  /\ crewCalls[t].phase = "reserving"
  /\ RuntimeReserve(t, crewCalls[t].run, crewCalls[t].subject)
  /\ Goes(t, IF delivered THEN "permitted" ELSE "over")
  /\ UNCHANGED <<providers, checkpointed>>

\* A lost answer is an error that nobody catches: no completion is reported.
DispatchRuntimeTool(t, delivered) ==
  /\ crewCalls[t].phase = "permitted"
  /\ RuntimeDispatch(t, delivered)
  /\ Goes(t, IF delivered THEN "calling" ELSE "over")
  /\ UNCHANGED <<providers, checkpointed>>

RuntimeDispatchRefused(t, delivered) ==
  /\ t \in RuntimeCalls /\ crewCalls[t].phase = "permitted"
  /\ IF delivered THEN Ends(t, "failed") ELSE Goes(t, "over")
  /\ UNCHANGED <<runtimeVars, providers, checkpointed>>

\* Code whose output is too large is unknown; everything else that goes wrong failed.
RuntimeToolReturns(t) ==
  /\ t \in RuntimeCalls /\ crewCalls[t].phase = "calling"
  /\ \E outcome \in {"completed", "failed"} \cup
                    (IF crewCalls[t].subject = "sandbox" THEN {"unknown"} ELSE {}) : Ends(t, outcome)
  /\ UNCHANGED <<runtimeVars, providers, checkpointed>>

CompleteRuntimeTool(t, delivered) ==
  /\ t \in RuntimeCalls /\ crewCalls[t].phase = "completing"
  /\ RuntimeComplete(t, crewCalls[t].outcome, FALSE)
  /\ Goes(t, CompletedPhase(t, delivered))
  /\ UNCHANGED <<providers, checkpointed>>

-----------------------------------------------------------------------------
(* The turn *)

\* The last action of a Workflow stage, whose answer the session stores.
CheckpointStage(r) ==
  /\ ActiveRunReference(r)
  /\ checkpointed' = checkpointed \cup {r}
  /\ UNCHANGED <<runtimeVars, crewCalls, providers>>

SessionRestarts ==
  /\ crewCalls' = [t \in DOMAIN crewCalls |->
       IF crewCalls[t].phase \in {"none", "paused", "answered"} THEN crewCalls[t]
       ELSE [crewCalls[t] EXCEPT !.phase = "over"]]
  /\ crewCalls' # crewCalls
  /\ UNCHANGED <<runtimeVars, providers, checkpointed>>

\* The inbox learns of the end of a turn whose calls are over.
TurnAwaitsItsCalls ==
  \A r \in Runs : InFlight(r) => admissions'[r].inbox \in {admissions[r].inbox, "cancelled"}

ExternalStep ==
  \E t \in ToolCalls :
    \/ \E r \in Runs, e \in Effects, answered \in BOOLEAN : AuthorizeToolAction(t, r, e, answered)
    \/ ListApproval(t) \/ DecideAgain(t)
    \/ \E decision \in {"approved", "rejected"}, delivered \in BOOLEAN :
         DecideApprovalAtSession(t, decision, delivered)
    \/ \E answered \in BOOLEAN : BeforeToolCall(t, answered)
    \/ ReserveArrives(t) \/ ReserveDenied(t)
    \/ DispatchCall(t) \/ DispatchRefused(t) \/ ProviderApplies(t) \/ CallReturns(t)
    \/ \E delivered \in BOOLEAN : CompleteCall(t, delivered)

RuntimeStep ==
  \E t \in RuntimeCalls :
    \/ \E r \in Runs, tool \in Tools : AuthorizeRuntimeTool(t, r, tool)
    \/ \E delivered \in BOOLEAN :
         \/ ReserveRuntimeTool(t, delivered) \/ DispatchRuntimeTool(t, delivered)
         \/ RuntimeDispatchRefused(t, delivered) \/ CompleteRuntimeTool(t, delivered)
    \/ ReserveDenied(t) \/ RuntimeToolReturns(t)

SessionStep ==
  \/ ExternalStep
  \/ RuntimeStep
  \/ \E s \in reserving, delivered \in BOOLEAN : ReserveAnswered(s, delivered)
  \/ \E t \in ToolCalls \cup RuntimeCalls : CompletionUnrecorded(t)
  \/ \E r \in Runs : CheckpointStage(r)
  \/ SessionRestarts

\* The owner goes on as in RuntimeToolExecutions, without the calls of sessions.
OwnerStep ==
  /\ \/ AdmissionsNext /\ UNCHANGED <<reserving, sandboxes, alarm>> /\ TurnAwaitsItsCalls
     \/ \E t \in ToolCalls, resolution \in {"applied", "not_applied"} :
          Reconcile(t, resolution) /\ UNCHANGED <<sandboxes, alarm>>
     \/ \E r \in Runs, blocked \in BOOLEAN : InspectRun(r, blocked) /\ UNCHANGED <<sandboxes, alarm>>
     \/ SandboxNext \/ AlarmNext \/ RuntimeTick \/ RuntimeRestart
  /\ UNCHANGED sessionVars

SessionToolsInit ==
  /\ RuntimeInit
  /\ crewCalls = [t \in ToolCalls \cup RuntimeCalls |-> NoCall]
  /\ providers = [t \in ToolCalls |-> "idle"]
  /\ checkpointed = {}

SessionToolsNext == SessionStep \/ OwnerStep

SessionToolsSpec == SessionToolsInit /\ [][SessionToolsNext]_sessionToolsVars

-----------------------------------------------------------------------------
(* Properties *)

SessionToolsTypeOK ==
  /\ RuntimeTypeOK
  /\ crewCalls \in [ToolCalls \cup RuntimeCalls -> CrewCall]
  /\ providers \in [ToolCalls -> {"idle", "called", "applied"}]
  /\ checkpointed \subseteq Runs

\* A write the ledger calls failed was never sent to its provider, whichever of the
\* session, the alarm and an inspection settled it and whatever was lost; only the
\* owner's reconciliation may say otherwise. And the model is given an output only of
\* a call the ledger has settled, and settled as completed if the completion was in
\* time.
AnswerIsTrue ==
  /\ \A t \in ToolCalls :
       /\ executions[t].status = "failed" /\ executions[t].reconciliation = "none"
       /\ executions[t].effect \notin Reads
       => providers[t] = "idle"
  /\ \A t \in ToolCalls : crewCalls[t].phase = "answered" =>
       \/ executions[t].status \in {"completed", "deleted"}
       \/ executions[t].status \in {"unknown", "failed"} /\ executions[t].ttl < 0
  /\ \A t \in RuntimeCalls : crewCalls[t].phase = "answered" =>
       \/ runtimeExecutions[t].status \in {"completed", "deleted"}
       \/ runtimeExecutions[t].status \in {"unknown", "failed"} /\ runtimeExecutions[t].ttl < 0
=============================================================================
