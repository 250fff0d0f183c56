----------------------------- MODULE MCAgentRuns -----------------------------
(***************************************************************************)
(* Small instances of what an Agent keeps of its Runs: the session of a    *)
(* Run, the owner's inbox and the directory of sessions. A behaviour is    *)
(* one of one of them, which "focus" names. Of the starts of the directory *)
(* "directory" tries the first two and "repeats" the first and the third,  *)
(* which is the first one again.                                           *)
(***************************************************************************)
EXTENDS AdmittedRuns, AgentInbox, SessionDirectory

CONSTANT Focuses

VARIABLE focus

agentRunsVars == <<focus, crew, inboxVars, directoryVars>>

MCStarts == <<[run |-> "a", continues |-> FALSE], [run |-> "b", continues |-> TRUE],
              [run |-> "a", continues |-> FALSE]>>

Tried == IF focus = "directory" THEN {1, 2} ELSE {1, 3}

InDirectory == focus \in {"directory", "repeats"}

AgentRunsInit ==
  /\ focus \in Focuses
  /\ AdmittedRunsInit /\ AgentInboxInit /\ SessionDirectoryInit

DirectoryStep ==
  /\ SessionDirectoryNext
  /\ \A a \in StartIds \ Tried : starts'[a].phase = "idle"

AgentRunsNext ==
  /\ UNCHANGED focus
  /\ \/ focus = "session" /\ AdmittedRunsNext /\ UNCHANGED <<inboxVars, directoryVars>>
     \/ focus = "inbox" /\ AgentInboxNext /\ UNCHANGED <<crew, directoryVars>>
     \/ InDirectory /\ DirectoryStep /\ UNCHANGED <<crew, inboxVars>>

\* The fairness of each part where it is in focus.
AgentRunsFairness ==
  /\ WF_crew(focus = "session" /\ RunTimePasses)
  /\ WF_crew(focus = "session" /\ \E aborts \in BOOLEAN : ExpireAdmittedRun(aborts))
  /\ WF_inboxVars(focus = "inbox" /\ AlarmReconciles)
  /\ \A r \in InboxRuns :
       /\ WF_inboxVars(focus = "inbox" /\ AlarmRepairs(r))
       /\ WF_inboxVars(focus = "inbox" /\ \E timer \in timers : timer.run = r /\ TimerFires(timer))
       /\ SF_inboxVars(focus = "inbox" /\ \E call \in sending :
            call.run = r /\ call.projection = outbox[r] /\ Answered(call))
  /\ \A r \in WorkflowRuns :
       /\ WF_directoryVars(InDirectory /\ ReadEnd(r, TRUE))
       /\ WF_directoryVars(InDirectory /\ SendEvent(r, TRUE))

AgentRunsSpec == AgentRunsInit /\ [][AgentRunsNext]_agentRunsVars

FairAgentRunsSpec == AgentRunsSpec /\ AgentRunsFairness

\* The session's record, the inbox and the directory are well typed.
AgentRunsTypeOK == AdmittedRunsTypeOK /\ AgentInboxTypeOK /\ SessionDirectoryTypeOK

\* Every Run of the session settles, its outcome reaches the inbox, and the end of
\* a stage reaches its Workflow.
AgentRunsSettle == EveryRunSettles /\ OutcomeReachesInbox /\ EndReachesWorkflow
=============================================================================
