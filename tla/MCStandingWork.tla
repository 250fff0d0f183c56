--------------------------- MODULE MCStandingWork ---------------------------
(***************************************************************************)
(* Small instances of the work that starts without the owner: the          *)
(* occurrences of a Schedule and the events of one trigger whose provider  *)
(* operations are answered. They share no state, so that a behaviour is    *)
(* one of one of them: "standingFocus" names it and never changes.         *)
(***************************************************************************)
EXTENDS ScheduleDispatch, EventTriggers

CONSTANT StandingFocuses

VARIABLE standingFocus

standingVars == <<standingFocus, scheduleVars, eventTriggerVars>>

FirstTrigger == CHOOSE t \in Triggers : TRUE

StandingInit ==
  /\ standingFocus \in StandingFocuses
  /\ ScheduleInit /\ EventTriggersInit

OneTriggerStep ==
  /\ EventTriggersNext
  /\ late' = {} /\ triggers'[FirstTrigger].attempts <= 1

StandingNext ==
  /\ UNCHANGED standingFocus
  /\ \/ standingFocus = "schedule" /\ ScheduleNext /\ UNCHANGED eventTriggerVars
     \/ standingFocus = "events" /\ OneTriggerStep /\ UNCHANGED scheduleVars

\* ScheduleFairness and EventTriggersFairness, each where it is in focus.
StandingFairness ==
  /\ WF_scheduleVars(standingFocus = "schedule" /\ Tick)
  /\ WF_scheduleVars(standingFocus = "schedule" /\ ClaimRecoverable)
  /\ WF_scheduleVars(standingFocus = "schedule" /\ DispatchStep)
  /\ WF_eventTriggerVars(standingFocus = "events" /\ EventAlarm(FirstTrigger))
  /\ \A e \in Events : WF_eventTriggerVars(standingFocus = "events" /\ EventDue(FirstTrigger, e))

StandingSpec == StandingInit /\ [][StandingNext]_standingVars /\ StandingFairness

\* The rows of Schedules and of Event triggers are well typed.
StandingTypeOK == ScheduleTypeOK /\ EventTriggersTypeOK

\* Every claimed occurrence of a Schedule, and every received event, is dispatched
\* or skipped in the end.
StandingWorkSettles == PendingSettles /\ PendingEventSettles
=============================================================================
