-------------------------- MODULE ScheduleDispatch --------------------------
(***************************************************************************)
(* The dispatch of one Schedule of one Agent: the tables agent_schedules   *)
(* and agent_schedule_occurrences, the class AgentSchedules, and the part  *)
(* of the owner's alarm that turns a due occurrence into a Run.            *)
(*                                                                         *)
(* The alarm claims in one transaction and then awaits: the inspection of  *)
(* the previous Run, the start of the new one, and the record of it are    *)
(* three steps, with everything else, and a crash, possible in between.    *)
(* The platform never runs two alarms of an owner at the same time.        *)
(*                                                                         *)
(* Occurrences are numbered in the order of their claims; the number       *)
(* stands for the pair of revision and instant that names the Run. An      *)
(* instant is kept as the ticks that are left until it.                    *)
(***************************************************************************)
EXTENDS Integers, FiniteSets

CONSTANTS
  MaxOccurrences,   \* bound on the occurrences claimed
  MaxRevision,      \* bound on Schedule and Agent revisions
  MaxAttempts,      \* MAXIMUM_SCHEDULE_OCCURRENCE_ATTEMPTS
  RecoveryDelay,    \* SCHEDULE_OCCURRENCE_RECOVERY_DELAY_MS, in ticks
  Interval          \* intervalSeconds of the trigger, in ticks

ASSUME ScheduleAssumption ==
  /\ MaxOccurrences \in Nat /\ MaxRevision \in Nat \ {0} /\ MaxAttempts \in Nat \ {0}
  /\ RecoveryDelay \in Nat \ {0} /\ Interval \in Nat \ {0}

VARIABLES
  agentRevision,    \* the Agent's current revision
  schedule,         \* the row of agent_schedules, with its current revision's plan
  occurrences,      \* agent_schedule_occurrences
  runs,             \* the Run each occurrence's idempotency key names
  dispatch          \* the occurrence the running alarm dispatches, and its stage

scheduleVars == <<agentRevision, schedule, occurrences, runs, dispatch>>

Occurrences == 1..MaxOccurrences

Schedule ==
  [status : {"active", "paused"},
   revision : 1..MaxRevision,
   agentRevision : 1..MaxRevision,
   lastRun : 0..MaxOccurrences,    \* 0: no Run yet
   wait : 0..Interval,             \* ticks until nextRunAt
   late : 0..(Interval - 1)]       \* ticks since nextRunAt, modulo the interval

Occurrence ==
  [status : {"none", "pending", "dispatched", "skipped"},
   revision : 0..MaxRevision,
   attempts : 0..MaxAttempts,
   wait : 0..RecoveryDelay]        \* ticks until nextAttemptAt

\* An issued Run is admitted and not yet accepted by its session.
RunStates == {"none", "issued", "working", "ended", "expired"}

Idle == [occurrence |-> 0, stage |-> "idle"]

-----------------------------------------------------------------------------
(* claimDue *)

Pending == {o \in Occurrences : occurrences[o].status = "pending"}

Recoverable(o) ==
  /\ occurrences[o].status = "pending"
  /\ occurrences[o].wait = 0
  /\ schedule.status = "active"
  /\ schedule.revision = occurrences[o].revision

Retry(o) ==
  IF occurrences[o].attempts >= MaxAttempts
  THEN /\ occurrences' = [occurrences EXCEPT ![o].status = "skipped", ![o].wait = 0]
       /\ UNCHANGED dispatch
  ELSE /\ occurrences' = [occurrences EXCEPT ![o].attempts = @ + 1, ![o].wait = RecoveryDelay]
       /\ dispatch' = [occurrence |-> o, stage |-> "inspect"]

\* A pending occurrence whose recovery delay has passed comes first.
ClaimRecoverable ==
  /\ dispatch = Idle
  /\ \E o \in Occurrences : Recoverable(o) /\ Retry(o)
  /\ UNCHANGED <<agentRevision, schedule, runs>>

\* Mutation: a Schedule is due although an occurrence of it is pending.
Due == schedule.status = "active" /\ schedule.wait = 0 /\ Pending = {}

Stale == schedule.agentRevision # agentRevision

\* The next occurrence is the first one after now, however late the alarm is.
AfterClaim == [schedule EXCEPT !.wait = Interval - schedule.late, !.late = 0]

Unclaimed == {o \in Occurrences : occurrences[o].status = "none"}

ClaimDue ==
  /\ dispatch = Idle
  /\ \A o \in Occurrences : ~Recoverable(o)
  /\ Due
  /\ IF Stale
     THEN /\ schedule' = [schedule EXCEPT !.status = "paused", !.wait = 0, !.late = 0]
          /\ UNCHANGED <<occurrences, dispatch>>
     ELSE \E o \in Unclaimed :
            /\ \A other \in Unclaimed : o <= other
            /\ schedule' = AfterClaim
            /\ occurrences' = [occurrences EXCEPT ![o] =
                 [status |-> "pending", revision |-> schedule.revision, attempts |-> 1,
                  wait |-> RecoveryDelay]]
            /\ dispatch' = [occurrence |-> o, stage |-> "inspect"]
  /\ UNCHANGED <<agentRevision, runs>>

-----------------------------------------------------------------------------
(* #dispatchScheduledRun *)

Skip(o) ==
  /\ occurrences' = [occurrences EXCEPT ![o].status = "skipped", ![o].wait = 0]
  /\ dispatch' = Idle

\* The previous Run is inspected across the session's RPC, which may fail.
Inspect(answered) ==
  /\ dispatch.stage = "inspect"
  /\ LET previous == schedule.lastRun IN
     IF previous = 0 \/ (answered /\ runs[previous] \in {"ended", "expired"})
     THEN /\ dispatch' = [dispatch EXCEPT !.stage = "start"]
          /\ UNCHANGED occurrences
     ELSE Skip(dispatch.occurrence)
  /\ UNCHANGED <<agentRevision, schedule, runs>>

\* Whether create issues or reissues a permit for the Run.
Admissible(o) == runs[o] \in {"none", "issued"} /\ ~Stale

\* start with the occurrence's idempotency key answers ok, and so does a replay
\* of a Run that already works or has ended.
StartAccepted ==
  /\ dispatch.stage = "start"
  /\ LET o == dispatch.occurrence IN
     /\ Admissible(o) \/ runs[o] \in {"working", "ended", "expired"}
     /\ runs' = [runs EXCEPT ![o] = IF Admissible(o) THEN "working" ELSE @]
  /\ dispatch' = [dispatch EXCEPT !.stage = "record"]
  /\ UNCHANGED <<agentRevision, schedule, occurrences>>

\* start answers an error. The session may not have been reached (issued), or
\* have accepted the Run in an answer that was lost (working).
StartFailed(reached) ==
  /\ dispatch.stage = "start"
  /\ LET o == dispatch.occurrence IN
     /\ runs' = [runs EXCEPT ![o] =
          CASE Admissible(o) -> IF reached THEN "working" ELSE "issued"
            [] ~Admissible(o) /\ runs[o] = "issued" -> "expired"
            [] OTHER -> @]
     /\ Skip(o)
  /\ UNCHANGED <<agentRevision, schedule>>

\* start answers an error before anything was admitted: no capacity, no Brief.
StartDenied ==
  /\ dispatch.stage = "start"
  /\ runs[dispatch.occurrence] = "none"
  /\ Skip(dispatch.occurrence)
  /\ UNCHANGED <<agentRevision, schedule, runs>>

\* recordDispatch, or the cancellation of the Run when it answers FALSE.
Record ==
  /\ dispatch.stage = "record"
  /\ LET o == dispatch.occurrence IN
     IF /\ occurrences[o].status = "pending"
        /\ schedule.status = "active"
        /\ schedule.revision = occurrences[o].revision
     THEN /\ schedule' = [schedule EXCEPT !.lastRun = o]
          /\ occurrences' = [occurrences EXCEPT ![o].status = "dispatched", ![o].wait = 0]
          /\ dispatch' = Idle
          /\ UNCHANGED runs
     ELSE /\ runs' = [runs EXCEPT ![o] = IF @ = "working" THEN "ended" ELSE @]
          /\ Skip(o)
          /\ UNCHANGED schedule
  /\ UNCHANGED agentRevision

\* The dispatch throws, or the owner's object stops with it: the occurrence stays
\* pending, and the Run may or may not have been started by then.
Abandon(reached) ==
  /\ dispatch # Idle
  /\ dispatch' = Idle
  /\ runs' = IF dispatch.stage = "start" /\ reached /\ Admissible(dispatch.occurrence)
             THEN [runs EXCEPT ![dispatch.occurrence] = "working"] ELSE runs
  /\ UNCHANGED <<agentRevision, schedule, occurrences>>

-----------------------------------------------------------------------------
(* The owner, the Runs and the clock *)

\* Mutation: a new revision forgets the previous revision's Run.
ConfigureForgetful(status) ==
  /\ Pending = {}
  /\ schedule.revision < MaxRevision
  /\ schedule' = [schedule EXCEPT !.revision = @ + 1, !.status = status, !.lastRun = 0,
       !.agentRevision = agentRevision, !.late = 0,
       !.wait = IF status = "active" THEN Interval ELSE 0]
  /\ UNCHANGED <<agentRevision, occurrences, runs, dispatch>>

\* configure: a new revision, active or paused, bound to the current Agent
\* revision, unless an occurrence is pending (schedule_busy).
Configure(status) ==
  /\ Pending = {}
  /\ schedule.revision < MaxRevision
  /\ schedule' = [schedule EXCEPT !.revision = @ + 1, !.status = status,
       !.agentRevision = agentRevision, !.late = 0,
       !.wait = IF status = "active" THEN Interval ELSE 0]
  /\ UNCHANGED <<agentRevision, occurrences, runs, dispatch>>

UpdateAgent ==
  /\ agentRevision < MaxRevision
  /\ agentRevision' = agentRevision + 1
  /\ UNCHANGED <<schedule, occurrences, runs, dispatch>>

RunEnds(o) ==
  /\ runs[o] \in {"working", "issued"}
  /\ runs' = [runs EXCEPT ![o] = IF @ = "working" THEN "ended" ELSE "expired"]
  /\ UNCHANGED <<agentRevision, schedule, occurrences, dispatch>>

LaterSchedule ==
  IF schedule.status = "paused" THEN schedule
  ELSE IF schedule.wait > 0 THEN [schedule EXCEPT !.wait = @ - 1]
  ELSE [schedule EXCEPT !.late = (@ + 1) % Interval]

Tick ==
  /\ schedule' = LaterSchedule
  /\ occurrences' = [o \in Occurrences |->
       [occurrences[o] EXCEPT !.wait = IF @ > 0 THEN @ - 1 ELSE 0]]
  /\ UNCHANGED <<agentRevision, runs, dispatch>>

-----------------------------------------------------------------------------
(* The specification *)

ScheduleInit ==
  /\ agentRevision = 1
  /\ schedule = [status |-> "active", revision |-> 1, agentRevision |-> 1, lastRun |-> 0,
                 wait |-> Interval, late |-> 0]
  /\ occurrences = [o \in Occurrences |->
       [status |-> "none", revision |-> 0, attempts |-> 0, wait |-> 0]]
  /\ runs = [o \in Occurrences |-> "none"]
  /\ dispatch = Idle

DispatchStep ==
  \/ \E answered \in BOOLEAN : Inspect(answered)
  \/ StartAccepted
  \/ \E reached \in BOOLEAN : StartFailed(reached) \/ Abandon(reached)
  \/ StartDenied
  \/ Record

ScheduleNext ==
  \/ ClaimRecoverable
  \/ ClaimDue
  \/ DispatchStep
  \/ \E status \in {"active", "paused"} : Configure(status)
  \/ UpdateAgent
  \/ \E o \in Occurrences : RunEnds(o)
  \/ Tick

ScheduleSpec == ScheduleInit /\ [][ScheduleNext]_scheduleVars

\* The clock runs, a due alarm fires, and a dispatch goes on or is abandoned.
ScheduleFairness ==
  /\ WF_scheduleVars(Tick)
  /\ WF_scheduleVars(ClaimRecoverable)
  /\ WF_scheduleVars(DispatchStep)

FairScheduleSpec == ScheduleSpec /\ ScheduleFairness

-----------------------------------------------------------------------------
(* Properties *)

ScheduleTypeOK ==
  /\ agentRevision \in 1..MaxRevision
  /\ schedule \in Schedule
  /\ occurrences \in [Occurrences -> Occurrence]
  /\ runs \in [Occurrences -> RunStates]
  /\ dispatch \in [occurrence : 0..MaxOccurrences, stage : {"idle", "inspect", "start", "record"}]
  /\ dispatch.stage # "idle" => dispatch.occurrence \in Occurrences

\* However late, retried or interrupted its alarms are, a Schedule has at most one
\* occurrence whose admission is open, and it belongs to the current revision of an
\* active Schedule: the recovery finds no other, so it would be open for ever. And
\* Runs that the history shows as dispatched or pending never overlap.
OccurrencesInOrder ==
  /\ Cardinality(Pending) <= 1
  /\ \A o \in Pending :
       schedule.status = "active" /\ schedule.revision = occurrences[o].revision
  /\ Cardinality({o \in Occurrences :
       runs[o] = "working" /\ occurrences[o].status \in {"pending", "dispatched"}}) <= 1

\* Every claimed occurrence is dispatched or skipped in the end.
PendingSettles ==
  \A o \in Occurrences :
    occurrences[o].status = "pending" ~> occurrences[o].status \in {"dispatched", "skipped"}
=============================================================================
