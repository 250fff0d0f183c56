---------------------------- MODULE AdmittedRuns ----------------------------
(***************************************************************************)
(* One admitted Run in the Durable Object of its CrewSession: the record,  *)
(* the submission to the Think framework, the model's turn, the structured *)
(* output, the durable terminal status and the proof that the Run is quiet *)
(* enough to delete the session's storage.                                 *)
(*                                                                         *)
(* A handler of the object runs without interruption between two awaits of *)
(* another object, of a model or of a tool, since awaits of its own        *)
(* storage keep other events out; such a stretch is one action. What is in *)
(* memory only (an accepting call, the turn, an approved execution, an     *)
(* output repair) is lost by a restart.                                    *)
(*                                                                         *)
(* External: Think, which runs the turn, reports it to onChatResponse and  *)
(* keeps submissions and messages, and the owner, whose answers to verify, *)
(* confirm and redeem are arbitrary here (module RunAdmissions).           *)
(***************************************************************************)
EXTENDS Integers

CONSTANTS
  Contracts,           \* kinds of output contract: a subset of {"text", "json"}
  MaxOutputRetries     \* STRUCTURED_OUTPUT_RETRY_LIMIT

ASSUME AdmittedRunsAssumption ==
  Contracts \subseteq {"text", "json"} /\ MaxOutputRetries \in Nat

VARIABLE crew          \* everything the session keeps of the Run

Terminals == {"completed", "failed", "cancelled"}

\* clock: 0 before deadlineAt, 1 before cleanupAt, 2 after it. message is what
\* #readRunOutput finds: an answer that satisfies the contract or not, or one
\* that waits for an approval. reported and deleting are history: an inspection
\* answered "completed", a deletion of the session has asked to settle the Run.
CrewRun ==
  [contract : Contracts, clock : 0..2,
   accepting : {"none", "verifying", "confirming", "resuming"},
   record : {"none", "stored", "cleaned"},
   submission : {"none", "running", "completed", "aborted", "error"},
   turn : {"none", "model", "callback"},
   action : {"none", "executing"},
   approval : BOOLEAN,
   branch : BOOLEAN,
   message : {"none", "pending", "good", "bad"},
   output : {"absent", "repairing", "valid", "invalid"},
   repair : {"none", "callback", "retry", "recover", "inspect"},
   retry : -1..MaxOutputRetries,
   blocked : BOOLEAN,
   terminal : {"none"} \cup Terminals,
   drained : BOOLEAN,
   restart : {"none", "this", "earlier"},
   storage : {"live", "settled", "deleted"},
   reported : BOOLEAN, deleting : BOOLEAN]

NoRetry == -1

Fresh(contract, clock) ==
  [contract |-> contract, clock |-> clock, accepting |-> "none", record |-> "none",
   submission |-> "none", turn |-> "none", action |-> "none", approval |-> FALSE,
   branch |-> FALSE, message |-> "none", output |-> "absent", repair |-> "none",
   retry |-> NoRetry, blocked |-> FALSE, terminal |-> "none", drained |-> FALSE,
   restart |-> "none", storage |-> "live", reported |-> FALSE,
   deleting |-> FALSE]

AdmittedRunsInit == \E contract \in Contracts : crew = Fresh(contract, 0)

----------------------------------------------------------------------------
(* The calls handlers share.                                               *)

Live(r) == r.record = "stored" /\ r.storage # "deleted"
Late(r) == r.clock >= 1
Json(r) == r.contract = "json"
Ended(r) == r.submission \in {"completed", "aborted", "error"}
Committed(r) == r.output \in {"valid", "invalid"}

\* The first proposal wins; every later one reads it.
CommitTerminal(r, status) ==
  IF r.terminal = "none" THEN [r EXCEPT !.terminal = status] ELSE r

DiscardBranch(r) == [r EXCEPT !.branch = FALSE, !.message = "none"]

\* The transaction that accepts an output: only before the deadline, without a
\* terminal status, over the state the caller saw.
CommitValid(r, expected) ==
  IF ~Late(r) /\ r.terminal = "none" /\ r.output = expected THEN [r EXCEPT !.output = "valid"]
  ELSE IF Committed(r) THEN r ELSE [r EXCEPT !.output = "invalid"]

DeadlineFailure(r) == IF Committed(r) THEN r ELSE [r EXCEPT !.output = "invalid"]

\* A repair in flight in this isolate is left alone, one that a restart
\* interrupted is given up. The repair prompt is a model call of its own: the
\* caller is suspended until RepairEnds.
Finalized(r, caller) ==
  IF r.output = "repairing"
    THEN IF r.repair # "none" THEN r ELSE [r EXCEPT !.output = "invalid"]
  ELSE IF Committed(r) \/ r.submission # "completed" \/ r.message \notin {"good", "bad"} THEN r
  ELSE IF r.message = "good" THEN CommitValid(r, "absent")
  ELSE IF Late(r) \/ r.terminal # "none" THEN [r EXCEPT !.output = "invalid"]
  ELSE [r EXCEPT !.output = "repairing", !.repair = caller]

\* Mutation: the retries of a structured output are not counted against a limit.
ScheduleRetryForever(r, attempt) == IF Late(r) THEN [r EXCEPT !.retry = NoRetry] ELSE [r EXCEPT !.retry = attempt]

ScheduleRetry(r, attempt) ==
  IF attempt > MaxOutputRetries \/ Late(r) THEN [r EXCEPT !.retry = NoRetry]
  ELSE [r EXCEPT !.retry = attempt]

\* Commits the status together with its inbox projection (module AgentInbox),
\* without a pending approval.
Publish(r, framework, output) ==
  LET derived == IF output = "invalid" \/ (framework = "completed" /\ r.blocked) THEN "failed"
                 ELSE IF framework = "error" THEN "failed" ELSE framework
      committed == CommitTerminal(r, derived)
  IN IF committed.terminal = "cancelled" THEN DiscardBranch(committed) ELSE committed

\* Think reports an aborted submission as a cancelled response.
Framework(r) == IF r.submission = "aborted" THEN "cancelled" ELSE r.submission

\* The turn of an aborted request unwinds later, in memory.
Aborted(r) == [r EXCEPT !.submission = "aborted"]

----------------------------------------------------------------------------
(* Acceptance.                                                             *)

\* The owner's permit lives 30 seconds; a cancelled Run is not redeemed again.
AcceptRunAdmission ==
  /\ crew.storage = "live" /\ crew.accepting = "none" /\ crew.clock = 0
  /\ crew.record # "cleaned" /\ crew.terminal # "cancelled"
  /\ crew' = [crew EXCEPT !.accepting = IF crew.record = "none" THEN "verifying" ELSE "confirming"]

VerifyAnswered(ok) ==
  /\ crew.accepting = "verifying"
  /\ crew' = IF ok THEN [crew EXCEPT !.record = "stored", !.accepting = "confirming"]
             ELSE [crew EXCEPT !.accepting = "none"]

ResumeRunAdmission ==
  /\ Live(crew) /\ crew.accepting = "none" /\ crew.terminal # "cancelled"
  /\ crew' = [crew EXCEPT !.accepting = "resuming"]

\* #submitAdmittedRun with the record read before the await. The message is
\* appended before the submission, which Think may refuse; a Run is submitted
\* once however often it is asked for.
SubmitAdmittedRun(ok, submitted) ==
  /\ crew.accepting \in {"confirming", "resuming"}
  /\ LET answered == [crew EXCEPT !.accepting = "none"]
         appended == [answered EXCEPT !.branch = TRUE] IN
     crew' = IF ~ok \/ Late(crew) THEN answered
             ELSE IF submitted /\ crew.submission = "none"
               THEN [appended EXCEPT !.submission = "running", !.turn = "model"]
             ELSE appended

\* The directory could not start the Run; see module SessionDirectory.
DiscardRejectedSessionRun ==
  /\ Live(crew) /\ crew.submission = "none"
  /\ crew' = [DiscardBranch(crew) EXCEPT !.record = "none", !.terminal = "none"]

----------------------------------------------------------------------------
(* The turn.                                                               *)

\* Think stores the answer and the status of the submission before it calls
\* onChatResponse. An aborted or failed turn may leave an answer behind too.
TurnEnds(status, message, blocked) ==
  /\ crew.turn = "model"
  /\ crew.submission = "running" => status \in {"completed", "error"}
  /\ crew.submission # "running" => status = crew.submission
  /\ message = "pending" => status = "completed"
  /\ crew' = [crew EXCEPT !.turn = "callback", !.submission = status, !.message = message,
                          !.branch = @ \/ message # "none", !.approval = (message = "pending"),
                          !.blocked = blocked]

Drained(r) == [r EXCEPT !.turn = "none", !.drained = TRUE]

OutputPending(r) == r.output \in {"absent", "repairing"}

\* onChatResponse. The output is finalised unless an approval is pending or the
\* Run is cancelled; without one yet, a retry is scheduled instead.
ChatResponse ==
  /\ crew.turn = "callback" /\ crew.repair # "callback"
  /\ crew' =
       IF ~Live(crew) THEN [crew EXCEPT !.turn = "none"]
       ELSE IF crew.approval THEN Drained(crew)
       ELSE IF crew.submission = "completed" /\ Json(crew) /\ crew.terminal # "cancelled"
         THEN LET final == Finalized(crew, "callback") IN
              IF final.repair = "callback" THEN final
              ELSE IF OutputPending(final) THEN Drained(ScheduleRetry(final, 0))
              ELSE Drained(Publish(final, "completed", final.output))
       ELSE Drained(Publish(crew, Framework(crew), "absent"))

RetryStructuredOutput ==
  /\ crew.retry # NoRetry /\ crew.repair # "retry"
  /\ LET final == Finalized(crew, "retry") IN
     crew' =
       IF ~Live(crew) \/ (crew.output = "absent" /\ Late(crew)) \/ crew.submission # "completed"
           \/ crew.approval
         THEN [crew EXCEPT !.retry = NoRetry]
       ELSE IF final.repair = "retry" THEN final
       ELSE IF OutputPending(final) THEN ScheduleRetry(final, crew.retry + 1)
       ELSE [Publish(final, "completed", final.output) EXCEPT !.retry = NoRetry]

\* The rest of #finalizeStructuredRunOutput and of the caller it suspended. The
\* abort signal of the model call and the schedule that woke it end it long
\* before the record is cleaned.
RepairEnds(ok) ==
  /\ crew.repair # "none"
  /\ LET repaired == [(IF ~ok THEN [crew EXCEPT !.output = "invalid"]
                       ELSE IF Late(crew) THEN DeadlineFailure(crew)
                       ELSE CommitValid(crew, "repairing")) EXCEPT !.repair = "none"]
         published == Publish(repaired, "completed", repaired.output)
     IN crew' = CASE crew.repair = "callback" -> Drained(published)
                  [] crew.repair = "retry" -> [published EXCEPT !.retry = NoRetry]
                  [] crew.repair = "recover" -> [published EXCEPT !.drained = TRUE]
                  [] crew.repair = "inspect" -> repaired

\* decideAdmittedRunToolApproval: Think executes the approved action inside the
\* call, in an isolate that the submission's turn has left. The owner redeems
\* no decision about a cancelled Run.
DecideApproval ==
  /\ Live(crew) /\ crew.approval /\ crew.message = "pending" /\ ~Late(crew)
  /\ crew.action = "none" /\ crew.turn = "none" /\ crew.terminal # "cancelled"
  /\ crew' = [crew EXCEPT !.action = "executing"]

\* The continuation has its own request id, so its onChatResponse publishes
\* nothing; an inspection or the deadline settles the Run.
DecisionEnds(message) ==
  /\ crew.action = "executing"
  /\ crew' = [crew EXCEPT !.action = "none", !.approval = FALSE,
                          !.message = IF crew.branch THEN message ELSE "none"]

----------------------------------------------------------------------------
(* Inspection, cancellation and the two schedules of a record.             *)

\* inspectAdmittedRun, the owner's view.
InspectAdmittedRun ==
  /\ Live(crew) /\ crew.repair # "inspect"
  /\ LET final == IF Json(crew) /\ crew.terminal # "cancelled" /\ crew.submission # "none"
                  THEN Finalized(crew, "inspect") ELSE crew
         pending == IF Json(crew) THEN OutputPending(final) ELSE crew.message = "pending"
         status == IF final.terminal # "none" THEN final.terminal
                   ELSE IF final.submission = "completed" /\ ~pending /\ ~crew.blocked
                        /\ final.output # "invalid" THEN "completed" ELSE "other"
     IN crew' = IF final.repair = "inspect" THEN final
                ELSE [final EXCEPT !.reported = @ \/ status = "completed"]

\* inspectSessionRunState, the directory's view: a cancelled Run is quarantined
\* until its submission ended or its deadline passed.
Quarantined(r) == r.terminal = "cancelled" /\ ~Ended(r) /\ ~Late(r)

InspectSessionRunState ==
  /\ Live(crew) /\ crew.repair # "inspect"
  /\ crew' = IF crew.terminal = "cancelled"
               THEN IF Quarantined(crew) THEN crew ELSE DiscardBranch(crew)
             ELSE IF crew.terminal = "none" /\ crew.submission # "none" /\ Json(crew)
               THEN Finalized(crew, "inspect")
             ELSE crew

Waiting(r) == r.submission = "completed" /\ r.approval
CancellableAlways(r) == TRUE
Cancellable(r) == ~Ended(r) \/ Waiting(r)

\* Think may be unable to abort a submission whose turn a restart has lost.
CancelAdmittedRun(aborts) ==
  /\ Live(crew) /\ Cancellable(crew)
  /\ crew.turn = "model" => aborts
  /\ LET fenced == CommitTerminal(crew, "cancelled")
         silenced == [fenced EXCEPT !.approval = FALSE] IN
     crew' =
       IF fenced.terminal # "cancelled" THEN crew
       ELSE IF crew.submission = "none" THEN IF Late(crew) THEN DiscardBranch(silenced) ELSE silenced
       ELSE IF Waiting(crew) THEN DiscardBranch(silenced)
       ELSE IF aborts THEN DiscardBranch(Aborted(silenced))
       ELSE silenced

ExpireEndedIgnored(r) == r

\* expireAdmittedRun for a submission that ended without a terminal status.
ExpireEnded(r) ==
  LET silenced == [r EXCEPT !.approval = FALSE] IN
  IF Json(r)
    THEN LET final == IF Waiting(r) \/ r.submission # "completed" THEN silenced
                      ELSE DeadlineFailure(silenced)
         IN Publish(final, IF Waiting(r) THEN "cancelled" ELSE Framework(r),
                    IF r.submission = "completed" /\ ~Waiting(r) THEN final.output ELSE "absent")
    ELSE Publish(silenced, IF Waiting(r) \/ r.message = "pending" THEN "cancelled"
                           ELSE Framework(r), "absent")

ExpireAdmittedRun(aborts) ==
  /\ Live(crew) /\ Late(crew)
  /\ crew.turn = "model" => aborts
  /\ crew' =
       IF crew.terminal # "none"
         THEN IF crew.terminal = "cancelled" THEN DiscardBranch(crew) ELSE crew
       ELSE IF crew.submission = "none" THEN CommitTerminal(crew, "failed")
       ELSE IF Ended(crew) THEN ExpireEnded(crew)
       ELSE DiscardBranch(IF aborts THEN Aborted(CommitTerminal(crew, "cancelled"))
                          ELSE CommitTerminal(crew, "cancelled"))

\* The messages of a session outlive the record of the Run.
CleanupAdmittedRun ==
  /\ Live(crew) /\ crew.clock = 2 /\ crew.repair = "none"
  /\ crew' = [Fresh(crew.contract, 2) EXCEPT
                !.record = "cleaned", !.branch = crew.branch, !.message = crew.message,
                !.turn = crew.turn, !.action = crew.action, !.storage = crew.storage,
                !.accepting = crew.accepting]

----------------------------------------------------------------------------
(* Deletion of the session.                                                *)

RestartRequested(r) == r.restart # "none"

\* The intent to restart must have been written by another isolate.
RestartProven(r) == r.restart = "earlier"

\* What a restart of the isolate leaves: ctx.abort, a crash or an update.
Restarted(r) ==
  [r EXCEPT !.turn = "none", !.action = "none", !.repair = "none", !.accepting = "none",
            !.restart = IF @ = "this" THEN "earlier" ELSE @]

\* settleExpiredSessionRunForDeletion; storage is "settled" once it answers TRUE.
SettleExpiredSessionRun(aborts) ==
  /\ Live(crew) /\ Late(crew)
  /\ crew.turn = "model" => aborts
  /\ LET fenced == [CommitTerminal(crew, "cancelled") EXCEPT !.deleting = TRUE]
         tried == IF ~Ended(crew) /\ aborts /\ crew.submission # "none" THEN Aborted(fenced)
                  ELSE fenced
         settled == [tried EXCEPT !.drained = TRUE, !.storage = "settled"]
     IN crew' =
          IF ~Ended(tried) THEN tried
          ELSE IF ~crew.drained /\ ~RestartProven(crew)
            THEN IF crew.restart = "none" THEN [tried EXCEPT !.restart = "this"]
                 ELSE Restarted(tried)
          ELSE IF tried.terminal = "cancelled"
            THEN DiscardBranch([settled EXCEPT !.approval = FALSE])
          ELSE settled

DeleteSessionStorage ==
  /\ crew.storage = "settled"
  /\ crew' = [Fresh(crew.contract, crew.clock) EXCEPT
                !.storage = "deleted", !.turn = crew.turn, !.action = crew.action,
                !.repair = crew.repair, !.accepting = crew.accepting]

----------------------------------------------------------------------------
(* Restarts and time.                                                      *)

\* onStart runs before anything else in the new isolate, or, when a call wakes
\* the object, not at all. Before it, Think recovers a submission whose turn was
\* lost in a way of its own.
OnStart(r) ==
  LET final == Finalized(r, "recover")
      acknowledged(s) == IF Ended(s) THEN [s EXCEPT !.drained = TRUE] ELSE s
  IN IF ~Live(r) THEN r
     ELSE IF ~Json(r) \/ r.submission # "completed" \/ r.approval THEN acknowledged(r)
     ELSE IF final.repair = "recover" THEN final
     ELSE IF OutputPending(final) THEN acknowledged(ScheduleRetry(final, 0))
     ELSE acknowledged(Publish(final, "completed", final.output))

RestartIsolate(hook, recovered) ==
  LET woken == [Restarted(crew) EXCEPT !.submission = recovered] IN
  /\ recovered = crew.submission \/ (crew.submission = "running" /\ recovered = "error" /\ hook)
  /\ crew' = IF hook THEN OnStart(woken) ELSE woken

\* A turn that was lost may be continued from its stored messages.
ContinueTurn ==
  /\ Live(crew) /\ crew.submission = "running" /\ crew.turn = "none" /\ ~Late(crew)
  /\ crew' = [crew EXCEPT !.turn = "model"]

\* The turn stalls at the deadline at the latest; the retention is an hour or
\* more, so nothing in memory survives until the clean-up.
RunTimePasses ==
  /\ crew.record # "none" /\ crew.clock < 2
  /\ crew.clock = 1 => crew.turn = "none" /\ crew.repair = "none" /\ crew.action = "none"
  /\ crew' = [crew EXCEPT !.clock = @ + 1]

----------------------------------------------------------------------------
AdmittedRunsNext ==
  \/ AcceptRunAdmission \/ ResumeRunAdmission \/ DiscardRejectedSessionRun
  \/ \E ok \in BOOLEAN : VerifyAnswered(ok)
  \/ \E ok, submitted \in BOOLEAN : SubmitAdmittedRun(ok, submitted)
  \/ \E status \in {"completed", "aborted", "error"}, message \in {"none", "pending", "good", "bad"},
        blocked \in BOOLEAN : TurnEnds(status, message, blocked)
  \/ ChatResponse \/ RetryStructuredOutput
  \/ \E ok \in BOOLEAN : RepairEnds(ok)
  \/ DecideApproval
  \/ \E message \in {"good", "bad"} : DecisionEnds(message)
  \/ InspectAdmittedRun \/ InspectSessionRunState
  \/ \E aborts \in BOOLEAN : CancelAdmittedRun(aborts)
  \/ \E aborts \in BOOLEAN : ExpireAdmittedRun(aborts)
  \/ CleanupAdmittedRun
  \/ \E aborts \in BOOLEAN : SettleExpiredSessionRun(aborts)
  \/ DeleteSessionStorage
  \/ \E hook \in BOOLEAN, recovered \in {"none", "running", "completed", "aborted", "error"} :
       RestartIsolate(hook, recovered)
  \/ ContinueTurn \/ RunTimePasses

\* Time passes and the schedule of the deadline is a durable row of the object.
AdmittedRunsFairness ==
  /\ WF_crew(RunTimePasses)
  /\ WF_crew(\E aborts \in BOOLEAN : ExpireAdmittedRun(aborts))

AdmittedRunsSpec == AdmittedRunsInit /\ [][AdmittedRunsNext]_crew /\ AdmittedRunsFairness

----------------------------------------------------------------------------
AdmittedRunsTypeOK == crew \in CrewRun

\* The durable status of a Run with a JSON contract says "completed" only over a
\* validated output, whichever of the callback, a retry, a recovery, a repair and
\* the deadline commits it. Once the owner was told that a Run completed, no late
\* cancellation, retry or deadline makes it anything else; only a deletion of its
\* session may.
CompletedIsValidAndStands ==
  /\ Json(crew) /\ crew.terminal = "completed" => crew.output = "valid"
  /\ crew.reported /\ ~crew.deleting => crew.terminal \in {"none", "completed"}

\* The session's storage is given up for deletion only when the turn of the
\* submission and its callback are gone from memory, in every order of aborts,
\* restarts and repeated requests.
TurnDrainedBeforeDeletion ==
  crew.storage # "live" => crew.turn = "none"

\* Every stored Run gets a terminal status or is removed: the deadline commits
\* one whatever was lost (a submission, a turn, its callback, a repair).
EveryRunSettles ==
  [](Live(crew) => <>(crew.terminal # "none" \/ ~Live(crew)))
=============================================================================
