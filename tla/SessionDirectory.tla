-------------------------- MODULE SessionDirectory --------------------------
(***************************************************************************)
(* The session directory of one Agent (CrewAgent): which CrewSession each  *)
(* Run is routed to, which Run holds a session, and the deletion of        *)
(* sessions by the owner and by expiry, with the calls to the CrewSession  *)
(* objects that may fail or be lost, and the delivery of a Workflow Run's  *)
(* end to its Workflow.                                                    *)
(*                                                                         *)
(* A handler is uninterrupted between two calls to another object. The     *)
(* owner may start one Run twice at the same time; each start carries a    *)
(* permit of its own and only the newest is verified (RunAdmissions). What *)
(* a CrewSession does with a Run it accepted is module AdmittedRuns.       *)
(***************************************************************************)
EXTENDS Integers, FiniteSets

CONSTANTS
  SessionRuns,     \* Runs
  Sessions,        \* session identifiers, each used once
  Starts,          \* calls of acceptRunAdmission: [run, continues]
  WorkflowRuns,    \* Runs of a Workflow's stage
  MaxBranch        \* bound on branch revisions

ASSUME SessionDirectoryAssumption ==
  /\ WorkflowRuns \subseteq SessionRuns /\ IsFiniteSet(Sessions) /\ MaxBranch \in Nat \ {0}
  /\ "none" \notin Sessions \cup SessionRuns /\ DOMAIN Starts \subseteq Nat \ {0}
  /\ \A a \in DOMAIN Starts : Starts[a] \in [run : SessionRuns, continues : BOOLEAN]

VARIABLES
  directory,   \* crewhelm:session:<session> with its deletion intent
  routes,      \* crewhelm:run-session:<run>
  crewSession, \* what each CrewSession holds of each Run
  starts,      \* the accepting calls under way
  permits,     \* the newest permit of each Run, by the start that carries it
  overdue,     \* Runs past their deadline
  events       \* delivery of the end of a Workflow Run

directoryVars == <<directory, routes, crewSession, starts, permits, overdue, events>>

NoRun == "none"
NoSession == [state |-> "none"]
NoRoute == [session |-> "none"]
StartIds == DOMAIN Starts
NotIssued == 0
Redeemed == -1

\* aged: availableUntil has passed. intent: who claimed the deletion.
DirectoryRecords ==
  [state : {"live", "deleting"}, active : SessionRuns \cup {NoRun}, branch : 1..MaxBranch,
   aged : BOOLEAN, intent : {"none", "owner", "expiry"}]
Routes == [session : Sessions, branch : 1..MaxBranch, previous : 0..MaxBranch]

SessionDirectoryInit ==
  /\ directory = [s \in Sessions |-> NoSession]
  /\ routes = [r \in SessionRuns |-> NoRoute]
  /\ crewSession = [s \in Sessions |-> [r \in SessionRuns |-> "none"]]
  /\ starts = [a \in StartIds |-> [phase |-> "idle", route |-> NoRoute, seen |-> 0]]
  /\ permits = [r \in SessionRuns |-> NotIssued]
  /\ overdue = {}
  /\ events = [r \in SessionRuns |-> "none"]

----------------------------------------------------------------------------
(* Shared parts.                                                           *)

Listed == {s \in Sessions : directory[s] # NoSession}
ExpiredIdle(s) ==
  s \in Listed /\ directory[s].state = "live" /\ directory[s].active = NoRun /\ directory[s].aged

\* inspectSessionRunState, null for a Run the CrewSession does not know.
RunEnded(s, r) == crewSession[s][r] = "ended"
RunUnknown(s, r) == crewSession[s][r] = "none"

\* #clearReconciledRun, over the record that was read before the call.
Cleared(s) == [directory EXCEPT ![s].active = NoRun]

\* #reconcileActiveRun: whether the Run that holds the session lets it go.
Reconcilable(s) ==
  LET r == directory[s].active IN
  r # NoRun =>
    RunEnded(s, r) \/ (RunUnknown(s, r) /\ routes[r] # NoRoute /\ r \in overdue)

\* #deleteDirectorySession and what the deleted CrewSession held.
Unrouted(s) == [r \in SessionRuns |-> IF routes[r].session = s THEN NoRoute ELSE routes[r]]
Emptied(s) == [crewSession EXCEPT ![s] = [r \in SessionRuns |-> "none"]]

----------------------------------------------------------------------------
(* acceptRunAdmission.                                                     *)

\* Until the Run is redeemed the owner issues a permit, which replaces the one
\* before. A continuation names the branch the caller last saw.
SendStart(a, seen) ==
  /\ starts[a].phase = "idle" /\ Starts[a].run \notin overdue
  /\ permits[Starts[a].run] # Redeemed
  /\ starts' = [starts EXCEPT ![a].phase = "sent", ![a].seen = seen]
  /\ permits' = [permits EXCEPT ![Starts[a].run] = a]
  /\ UNCHANGED <<directory, routes, crewSession, overdue, events>>

Accepting(a, route) == [starts EXCEPT ![a].phase = "accepting", ![a].route = route]
Returned(a) == [starts EXCEPT ![a].phase = "done"]

\* #prepareSession with a route that an earlier start of the Run left.
PrepareAgain(a) ==
  /\ starts[a].phase = "sent" /\ routes[Starts[a].run] # NoRoute
  /\ starts' = Accepting(a, routes[Starts[a].run])
  /\ UNCHANGED <<directory, routes, crewSession, permits, overdue, events>>

\* Expired sessions are deleted first, which calls their CrewSessions: the
\* route is not read again after that.
PrepareWaits(a) ==
  /\ starts[a].phase = "sent" /\ routes[Starts[a].run] = NoRoute
  /\ \E s \in Sessions : ExpiredIdle(s)
  /\ starts' = [starts EXCEPT ![a].phase = "cleaned"]
  /\ UNCHANGED <<directory, routes, crewSession, permits, overdue, events>>

Unprepared(a) ==
  \/ starts[a].phase = "cleaned"
  \/ /\ starts[a].phase = "sent" /\ routes[Starts[a].run] = NoRoute
     /\ ~\E s \in Sessions : ExpiredIdle(s)

\* A new session, of an identifier never used before.
NeverUsed(s) ==
  /\ directory[s] = NoSession /\ \A r \in SessionRuns : crewSession[s][r] = "none"
  /\ \A b \in StartIds : starts[b].route.session # s

PrepareNew(a, s) ==
  LET route == [session |-> s, branch |-> 1, previous |-> 0] IN
  /\ Unprepared(a) /\ ~Starts[a].continues /\ NeverUsed(s)
  /\ directory' = [directory EXCEPT ![s] =
       [state |-> "live", active |-> Starts[a].run, branch |-> 1, aged |-> FALSE, intent |-> "none"]]
  /\ routes' = [routes EXCEPT ![Starts[a].run] = route]
  /\ starts' = Accepting(a, route)
  /\ UNCHANGED <<crewSession, permits, overdue, events>>

\* The reservation of an existing session, with the branch the caller saw.
Unclaimed(record) == record.state = "live" /\ record.active = NoRun

PrepareContinuation(a, s) ==
  /\ Unprepared(a) /\ Starts[a].continues /\ s \in Listed
  /\ LET reconciled == IF Reconcilable(s) /\ directory[s].state = "live" THEN Cleared(s)[s] ELSE directory[s]
         route == [session |-> s, branch |-> reconciled.branch + 1, previous |-> reconciled.branch] IN
     /\ reconciled.branch < MaxBranch
     /\ IF ~reconciled.aged /\ Unclaimed(reconciled) /\ reconciled.branch = starts[a].seen
          THEN /\ directory' = [directory EXCEPT ![s] =
                    [reconciled EXCEPT !.active = Starts[a].run, !.branch = @ + 1]]
               /\ routes' = [routes EXCEPT ![Starts[a].run] = route]
               /\ starts' = Accepting(a, route)
          ELSE /\ directory' = [directory EXCEPT ![s] = reconciled]
               /\ starts' = Returned(a)
               /\ UNCHANGED routes
  /\ UNCHANGED <<crewSession, permits, overdue, events>>

\* The CrewSession asks the owner: only the newest permit verifies. Confirmed,
\* the Run is submitted; refused by Think, it is discarded later.
Accept(a, submitted) ==
  /\ starts[a].phase = "accepting"
  /\ LET r == Starts[a].run  s == starts[a].route.session IN
     /\ permits[r] = a /\ r \notin overdue /\ crewSession[s][r] \in {"none", "recorded"}
     /\ crewSession' = [crewSession EXCEPT ![s][r] = IF submitted THEN "running" ELSE "recorded"]
     /\ permits' = [permits EXCEPT ![r] = Redeemed]
     /\ starts' = IF submitted THEN Returned(a) ELSE [starts EXCEPT ![a].phase = "refused"]
  /\ UNCHANGED <<directory, routes, overdue, events>>

\* A denial of the owner, or a call that did not come back: the Run may have
\* been recorded without a confirmation, or have been accepted.
AcceptFails(a, reached) ==
  /\ starts[a].phase = "accepting"
  /\ LET r == Starts[a].run  s == starts[a].route.session IN
     IF reached # "none" /\ permits[r] = a /\ r \notin overdue /\ RunUnknown(s, r)
       THEN /\ crewSession' = [crewSession EXCEPT ![s][r] = reached]
            /\ permits' = IF reached = "running" THEN [permits EXCEPT ![r] = Redeemed] ELSE permits
       ELSE UNCHANGED <<crewSession, permits>>
  /\ starts' = [starts EXCEPT ![a].phase = "failed"]
  /\ UNCHANGED <<directory, routes, overdue, events>>

\* inspectSessionRunState after a failure, discardRejectedSessionRun after a
\* refusal; neither is tried again when its answer is lost.
InspectFailed(a, answered) ==
  /\ starts[a].phase \in {"failed", "refused"}
  /\ LET r == Starts[a].run  s == starts[a].route.session IN
     IF starts[a].phase = "failed"
       THEN /\ UNCHANGED crewSession
            /\ starts' = [starts EXCEPT ![a].phase =
                 IF answered /\ RunUnknown(s, r) THEN "rolling_back" ELSE "done"]
       ELSE LET discarded == crewSession[s][r] = "recorded" IN
            /\ crewSession' = IF discarded THEN [crewSession EXCEPT ![s][r] = "none"] ELSE crewSession
            /\ starts' = [starts EXCEPT ![a].phase =
                 IF answered /\ discarded THEN "rolling_back" ELSE "done"]
  /\ UNCHANGED <<directory, routes, permits, overdue, events>>

\* #rollbackPreparedSession: the session if the Run made it, else its branch.
Rollback(a) ==
  /\ starts[a].phase = "rolling_back"
  /\ LET r == Starts[a].run  route == starts[a].route  s == route.session IN
     IF s \notin Listed \/ directory[s].active # r THEN UNCHANGED <<directory, routes>>
     ELSE /\ directory' = IF route.previous = 0 THEN [directory EXCEPT ![s] = NoSession]
                          ELSE [directory EXCEPT ![s].active = NoRun, ![s].branch = route.previous]
          /\ routes' = [routes EXCEPT ![r] = NoRoute]
  /\ starts' = Returned(a)
  /\ UNCHANGED <<crewSession, permits, overdue, events>>

----------------------------------------------------------------------------
(* The end of a Run, and the deletion of a session.                        *)

RunEnds(s, r) ==
  /\ crewSession[s][r] = "running"
  /\ crewSession' = [crewSession EXCEPT ![s][r] = "ended"]
  /\ UNCHANGED <<directory, routes, starts, permits, overdue, events>>

\* completeSessionRun, which a CrewSession calls once and may fail to deliver.
CompleteSessionRun(r) ==
  /\ routes[r] # NoRoute
  /\ LET s == routes[r].session IN
     /\ RunEnded(s, r) /\ s \in Listed /\ directory[s].active = r
     /\ directory' = Cleared(s)
  /\ UNCHANGED <<routes, crewSession, starts, permits, overdue, events>>

DeadlinePasses(r) ==
  /\ r \notin overdue
  /\ overdue' = overdue \cup {r}
  /\ UNCHANGED <<directory, routes, crewSession, starts, permits, events>>

RetentionPasses(s) ==
  /\ s \in Listed /\ directory[s].state = "live" /\ ~directory[s].aged
  /\ directory' = [directory EXCEPT ![s].aged = TRUE]
  /\ UNCHANGED <<routes, crewSession, starts, permits, overdue, events>>

\* #releaseSessionRunForDeletion: past its deadline a Run is settled by the
\* CrewSession, which has to know it; before, it has to have ended.
ReleasableAlways(s) == TRUE

Releasable(s) ==
  LET r == directory[s].active IN
  r # NoRun =>
    IF routes[r] # NoRoute /\ r \in overdue THEN ~RunUnknown(s, r) ELSE Reconcilable(s)

\* deleteAgentSession up to the reservation: the active Run is let go.
ReserveDeletion(s) ==
  /\ s \in Listed /\ directory[s].state = "live" /\ ~ExpiredIdle(s)
  /\ Releasable(s)
  /\ LET r == directory[s].active IN
     crewSession' = IF r # NoRun /\ r \in overdue
                      THEN [crewSession EXCEPT ![s][r] = IF @ = "none" THEN @ ELSE "ended"] ELSE crewSession
  /\ directory' = [Cleared(s) EXCEPT ![s].state = "deleting", ![s].intent = "owner"]
  /\ UNCHANGED <<routes, starts, permits, overdue, events>>

\* The rest of it, repeated with the same idempotency key after a failure. The
\* routes stay until the receipt expires.
FinishDeletion(s, answered) ==
  /\ s \in Listed /\ directory[s].intent = "owner"
  /\ crewSession' = Emptied(s)
  /\ directory' = IF answered THEN [directory EXCEPT ![s] = NoSession] ELSE directory
  /\ UNCHANGED <<routes, starts, permits, overdue, events>>

\* #deleteExpiredSession: the claim, in one transaction.
ClaimExpired(s) ==
  /\ ExpiredIdle(s)
  /\ directory' = [directory EXCEPT ![s].state = "deleting", ![s].intent = "expiry"]
  /\ UNCHANGED <<routes, crewSession, starts, permits, overdue, events>>

\* The rest of it; the alarm retries what failed, a minute later.
DeleteExpired(s, answered) ==
  /\ s \in Listed /\ directory[s].intent = "expiry"
  /\ crewSession' = Emptied(s)
  /\ IF answered THEN /\ directory' = [directory EXCEPT ![s] = NoSession]
                      /\ routes' = Unrouted(s)
     ELSE UNCHANGED <<directory, routes>>
  /\ UNCHANGED <<starts, permits, overdue, events>>

\* The receipt of an owner's deletion expires, and its routes go.
ForgetReceipt(s) ==
  /\ directory[s] = NoSession /\ \E r \in SessionRuns : routes[r].session = s
  /\ routes' = Unrouted(s)
  /\ UNCHANGED <<directory, crewSession, starts, permits, overdue, events>>

----------------------------------------------------------------------------
(* The end of a stage's Run reaches its Workflow.                          *)

\* attachAgentTaskWorkflowRun sets a timer with the pending mark; both stay
\* until the event was sent or the Workflow was cancelled.
AttachRun(r) ==
  /\ r \in WorkflowRuns /\ events[r] = "none" /\ routes[r] # NoRoute
  /\ events' = [events EXCEPT ![r] = "pending"]
  /\ UNCHANGED <<directory, routes, crewSession, starts, permits, overdue>>

\* #deliverAgentWorkflowRunEvent, from a timer, a completion or onStart. A Run
\* that has not ended, or a session out of reach, is asked about again.
Rescheduled == "pending"

ReadEnd(r, answered) ==
  /\ events[r] = "pending" /\ routes[r] # NoRoute
  /\ events' = [events EXCEPT ![r] =
       IF answered /\ RunEnded(routes[r].session, r) THEN "known" ELSE Rescheduled]
  /\ UNCHANGED <<directory, routes, crewSession, starts, permits, overdue>>

\* What was stored is sent until it is taken.
SendEvent(r, answered) ==
  /\ events[r] = "known"
  /\ events' = IF answered THEN [events EXCEPT ![r] = "delivered"] ELSE events
  /\ UNCHANGED <<directory, routes, crewSession, starts, permits, overdue>>

\* cancelAgentTaskWorkflow and a failed runtime seal what is left.
SealDeliveries(r) ==
  /\ events[r] \in {"pending", "known"}
  /\ events' = [events EXCEPT ![r] = "delivered"]
  /\ UNCHANGED <<directory, routes, crewSession, starts, permits, overdue>>

SessionDirectoryNext ==
  \/ \E a \in StartIds :
       \/ \E seen \in 0..MaxBranch : SendStart(a, seen)
       \/ PrepareAgain(a) \/ PrepareWaits(a) \/ Rollback(a)
       \/ \E s \in Sessions : PrepareNew(a, s) \/ PrepareContinuation(a, s)
       \/ \E submitted \in BOOLEAN : Accept(a, submitted)
       \/ \E reached \in {"none", "recorded", "running"} : AcceptFails(a, reached)
       \/ \E answered \in BOOLEAN : InspectFailed(a, answered)
  \/ \E s \in Sessions :
       \/ \E r \in SessionRuns : RunEnds(s, r)
       \/ RetentionPasses(s) \/ ReserveDeletion(s) \/ ClaimExpired(s) \/ ForgetReceipt(s)
       \/ \E answered \in BOOLEAN : FinishDeletion(s, answered) \/ DeleteExpired(s, answered)
  \/ \E r \in SessionRuns :
       \/ CompleteSessionRun(r) \/ DeadlinePasses(r) \/ AttachRun(r) \/ SealDeliveries(r)
       \/ \E answered \in BOOLEAN : ReadEnd(r, answered) \/ SendEvent(r, answered)

\* An event that is pending is read and sent again until a call is answered.
SessionDirectoryFairness ==
  \A r \in WorkflowRuns :
    WF_directoryVars(ReadEnd(r, TRUE)) /\ WF_directoryVars(SendEvent(r, TRUE))

SessionDirectorySpec ==
  SessionDirectoryInit /\ [][SessionDirectoryNext]_directoryVars /\ SessionDirectoryFairness

----------------------------------------------------------------------------
(* Properties.                                                             *)

\* The directory, its routes and the calls under way are of their types.
SessionDirectoryTypeOK ==
  /\ directory \in [Sessions -> DirectoryRecords \cup {NoSession}]
  /\ routes \in [SessionRuns -> Routes \cup {NoRoute}]
  /\ crewSession \in [Sessions -> [SessionRuns -> {"none", "recorded", "running", "ended"}]]
  /\ starts \in [StartIds ->
       [phase : {"idle", "sent", "cleaned", "accepting", "failed", "refused", "rolling_back", "done"},
        route : Routes \cup {NoRoute}, seen : 0..MaxBranch]]
  /\ permits \in [SessionRuns -> StartIds \cup {NotIssued, Redeemed}]
  /\ overdue \subseteq SessionRuns
  /\ events \in [SessionRuns -> {"none", "pending", "known", "delivered"}]

\* The storage of a session goes only when no Run that the directory routes
\* there still runs.
NoRoutedRunLost ==
  [][\A s \in Sessions, r \in SessionRuns :
       crewSession[s][r] = "running" /\ crewSession'[s][r] = "none" => routes[r].session # s]_directoryVars

\* The end of a stage's Run reaches its Workflow or was sealed, over sessions
\* out of reach and events that are not taken, unless the route is gone.
EndReachesWorkflow ==
  \A r \in WorkflowRuns :
    events[r] = "pending" /\ routes[r] # NoRoute
      ~> \/ events[r] = "delivered" \/ routes[r] = NoRoute
         \/ ~\E s \in Sessions : RunEnded(s, r)
=============================================================================
