----------------------------- MODULE AgentInbox -----------------------------
(***************************************************************************)
(* The owner's inbox and the ways its items are written: a Run's session   *)
(* projects what happened through an outbox with timers and retries, a     *)
(* cancellation is recorded by the owner itself, the alarm and inspections *)
(* correct a completed Run whose call stayed unresolved, and a schedule    *)
(* leaves a deferral. Items are pruned at a capacity and after retention.  *)
(*                                                                         *)
(* One outbox slot per Run holds the newest projection. Its delivery is a  *)
(* call to the owner's object: the request or the answer may be lost, a    *)
(* newer projection may take the slot meanwhile, and a timer carries the   *)
(* projection it was set for and puts it back into an empty slot.          *)
(***************************************************************************)
EXTENDS Integers, FiniteSets

CONSTANTS
  InboxRuns,      \* Runs with a session
  Triggered,      \* those an Event trigger started
  MaxItems,       \* MAXIMUM_STORED_AGENT_INBOX_ITEMS
  Retention,      \* how long an item is kept
  MaxMoment       \* bound on the clock

ASSUME AgentInboxAssumption ==
  /\ InboxRuns \subseteq Nat \ {0} /\ IsFiniteSet(InboxRuns) /\ Triggered \subseteq InboxRuns
  /\ MaxItems \in Nat \ {0} /\ Retention \in Nat \ {0} /\ MaxMoment \in Nat

VARIABLES
  moment,      \* the clock
  session,     \* what the session of each Run has come to
  outbox,      \* crewhelm:inbox-projection:<run>
  timers,      \* scheduled syncAgentInbox calls, each with its projection
  sending,     \* recordAgentInboxRun calls under way
  admission,   \* the owner's view of each Run
  execution,   \* an external call of the Run, as the owner stores it
  repairs,     \* Runs the alarm has expired a call of and not yet repaired
  items,       \* agent_inbox_items
  acknowledged \* agent_inbox_acknowledgements

inboxVars == <<moment, session, outbox, timers, sending, admission, execution, repairs,
               items, acknowledged>>

Deferral == 0                       \* the item of the one schedule
ItemIds == InboxRuns \cup {Deferral}
Kinds == {"action_required", "exception", "outcome", "deferred"}
NoItem == [kind |-> "none"]
NoProjection == [kind |-> "none"]

\* Two events of one Run are never of the same millisecond.
Projection(kind, status) == [kind |-> kind, status |-> status, at |-> moment + 1]
Projections ==
  [kind : {"action_required", "exception", "outcome"},
   status : {"running", "completed", "failed", "cancelled"}, at : 0..MaxMoment]
Calls == [run : InboxRuns, projection : Projections]
Items == [kind : Kinds, status : {"running", "completed", "failed", "cancelled", "none"},
          at : 0..MaxMoment]

AgentInboxInit ==
  /\ moment = 0
  /\ session = [r \in InboxRuns |-> "running"]
  /\ outbox = [r \in InboxRuns |-> NoProjection]
  /\ timers = {} /\ sending = {}
  /\ admission = [r \in InboxRuns |-> "redeemed"]
  /\ execution = [r \in InboxRuns |-> "none"]
  /\ repairs = {}
  /\ items = [i \in ItemIds |-> NoItem]
  /\ acknowledged = {}

NextMoment == moment < MaxMoment /\ moment' = moment + 1

----------------------------------------------------------------------------
(* The owner's side.                                                       *)

Stored(board) == {i \in ItemIds : board[i] # NoItem}

\* needsActionCondition and warningCondition. The deferral here waits for a
\* slot or a budget, which is only a warning.
NeedsAction(item) == item.kind \in {"action_required", "exception"}
Priority(item) == IF NeedsAction(item) THEN 2 ELSE IF item.kind = "deferred" THEN 1 ELSE 0

Before(board, i, j) ==
  \/ Priority(board[i]) > Priority(board[j])
  \/ /\ Priority(board[i]) = Priority(board[j])
     /\ \/ board[i].at > board[j].at
        \/ board[i].at = board[j].at /\ i > j

\* #cleanup and #pruneCapacity: what retention has run out for goes, then all
\* but the first MaxItems in the order of need and age.
Cleaned(board) ==
  [i \in ItemIds |->
     IF board[i] # NoItem /\ board[i].at + Retention <= moment THEN NoItem ELSE board[i]]
PrunedItems(board) ==
  [i \in ItemIds |->
     IF /\ i \in Stored(board)
        /\ Cardinality({j \in Stored(board) \ {i} : Before(board, j, i)}) >= MaxItems
       THEN NoItem ELSE board[i]]

Acceptable(r, event) ==
  admission[r] = "redeemed" \/ (admission[r] = "cancelled" /\ event.status = "cancelled")

\* A Run whose call stayed unresolved, or whose only call failed, has not completed.
\* "unknown" stands for both: evidence may settle the one, and need not.
Spoiled(status) == status = "unknown"

Told(r, event) ==
  IF event.status = "completed" /\ Spoiled(execution[r])
    THEN [event EXCEPT !.kind = "exception", !.status = "failed"] ELSE event

\* An item is replaced by a later event only.
StaleEventNever(r, event) == FALSE
StaleEvent(r, event) == items[r] # NoItem /\ items[r].at >= event.at

\* The item and the acknowledgement of its earlier version change together.
RecordRun(r, event) ==
  IF Acceptable(r, event) /\ ~StaleEvent(r, event)
    THEN /\ items' = PrunedItems(Cleaned([items EXCEPT ![r] = Told(r, event)]))
         /\ acknowledged' = {a \in acknowledged : a.item # r /\ items'[a.item] # NoItem}
    ELSE UNCHANGED <<items, acknowledged>>

\* The item of a completed Run becomes an exception, with the version it had.
RepairFailedRun(board, r) ==
  IF board[r] # NoItem /\ board[r].kind = "outcome" /\ board[r].status = "completed"
    THEN [board EXCEPT ![r].kind = "exception", ![r].status = "failed"] ELSE board

\* One exact version of an item that needs no decision.
Acknowledge(i, version) ==
  LET kept == Cleaned(items) IN
  /\ kept[i] # NoItem /\ kept[i].at = version /\ kept[i].kind # "action_required"
  /\ items' = kept
  /\ acknowledged' = {a \in acknowledged : kept[a.item] # NoItem} \cup {[item |-> i, version |-> version]}
  /\ UNCHANGED <<moment, session, outbox, timers, sending, admission, execution, repairs>>

\* A schedule's claim found no slot or budget; dispatched later, the item goes.
RecordDeferral ==
  /\ items' = PrunedItems([Cleaned(items) EXCEPT
       ![Deferral] = [kind |-> "deferred", status |-> "none", at |-> moment]])
  /\ acknowledged' = {a \in acknowledged : a.item # Deferral /\ items'[a.item] # NoItem}
  /\ UNCHANGED <<moment, session, outbox, timers, sending, admission, execution, repairs>>

ClearDeferral ==
  /\ items[Deferral] # NoItem
  /\ items' = [items EXCEPT ![Deferral] = NoItem]
  /\ acknowledged' = {a \in acknowledged : a.item # Deferral}
  /\ UNCHANGED <<moment, session, outbox, timers, sending, admission, execution, repairs>>

\* The one call of the Run that is followed here.
CallClaimed(r) ==
  /\ session[r] = "running" /\ execution[r] = "none" /\ admission[r] = "redeemed"
  /\ execution' = [execution EXCEPT ![r] = "reserved"]
  /\ UNCHANGED <<moment, session, outbox, timers, sending, admission, repairs, items, acknowledged>>

CallCompleted(r) ==
  /\ execution[r] = "reserved"
  /\ \E status \in {"resolved", "unknown"} : execution' = [execution EXCEPT ![r] = status]
  /\ session[r] = "running"
  /\ UNCHANGED <<moment, session, outbox, timers, sending, admission, repairs, items, acknowledged>>

\* A reserved call that nobody completes is expired with every other one, by
\* the alarm or by an inspection. Only calls of ended Runs are left to it here.
Expiring == {r \in InboxRuns : execution[r] = "reserved" /\ session[r] # "running"}
Reconciled == [r \in InboxRuns |-> IF r \in Expiring THEN "unknown" ELSE execution[r]]

AlarmReconciles ==
  /\ Expiring # {}
  /\ execution' = Reconciled
  /\ repairs' = repairs \cup Expiring
  /\ UNCHANGED <<moment, session, outbox, timers, sending, admission, items, acknowledged>>

AlarmRepairs(r) ==
  /\ r \in repairs
  /\ repairs' = repairs \ {r}
  /\ items' = RepairFailedRun(items, r)
  /\ acknowledged' = {a \in acknowledged : a.item # r \/ items'[r] = items[r]}
  /\ UNCHANGED <<moment, session, outbox, timers, sending, admission, execution>>

\* Inspecting one Run expires the calls of every Run and repairs its own item.
InspectRunItem(r) ==
  /\ admission[r] = "redeemed"
  /\ execution' = Reconciled
  /\ items' = IF Spoiled(execution'[r]) THEN RepairFailedRun(items, r) ELSE items
  /\ acknowledged' = {a \in acknowledged : a.item # r \/ items'[r] = items[r]}
  /\ UNCHANGED <<moment, session, outbox, timers, sending, admission, repairs>>

\* Independent evidence settles an unknown outcome.
ReconcileExecution(r) ==
  /\ execution[r] = "unknown"
  /\ execution' = [execution EXCEPT ![r] = "resolved"]
  /\ UNCHANGED <<moment, session, outbox, timers, sending, admission, repairs, items, acknowledged>>

\* The reference names no Event trigger, so for a Run that one started it does
\* not match the admission.
RecordCancellationOutcome(r) ==
  IF r \in Triggered THEN UNCHANGED <<items, acknowledged>>
  ELSE LET event == Projection("outcome", "cancelled") IN
       IF ~StaleEvent(r, event)
         THEN /\ items' = PrunedItems(Cleaned([items EXCEPT ![r] = event]))
              /\ acknowledged' = {a \in acknowledged : a.item # r /\ items'[a.item] # NoItem}
         ELSE UNCHANGED <<items, acknowledged>>

\* The session has stopped the Run; the outcome is recorded at the same moment.
CompleteCancellation(r) ==
  /\ admission[r] = "redeemed" /\ session[r] = "cancelled"
  /\ admission' = [admission EXCEPT ![r] = "cancelled"]
  /\ NextMoment
  /\ RecordCancellationOutcome(r)
  /\ UNCHANGED <<session, outbox, timers, sending, execution, repairs>>

----------------------------------------------------------------------------
(* The session's side.                                                     *)

\* #publishInboxProjection: the slot, and a timer that survives the isolate.
PublishInboxProjection(r, projection) ==
  /\ outbox' = [outbox EXCEPT ![r] = projection]
  /\ timers' = timers \cup {[run |-> r, projection |-> projection]}

ApprovalRequested(r) ==
  /\ session[r] = "running"
  /\ session' = [session EXCEPT ![r] = "waiting"]
  /\ NextMoment
  /\ PublishInboxProjection(r, Projection("action_required", "running"))
  /\ UNCHANGED <<sending, admission, execution, repairs, items, acknowledged>>

\* A decision continues the turn and projects nothing.
ApprovalDecided(r) ==
  /\ session[r] = "waiting"
  /\ session' = [session EXCEPT ![r] = "running"]
  /\ UNCHANGED <<moment, outbox, timers, sending, admission, execution, repairs, items, acknowledged>>

SessionTurnEnds(r, status) ==
  /\ session[r] = "running"
  /\ session' = [session EXCEPT ![r] = status]
  /\ NextMoment
  /\ PublishInboxProjection(r, Projection(IF status = "completed" THEN "outcome" ELSE "exception", status))
  /\ UNCHANGED <<sending, admission, execution, repairs, items, acknowledged>>

\* The session's part of a cancellation: a running turn reports its abort
\* through the callback, a Run that waits for an approval has no turn.
SessionCancels(r) ==
  /\ session[r] \in {"running", "waiting"}
  /\ session' = [session EXCEPT ![r] = "cancelled"]
  /\ NextMoment
  /\ IF session[r] = "running" THEN PublishInboxProjection(r, Projection("outcome", "cancelled"))
     ELSE UNCHANGED <<outbox, timers>>
  /\ UNCHANGED <<sending, admission, execution, repairs, items, acknowledged>>

\* syncAgentInbox: a timer whose slot was emptied puts its own projection back.
TimerFires(timer) ==
  /\ timer \in timers
  /\ timers' = timers \ {timer}
  /\ LET current == IF outbox[timer.run] = NoProjection THEN timer.projection ELSE outbox[timer.run]
     IN /\ outbox' = [outbox EXCEPT ![timer.run] = current]
        /\ sending' = sending \cup {[run |-> timer.run, projection |-> current]}
  /\ UNCHANGED <<moment, session, admission, execution, repairs, items, acknowledged>>

\* A publication and onStart deliver what the slot holds.
Deliver(r) ==
  /\ outbox[r] # NoProjection
  /\ sending' = sending \cup {[run |-> r, projection |-> outbox[r]]}
  /\ UNCHANGED <<moment, session, outbox, timers, admission, execution, repairs, items, acknowledged>>

\* An answer, a denial too, empties the slot if it still holds the projection.
\* The safety timer goes with the first delivery; a later one may still fire.
Answered(call) ==
  /\ call \in sending
  /\ RecordRun(call.run, call.projection)
  /\ sending' = sending \ {call}
  /\ outbox' = IF outbox[call.run] = call.projection
                 THEN [outbox EXCEPT ![call.run] = NoProjection] ELSE outbox
  /\ timers' \in {timers, timers \ {call}}
  /\ UNCHANGED <<moment, session, admission, execution, repairs>>

RetryAt(call) == timers \cup {call}

\* The request or its answer is lost, and the projection is scheduled again.
Lost(call, recorded) ==
  /\ call \in sending
  /\ IF recorded THEN RecordRun(call.run, call.projection) ELSE UNCHANGED <<items, acknowledged>>
  /\ sending' = sending \ {call}
  /\ timers' = RetryAt(call)
  /\ UNCHANGED <<moment, session, outbox, admission, execution, repairs>>

\* A restart forgets the calls under way; timers and the slot are stored, and
\* onStart sets a timer for every slot or delivers it at once (Deliver).
RestartSession ==
  /\ sending # {}
  /\ sending' = {}
  /\ timers' = timers \cup {[run |-> r, projection |-> outbox[r]] :
                             r \in {s \in InboxRuns : outbox[s] # NoProjection}}
  /\ UNCHANGED <<moment, session, outbox, admission, execution, repairs, items, acknowledged>>

MomentPasses ==
  /\ NextMoment
  /\ UNCHANGED <<session, outbox, timers, sending, admission, execution, repairs, items, acknowledged>>

AgentInboxNext ==
  \/ MomentPasses \/ RestartSession \/ RecordDeferral \/ ClearDeferral \/ AlarmReconciles
  \/ \E r \in InboxRuns :
       \/ ApprovalRequested(r) \/ ApprovalDecided(r) \/ SessionCancels(r) \/ CompleteCancellation(r)
       \/ \E status \in {"completed", "failed"} : SessionTurnEnds(r, status)
       \/ CallClaimed(r) \/ CallCompleted(r) \/ AlarmRepairs(r) \/ InspectRunItem(r)
       \/ ReconcileExecution(r) \/ Deliver(r)
  \/ \E timer \in timers : TimerFires(timer)
  \/ \E call \in sending : Answered(call) \/ \E recorded \in BOOLEAN : Lost(call, recorded)
  \/ \E i \in ItemIds, version \in 0..MaxMoment : Acknowledge(i, version)

\* Timers fire, the alarm runs, and of the calls of a Run that keep being sent
\* one is answered in the end.
AgentInboxFairness ==
  /\ WF_inboxVars(AlarmReconciles)
  /\ \A r \in InboxRuns :
       /\ WF_inboxVars(AlarmRepairs(r))
       /\ WF_inboxVars(\E timer \in timers : timer.run = r /\ TimerFires(timer))
       /\ SF_inboxVars(\E call \in sending :
                         call.run = r /\ call.projection = outbox[r] /\ Answered(call))

AgentInboxSpec == AgentInboxInit /\ [][AgentInboxNext]_inboxVars /\ AgentInboxFairness

----------------------------------------------------------------------------
(* Properties.                                                             *)

\* The inbox, its acknowledgements and the deliveries are of their types.
AgentInboxTypeOK ==
  /\ moment \in 0..MaxMoment
  /\ session \in [InboxRuns -> {"running", "waiting", "completed", "failed", "cancelled"}]
  /\ outbox \in [InboxRuns -> Projections \cup {NoProjection}]
  /\ timers \subseteq Calls /\ sending \subseteq Calls
  /\ admission \in [InboxRuns -> {"redeemed", "cancelled"}]
  /\ execution \in [InboxRuns -> {"none", "reserved", "unknown", "resolved"}]
  /\ repairs \subseteq InboxRuns
  /\ items \in [ItemIds -> Items \cup {NoItem}]
  /\ acknowledged \subseteq [item : ItemIds, version : 0..MaxMoment]

\* However deliveries are delayed, repeated and reordered, while a Run has an
\* item no earlier event takes the place of a later one (recordRun), and an
\* acknowledgement is never left on a version the item no longer has. Pruning to
\* the capacity never takes an item that needs the owner while one that needs
\* nobody is kept (#pruneCapacity).
InboxKeepsWhatMatters ==
  [][/\ \A r \in InboxRuns :
           items[r] # NoItem /\ items'[r] # NoItem => items'[r].at >= items[r].at
     /\ \A a \in acknowledged' : items'[a.item] # NoItem /\ items'[a.item].at = a.version
     /\ \A i \in ItemIds :
          /\ items[i] # NoItem /\ NeedsAction(items[i]) /\ items'[i] = NoItem
          /\ items[i].at + Retention > moment'
          => \A j \in ItemIds : items'[j] # NoItem => NeedsAction(items'[j])]_inboxVars

\* The end a session projected of its Run is delivered over lost calls, lost
\* answers and restarts: the item stops asking for a decision. (Pruned after
\* that, it may be brought back by a timer of the earlier projection.)
OutcomeReachesInbox ==
  \A r \in InboxRuns :
    outbox[r].kind \in {"outcome", "exception"}
      ~> \/ items[r] = NoItem \/ items[r].kind # "action_required" \/ admission[r] = "cancelled"

============================================================================
