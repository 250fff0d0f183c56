---------------------------- MODULE EventTriggers ----------------------------
(***************************************************************************)
(* Event triggers of one Agent on one source of one connection: the tables *)
(* agent_event_triggers, their revisions and occurrences, the class        *)
(* AgentEventTriggers, the provider's trigger instance it manages, and the *)
(* part of the owner's alarm that turns a received event into a Run.       *)
(*                                                                         *)
(* A lifecycle request writes the operation it wants into the row; a       *)
(* recovery, asked for by the request, by its replay or by the alarm, then *)
(* calls the provider and finalises the row. The call is in three steps:   *)
(* it is sent, the provider acts, and the answer is used. It may fail      *)
(* before or after the provider acted, and what was sent may land late.    *)
(* The lease that keeps a second recovery of the trigger out is in memory  *)
(* and ends with the call.                                                 *)
(*                                                                         *)
(* Agent, connection, Briefs and the size of an event are the boolean      *)
(* inputs of the steps that look at them. An instant is due or later.      *)
(***************************************************************************)
EXTENDS Integers, FiniteSets, FiniteSetsExt

CONSTANTS
  Triggers,               \* ids of Event triggers, all of one source
  Events,                 \* provider event ids, numbers in the order of occurredAt
  MaxTriggerRevision,     \* bound on the revisions of a trigger
  MaxInstances,           \* bound on the instances the provider creates
  MaxOperationAttempts,   \* MAXIMUM_PROVIDER_OPERATION_ATTEMPTS
  MaxReplays,             \* bound on the attempts an owner asks for beyond these
  MaxEventAttempts,       \* MAXIMUM_EVENT_TRIGGER_OCCURRENCE_ATTEMPTS
  MaxPendingEvents,       \* MAXIMUM_PENDING_EVENT_TRIGGER_OCCURRENCES
  MaxRetainedEvents       \* MAXIMUM_RETAINED_AGENT_EVENT_TRIGGER_OCCURRENCES

ASSUME EventTriggersAssumption ==
  /\ Events \subseteq Nat /\ 0 \notin Events
  /\ {MaxTriggerRevision, MaxOperationAttempts, MaxEventAttempts} \subseteq Nat \ {0}
  /\ {MaxInstances, MaxReplays, MaxPendingEvents, MaxRetainedEvents} \subseteq Nat

VARIABLES
  triggers,        \* agent_event_triggers
  updating,        \* the revision an update has read and not yet replaced
  instance,        \* the provider's instance of the source, how many it made, and
                   \* whether this one came after its trigger's own was known
  calls,           \* the recovery that holds the lease of each trigger
  late,            \* requests that were given up and may still land
  received,        \* agent_event_trigger_occurrences
  eventRuns,       \* the Run that a trigger, revision and event name
  eventDispatch    \* the occurrence the alarm dispatches for each trigger

operationVars == <<triggers, updating, instance, calls, late>>
eventVars == <<received, eventRuns, eventDispatch>>
eventTriggerVars == <<operationVars, eventVars>>

TriggerRevisions == 1..MaxTriggerRevision

Trigger ==
  [status : {"none", "active", "paused", "deleted"},
   revision : 0..MaxTriggerRevision,
   operation : {"stable", "creating", "pausing", "resuming", "deleting"},
   attempts : 0..(MaxOperationAttempts + MaxReplays),
   retry : {"due", "later", "never"},          \* providerRetryAt
   id : 0..MaxInstances,                       \* providerTriggerId, 0 for null
   lastRun : {<<>>} \cup (TriggerRevisions \X Events)]

ProviderInstance == [id : 0..MaxInstances, enabled : BOOLEAN, made : 0..MaxInstances,
                     stray : BOOLEAN]

\* What a recovery has read and claimed, and the provider's answer to it.
Call ==
  [kind : {"none", "upsert", "find", "delete", "enable", "disable"},
   operation : {"stable", "creating", "pausing", "resuming", "deleting"},
   revision : 0..MaxTriggerRevision,
   attempts : 0..(MaxOperationAttempts + MaxReplays),
   id : 0..MaxInstances,
   acted : BOOLEAN]

NoCall == [kind |-> "none", operation |-> "stable", revision |-> 0, attempts |-> 0,
           id |-> 0, acted |-> FALSE]

Received ==
  [status : {"none", "pending", "dispatched", "skipped"},
   revision : 0..MaxTriggerRevision,
   attempts : 0..MaxEventAttempts,
   next : {"due", "later", "never"}]

NotReceived == [status |-> "none", revision |-> 0, attempts |-> 0, next |-> "never"]

NoEventDispatch == [event |-> 0, revision |-> 0, stage |-> "idle"]

-----------------------------------------------------------------------------
(* Requests of the owner *)

Live(t) == triggers[t].status \in {"active", "paused"}

DeletedForGood(t) == triggers[t].status = "deleted" /\ triggers[t].operation = "stable"

PendingEvents(t) == {e \in Events : received[t][e].status = "pending"}

\* The partial unique index on connection and source admits one live trigger.
CreateTrigger(t) ==
  /\ triggers[t].status = "none"
  /\ \A other \in Triggers : ~Live(other)
  /\ triggers' = [triggers EXCEPT ![t] =
       [@ EXCEPT !.status = "active", !.revision = 1, !.operation = "creating", !.retry = "due"]]
  /\ UNCHANGED <<updating, instance, calls, late, eventVars>>

\* update reads the row, and awaits digests and Briefs before it writes.
BeginUpdate(t) ==
  /\ Live(t) /\ triggers[t].operation = "stable" /\ updating[t] = 0
  /\ updating' = [updating EXCEPT ![t] = triggers[t].revision]
  /\ UNCHANGED <<triggers, instance, calls, late, eventVars>>

\* The primary key of the revisions refuses the successor of a replaced one.
Fresh(t) == triggers[t].revision = updating[t] /\ PendingEvents(t) = {}

EndUpdate(t) ==
  /\ updating[t] # 0
  /\ updating' = [updating EXCEPT ![t] = 0]
  /\ triggers' = IF Fresh(t) /\ updating[t] < MaxTriggerRevision
                 THEN [triggers EXCEPT ![t].revision = @ + 1] ELSE triggers
  /\ UNCHANGED <<instance, calls, late, eventVars>>

Permitted(t, operation) ==
  /\ PendingEvents(t) = {}
  /\ operation = "pausing" => triggers[t].status = "active"
  /\ operation = "resuming" => triggers[t].status = "paused"
  /\ operation # "deleting" => triggers[t].operation = "stable"

Lifecycle(t, operation) ==
  /\ Live(t) /\ triggers[t].revision < MaxTriggerRevision
  /\ Permitted(t, operation)
  /\ triggers' = [triggers EXCEPT ![t] =
       [@ EXCEPT !.revision = triggers[t].revision + 1, !.operation = operation,
                 !.attempts = 0, !.retry = "due",
                 !.status = IF operation = "deleting" /\ triggers[t].id = 0
                            THEN "deleted" ELSE triggers[t].status]]
  /\ UNCHANGED <<updating, instance, calls, late, eventVars>>

-----------------------------------------------------------------------------
(* #recoverOperation *)

Leased(t) == calls[t].kind # "none"

\* requested: an owner's request or its replay, against the alarm's recoverOne.
OperationRecoverable(t, requested) ==
  LET row == triggers[t] IN
  /\ row.operation # "stable" /\ ~Leased(t)
  /\ ~(row.operation = "deleting" /\ row.id = 0 /\ row.retry = "later")
  /\ requested \/ (row.retry = "due" /\ row.attempts < MaxOperationAttempts)

KindOf(row) ==
  CASE row.operation = "creating" -> "upsert"
    [] row.operation = "deleting" -> IF row.id = 0 THEN "find" ELSE "delete"
    [] row.operation = "pausing" -> "disable"
    [] row.operation = "resuming" -> "enable"

\* The attempt is counted before the connection is looked at and the call sent.
Recover(t, requested, connected) ==
  /\ OperationRecoverable(t, requested)
  /\ LET row == triggers[t]
         attempt == row.attempts + 1 IN
     /\ attempt <= MaxOperationAttempts + MaxReplays
     /\ triggers' = [triggers EXCEPT
          ![t].attempts = attempt,
          ![t].retry = IF attempt < MaxOperationAttempts THEN "later" ELSE "never"]
     /\ calls' = IF KindOf(row) \in {"upsert", "find"} /\ ~connected THEN calls
                 ELSE [calls EXCEPT ![t] =
                        [kind |-> KindOf(row), operation |-> row.operation,
                         revision |-> row.revision, attempts |-> attempt,
                         id |-> row.id, acted |-> FALSE]]
  /\ UNCHANGED <<updating, instance, late, eventVars>>

OperationDue(t) ==
  /\ triggers[t].retry = "later"
  /\ triggers' = [triggers EXCEPT ![t].retry = "due"]
  /\ UNCHANGED <<updating, instance, calls, late, eventVars>>

\* The provider keeps one instance of a source; upsert answers with it. The upsert
\* of a trigger that already had one, given up before, may make a stray.
AfterRequest(t, kind, id) ==
  CASE kind = "upsert" ->
         IF instance.id = 0
         THEN [id |-> instance.made + 1, enabled |-> TRUE, made |-> instance.made + 1,
               stray |-> triggers[t].id # 0]
         ELSE [instance EXCEPT !.enabled = TRUE, !.stray = @ /\ triggers[t].id # 0]
    [] kind = "delete" /\ instance.id = id ->
         [instance EXCEPT !.id = 0, !.enabled = FALSE, !.stray = FALSE]
    [] kind = "enable" /\ instance.id = id -> [instance EXCEPT !.enabled = TRUE]
    [] kind = "disable" /\ instance.id = id -> [instance EXCEPT !.enabled = FALSE]
    [] OTHER -> instance

CanMake(kind) == kind = "upsert" /\ instance.id = 0 => instance.made < MaxInstances

\* An upsert given up after five seconds lands, or never does, in the four minutes
\* that the retries put before the last search for what it may have made.
NoUpsertLate(t) == \A request \in late : request.trigger = t => request.kind # "upsert"

LastSearch(t) == calls[t].kind = "find" /\ calls[t].attempts >= MaxOperationAttempts

ProviderActs(t) ==
  /\ Leased(t) /\ ~calls[t].acted /\ CanMake(calls[t].kind)
  /\ LastSearch(t) => NoUpsertLate(t)
  /\ instance' = AfterRequest(t, calls[t].kind, calls[t].id)
  /\ calls' = [calls EXCEPT
       ![t].acted = TRUE,
       ![t].id = CASE calls[t].kind = "upsert" -> instance'.id
                   [] calls[t].kind = "find" -> IF instance.enabled THEN instance.id ELSE 0
                   [] OTHER -> @]
  /\ UNCHANGED <<triggers, updating, late, eventVars>>

\* The call fails, its answer is lost or the owner object is evicted.
CallLost(t, lands) ==
  /\ Leased(t)
  /\ lands => ~calls[t].acted /\ calls[t].kind # "find"
  /\ calls' = [calls EXCEPT ![t] = NoCall]
  /\ late' = IF lands
             THEN late \cup {[trigger |-> t, kind |-> calls[t].kind, id |-> calls[t].id]}
             ELSE late
  /\ UNCHANGED <<triggers, updating, instance, eventVars>>

LateRequestLands(request) ==
  /\ CanMake(request.kind)
  /\ instance' = AfterRequest(request.trigger, request.kind, request.id)
  /\ late' = late \ {request}
  /\ UNCHANGED <<triggers, updating, calls, eventVars>>

LateRequestLost(request) ==
  /\ late' = late \ {request}
  /\ UNCHANGED <<triggers, updating, instance, calls, eventVars>>

\* The row is still the one the recovery claimed.
StillClaimed(t) ==
  /\ triggers[t].revision = calls[t].revision
  /\ triggers[t].operation = calls[t].operation
  /\ triggers[t].attempts = calls[t].attempts

\* Mutation: two triggers may hold one providerTriggerId.
UnclaimedByAnyone(t, id) == TRUE

\* The unique index on providerTriggerId, which holds for deleted triggers too.
UnclaimedByOthers(t, id) == \A other \in Triggers \ {t} : triggers[other].id # id

\* Nothing was found; only the last attempt takes that for an answer.
Absent(t) == calls[t].id = 0 /\ calls[t].attempts >= MaxOperationAttempts

Settled(row, status) ==
  [row EXCEPT !.operation = "stable", !.attempts = 0, !.retry = "never", !.status = status]

Created(t) ==
  /\ calls[t].kind = "upsert" /\ calls[t].acted
  /\ triggers' = IF StillClaimed(t) /\ UnclaimedByOthers(t, calls[t].id)
                 THEN [triggers EXCEPT ![t] = [Settled(@, @.status) EXCEPT !.id = calls[t].id]]
                 ELSE triggers
  /\ calls' = [calls EXCEPT ![t] = NoCall]
  /\ UNCHANGED <<updating, instance, late, eventVars>>

\* What was found is retained in the row before it is deleted at the provider.
Found(t) ==
  /\ calls[t].kind = "find" /\ calls[t].acted
  /\ IF calls[t].id # 0 /\ StillClaimed(t) /\ UnclaimedByOthers(t, calls[t].id)
     THEN /\ triggers' = [triggers EXCEPT ![t].id = calls[t].id]
          /\ calls' = [calls EXCEPT ![t].kind = "delete", ![t].acted = FALSE]
     ELSE /\ triggers' = IF Absent(t) /\ StillClaimed(t)
                         THEN [triggers EXCEPT ![t] = Settled(@, "deleted")] ELSE triggers
          /\ calls' = [calls EXCEPT ![t] = NoCall]
  /\ UNCHANGED <<updating, instance, late, eventVars>>

\* A request to an instance that is gone fails, except its deletion.
Managed(t) ==
  /\ calls[t].kind \in {"delete", "enable", "disable"} /\ calls[t].acted
  /\ triggers' =
       IF StillClaimed(t) /\ (calls[t].kind = "delete" \/ instance.id = calls[t].id)
       THEN [triggers EXCEPT ![t] = Settled(@,
              CASE calls[t].kind = "delete" -> "deleted"
                [] calls[t].kind = "disable" -> "paused"
                [] calls[t].kind = "enable" -> "active")]
       ELSE triggers
  /\ calls' = [calls EXCEPT ![t] = NoCall]
  /\ UNCHANGED <<updating, instance, late, eventVars>>

-----------------------------------------------------------------------------
(* receive *)

\* pruneHistory keeps the newest settled occurrences.
Pruned(rows) ==
  LET settled == {e \in Events : rows[e].status \in {"dispatched", "skipped"}} IN
  [e \in Events |->
     IF e \in settled /\ Cardinality({f \in settled : f > e}) >= MaxRetainedEvents
     THEN NotReceived ELSE rows[e]]

\* Mutation: an occurrence of an earlier revision does not count as received.
NewInRevision(t, e) == received[t][e].revision # triggers[t].revision

New(t, e) == received[t][e].status = "none"

\* admissible: connection and Agent are as the revision has them and the event
\* is small enough.
Receive(t, e, admissible) ==
  LET row == triggers[t]
      accepted == /\ row.status = "active" /\ row.operation = "stable" /\ admissible
                  /\ Cardinality(PendingEvents(t)) < MaxPendingEvents IN
  /\ row.id # 0 /\ ~(row.status = "deleted" /\ row.operation = "stable")
  /\ New(t, e)
  /\ received' = [received EXCEPT ![t] = Pruned([@ EXCEPT ![e] =
       [status |-> IF accepted THEN "pending" ELSE "skipped", revision |-> row.revision,
        attempts |-> 1, next |-> IF accepted THEN "due" ELSE "never"]])]
  /\ UNCHANGED <<operationVars, eventRuns, eventDispatch>>

-----------------------------------------------------------------------------
(* claimDue and #dispatchEventTriggerRun *)

Close(t, e, status) ==
  received' = [received EXCEPT ![t] =
    Pruned([@ EXCEPT ![e].status = status, ![e].next = "never"])]

ClaimableEvents(t) ==
  {e \in PendingEvents(t) : /\ received[t][e].next = "due"
                            /\ triggers[t].status = "active"
                            /\ triggers[t].operation = "stable"}

\* Mutation: one attempt too many.
ExhaustedLate(t, e) == received[t][e].attempts > MaxEventAttempts

Exhausted(t, e) == received[t][e].attempts >= MaxEventAttempts

\* The oldest due occurrence of each trigger is claimed.
ClaimEvent(t) ==
  /\ eventDispatch[t] = NoEventDispatch /\ ClaimableEvents(t) # {}
  /\ LET e == Min(ClaimableEvents(t)) IN
     IF Exhausted(t, e)
     THEN Close(t, e, "skipped") /\ UNCHANGED eventDispatch
     ELSE /\ received' = [received EXCEPT ![t][e].attempts = @ + 1, ![t][e].next = "later"]
          /\ eventDispatch' = [eventDispatch EXCEPT ![t] =
               [event |-> e, revision |-> triggers[t].revision, stage |-> "inspect"]]
  /\ UNCHANGED <<operationVars, eventRuns>>

Ended(t, run) == run = <<>> \/ eventRuns[t][run] = "ended"

\* The previous Run is inspected across its session; unless it has ended, or is
\* not known any more, the occurrence waits for its next attempt.
InspectLastRun(t, answered) ==
  /\ eventDispatch[t].stage = "inspect"
  /\ eventDispatch' = [eventDispatch EXCEPT ![t] =
       IF triggers[t].lastRun = <<>> \/ (answered /\ Ended(t, triggers[t].lastRun))
       THEN [@ EXCEPT !.stage = "start"] ELSE NoEventDispatch]
  /\ UNCHANGED <<operationVars, received, eventRuns>>

\* The idempotency key names trigger, revision and event.
StartEventRun(t, admissible, answered) ==
  /\ eventDispatch[t].stage = "start"
  /\ LET key == <<eventDispatch[t].revision, eventDispatch[t].event>> IN
     /\ eventRuns' = [eventRuns EXCEPT ![t][key] =
                        IF @ = "none" /\ admissible THEN "working" ELSE @]
     /\ IF answered /\ eventRuns'[t][key] # "none"
        THEN /\ eventDispatch' = [eventDispatch EXCEPT ![t].stage = "record"]
             /\ UNCHANGED received
        ELSE /\ Close(t, eventDispatch[t].event, "skipped")
             /\ eventDispatch' = [eventDispatch EXCEPT ![t] = NoEventDispatch]
  /\ UNCHANGED operationVars

RecordEventRun(t) ==
  /\ eventDispatch[t].stage = "record"
  /\ LET e == eventDispatch[t].event
         key == <<eventDispatch[t].revision, e>>
         recorded == /\ triggers[t].revision = eventDispatch[t].revision
                     /\ triggers[t].status = "active" /\ triggers[t].operation = "stable"
                     /\ received[t][e].status = "pending" IN
     /\ triggers' = IF recorded THEN [triggers EXCEPT ![t].lastRun = key] ELSE triggers
     /\ eventRuns' = IF recorded THEN eventRuns ELSE [eventRuns EXCEPT ![t][key] = "ended"]
     /\ Close(t, e, IF recorded THEN "dispatched" ELSE "skipped")
  /\ eventDispatch' = [eventDispatch EXCEPT ![t] = NoEventDispatch]
  /\ UNCHANGED <<updating, instance, calls, late>>

\* The steps of the alarm over the occurrences of a trigger.
EventAlarm(t) ==
  \/ ClaimEvent(t) \/ RecordEventRun(t)
  \/ \E answered \in BOOLEAN : InspectLastRun(t, answered)
  \/ \E admissible, answered \in BOOLEAN : StartEventRun(t, admissible, answered)

\* The dispatch throws or the owner object is evicted; the claim has already set
\* the next attempt.
AbandonEvent(t) ==
  /\ eventDispatch[t].stage # "idle"
  /\ eventDispatch' = [eventDispatch EXCEPT ![t] = NoEventDispatch]
  /\ UNCHANGED <<operationVars, received, eventRuns>>

\* Mutation: the alarm is set again after the first attempt only.
EventDueOnce(t, e) ==
  /\ received[t][e].next = "later" /\ received[t][e].attempts = 1
  /\ received' = [received EXCEPT ![t][e].next = "due"]
  /\ UNCHANGED <<operationVars, eventRuns, eventDispatch>>

\* The time of the next attempt has come.
EventDue(t, e) ==
  /\ received[t][e].next = "later"
  /\ received' = [received EXCEPT ![t][e].next = "due"]
  /\ UNCHANGED <<operationVars, eventRuns, eventDispatch>>

EventRunEnds(t, key) ==
  /\ eventRuns[t][key] = "working"
  /\ eventRuns' = [eventRuns EXCEPT ![t][key] = "ended"]
  /\ UNCHANGED <<operationVars, received, eventDispatch>>

-----------------------------------------------------------------------------

EventTriggersInit ==
  /\ triggers = [t \in Triggers |->
       [status |-> "none", revision |-> 0, operation |-> "stable", attempts |-> 0,
        retry |-> "never", id |-> 0, lastRun |-> <<>>]]
  /\ updating = [t \in Triggers |-> 0]
  /\ instance = [id |-> 0, enabled |-> FALSE, made |-> 0, stray |-> FALSE]
  /\ calls = [t \in Triggers |-> NoCall]
  /\ late = {}
  /\ received = [t \in Triggers |-> [e \in Events |-> NotReceived]]
  /\ eventRuns = [t \in Triggers |-> [key \in TriggerRevisions \X Events |-> "none"]]
  /\ eventDispatch = [t \in Triggers |-> NoEventDispatch]

OperationNext ==
  \/ \E t \in Triggers :
       \/ CreateTrigger(t) \/ BeginUpdate(t) \/ EndUpdate(t)
       \/ \E operation \in {"pausing", "resuming", "deleting"} : Lifecycle(t, operation)
       \/ \E requested, connected \in BOOLEAN : Recover(t, requested, connected)
       \/ OperationDue(t) \/ ProviderActs(t)
       \/ \E lands \in BOOLEAN : CallLost(t, lands)
       \/ Created(t) \/ Found(t) \/ Managed(t)
  \/ \E request \in late : LateRequestLands(request) \/ LateRequestLost(request)

EventNext ==
  \E t \in Triggers :
    \/ \E e \in Events, admissible \in BOOLEAN : Receive(t, e, admissible)
    \/ EventAlarm(t) \/ AbandonEvent(t)
    \/ \E e \in Events : EventDue(t, e)
    \/ \E key \in TriggerRevisions \X Events : EventRunEnds(t, key)

EventTriggersNext == OperationNext \/ EventNext

\* The alarm comes back to a due occurrence and finishes what it claimed.
EventTriggersFairness ==
  \A t \in Triggers : WF_eventTriggerVars(EventAlarm(t))
                      /\ \A e \in Events : WF_eventTriggerVars(EventDue(t, e))

EventTriggersSpec ==
  EventTriggersInit /\ [][EventTriggersNext]_eventTriggerVars /\ EventTriggersFairness

-----------------------------------------------------------------------------

\* Every variable has its type; the attempts stay in their bounds.
EventTriggersTypeOK ==
  /\ triggers \in [Triggers -> Trigger]
  /\ updating \in [Triggers -> 0..MaxTriggerRevision]
  /\ instance \in ProviderInstance
  /\ calls \in [Triggers -> Call]
  /\ late \subseteq [trigger : Triggers, id : 0..MaxInstances,
                     kind : {"upsert", "delete", "enable", "disable"}]
  /\ received \in [Triggers -> [Events -> Received]]
  /\ eventRuns \in [Triggers -> [TriggerRevisions \X Events -> {"none", "working", "ended"}]]
  /\ eventDispatch \in [Triggers -> [event : Events \cup {0}, revision : 0..MaxTriggerRevision,
                                     stage : {"idle", "inspect", "start", "record"}]]

\* The provider and the owner agree on the instance of a source. The instance of
\* a trigger that is live and settled is still there: no recovery of another
\* trigger, however late its request or its answer, deletes it. That of a trigger
\* deleted for good is gone. And when every trigger is deleted for good none is
\* left, except a stray: an upsert was given up, its trigger got an instance by a
\* repetition and lost it by its deletion, and only then the first upsert landed,
\* against which the code does nothing. A creation that was never confirmed leaves
\* none behind.
InstanceAgrees ==
  /\ \A t \in Triggers :
       Live(t) /\ triggers[t].operation = "stable" => instance.id = triggers[t].id
  /\ \A t \in Triggers :
       DeletedForGood(t) /\ triggers[t].id # 0 => instance.id # triggers[t].id
  /\ (\A t \in Triggers : triggers[t].status = "none" \/ DeletedForGood(t))
     => instance.id = 0 \/ instance.stray

\* An event starts at most one Run, however often it is delivered and claimed and
\* whatever the revisions in between, while the history retains it.
OneRunPerEvent ==
  \A t \in Triggers, e \in Events :
    Cardinality({r \in TriggerRevisions : eventRuns[t][<<r, e>>] # "none"}) <= 1

\* A pending occurrence is dispatched or skipped in the end, also if the alarm
\* dies over it again and again or the previous Run never ends.
PendingEventSettles ==
  \A t \in Triggers, e \in Events :
    received[t][e].status = "pending" ~> received[t][e].status # "pending"
=============================================================================
