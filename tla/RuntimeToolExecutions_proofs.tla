---------------------- MODULE RuntimeToolExecutions_proofs ----------------------
(***************************************************************************)
(* Proofs about the ledger of runtime tools, its Sandboxes and the owner's *)
(* alarm. Every step of the composition is a ledger step, so that the      *)
(* invariants of the external calls hold beside runtime tools, an alarm    *)
(* that awaits in the middle, and restarts; and a Sandbox is forgotten     *)
(* only when it is gone for good.                                          *)
(***************************************************************************)
EXTENDS RuntimeToolExecutions, ToolExecutions_proofs

-----------------------------------------------------------------------------
(* Types *)

RuntimeClocked(x) ==
  x.ttl \in -Horizon..(RuntimeLifetime + CompletionGrace) /\ x.permitTtl \in 0..PermitLifetime

RuntimeTypes ==
  /\ ToolTypes
  /\ sandboxes \in [RuntimeCalls -> Sandbox]
  /\ alarm \in Alarm
  /\ \A t \in RuntimeCalls : RuntimeClocked(runtimeExecutions[t])

\* The type invariant in the form the lemmas below use.
LEMMA RuntimeTypesIs == RuntimeTypeOK <=> RuntimeTypes
BY ToolTypesIs DEF RuntimeTypeOK, RuntimeTypes, RuntimeClocked

\* A call that was never made, and the entry of one that was erased.
LEMMA NoRuntimeCallType ==
  /\ NoRuntimeExecution \in RuntimeExecution /\ RuntimeClocked(NoRuntimeExecution)
  /\ [NoRuntimeExecution EXCEPT !.status = "deleted"] \in RuntimeExecution
  /\ RuntimeClocked([NoRuntimeExecution EXCEPT !.status = "deleted"])
<1>1. NoRuntimeExecution \in RuntimeExecution
  BY DEF NoRuntimeExecution, RuntimeExecution
<1>2. 0 \in -Horizon..(RuntimeLifetime + CompletionGrace) /\ 0 \in 0..PermitLifetime
  BY RuntimeAssumption, ToolAssumption
<1> QED BY <1>1, <1>2 DEF RuntimeClocked, NoRuntimeExecution, RuntimeExecution

\* The entry that a reservation makes.
Claimed(r, tool) ==
  [NoRuntimeExecution EXCEPT
     !.status = "reserved", !.run = r, !.tool = tool, !.cleaned = (tool # "sandbox"),
     !.permitTtl = PermitLifetime, !.ttl = RuntimeDuration(r) + CompletionGrace,
     !.retry = RuntimeDuration(r) + CompletionGrace + CleanupGrace]

\* It has a deadline in the future, and a Sandbox to destroy if its tool has one.
LEMMA ClaimedIs ==
  ASSUME ToolTypes, NEW r \in Runs, NEW tool \in Tools, RuntimeDuration(r) > 0
  PROVE  /\ Claimed(r, tool) \in RuntimeExecution /\ RuntimeClocked(Claimed(r, tool))
         /\ Claimed(r, tool).status = "reserved" /\ Claimed(r, tool).run = r
         /\ Claimed(r, tool).tool = tool /\ Claimed(r, tool).cleaned = (tool # "sandbox")
         /\ Claimed(r, tool).ttl > 0
<1>1. RuntimeDuration(r) \in 0..RuntimeLifetime
  <2>1. admissions[r].age \in Int /\ MaxDuration \in Int /\ AgeCap \in Int
    BY TimeAssumption DEF ToolTypes, TypeOK, Admission, AgeCap
  <2>2. Smaller(admissions[r].age, MaxDuration) \in Int
    BY <2>1, SmallerIs
  <2> QED BY <2>1, <2>2, SmallerIs, RuntimeAssumption DEF RuntimeDuration
<1> DEFINE ttl == RuntimeDuration(r) + CompletionGrace
           retry == RuntimeDuration(r) + CompletionGrace + CleanupGrace
           cleaned == tool # "sandbox"
<1>2. /\ ttl \in Int /\ retry \in Nat /\ PermitLifetime \in Nat /\ cleaned \in BOOLEAN
      /\ ttl \in -Horizon..(RuntimeLifetime + CompletionGrace)
      /\ PermitLifetime \in 0..PermitLifetime /\ tool \in {"none", "web", "sandbox"} /\ ttl > 0
  BY <1>1, RuntimeAssumption, ToolAssumption
<1>3. Claimed(r, tool) =
        [NoRuntimeExecution EXCEPT !.status = "reserved", !.run = r, !.tool = tool,
           !.cleaned = cleaned, !.permitTtl = PermitLifetime, !.ttl = ttl, !.retry = retry]
  BY DEF Claimed
<1> HIDE DEF ttl, retry, cleaned
<1>4. /\ Claimed(r, tool) \in RuntimeExecution
      /\ Claimed(r, tool).status = "reserved" /\ Claimed(r, tool).run = r
      /\ Claimed(r, tool).tool = tool /\ Claimed(r, tool).cleaned = cleaned
      /\ Claimed(r, tool).ttl = ttl /\ Claimed(r, tool).permitTtl = PermitLifetime
  BY <1>2, <1>3, NoRuntimeCallType DEF RuntimeExecution
<1> QED BY <1>2, <1>4 DEF RuntimeClocked, cleaned

\* Writing one call keeps the ledger typed.
LEMMA OneRuntimeCallTyped ==
  ASSUME RuntimeTypes, NEW t \in RuntimeCalls, NEW x \in RuntimeExecution, RuntimeClocked(x),
         runtimeExecutions' = [runtimeExecutions EXCEPT ![t] = x]
  PROVE  /\ runtimeExecutions' \in [RuntimeCalls -> RuntimeExecution]
         /\ \A u \in RuntimeCalls : RuntimeClocked(runtimeExecutions'[u])
BY DEF RuntimeTypes, ToolTypes, TypeOK

\* What a session does with a call of a runtime tool: reserve, dispatch, complete.
LEMMA ReserveMoves ==
  ASSUME ToolTypes, NEW t \in RuntimeCalls, NEW r \in Runs, NEW tool \in Tools,
         RuntimeReserve(t, r, tool)
  PROVE  /\ runtimeExecutions[t].status = "none" /\ RuntimeDuration(r) > 0
         /\ runtimeExecutions' = [runtimeExecutions EXCEPT ![t] = Claimed(r, tool)]
         /\ admissions[r].status = "redeemed" /\ admissions[r].toolCalls < MaxToolCalls
         /\ admissions' = [admissions EXCEPT ![r].toolCalls = @ + 1]
         /\ UNCHANGED <<authority, loading, executions, approvals, reserving, sandboxes, alarm>>
BY DEF RuntimeReserve, RuntimeReservable, RuntimeGate, Claimed

\* The first moves on a call once it is reserved: its entry stays in its Run.
LEMMA CallMoves ==
  ASSUME ToolTypes, NEW t \in RuntimeCalls,
         \/ \E delivered \in BOOLEAN : RuntimeDispatch(t, delivered)
         \/ \E outcome \in {"completed", "failed", "unknown"}, oversized \in BOOLEAN :
              RuntimeComplete(t, outcome, oversized)
  PROVE  /\ runtimeExecutions[t].status = "reserved"
         /\ \/ runtimeExecutions' = [runtimeExecutions EXCEPT ![t].dispatched = TRUE]
            \/ \E v \in {"completed", "failed", "unknown"} :
                 runtimeExecutions' = [runtimeExecutions EXCEPT ![t].status = v]
         /\ UNCHANGED <<authority, admissions, loading, executions, approvals, reserving, alarm>>
BY DEF RuntimeDispatch, RuntimeComplete, Completes, CompletionStatus

\* A change of one call's entry that leaves its place, its tool and its clocks.
Alike(x, y) ==
  /\ y.run = x.run /\ y.tool = x.tool /\ y.ttl = x.ttl
  /\ Vacant(y) <=> Vacant(x)
  /\ y \in RuntimeExecution /\ RuntimeClocked(y)

\* Dispatching, answering, settling, forgetting and rescheduling are such changes.
LEMMA AlikeChanges ==
  ASSUME NEW x \in RuntimeExecution, RuntimeClocked(x)
  PROVE  /\ Alike(x, x)
         /\ Alike(x, [x EXCEPT !.dispatched = TRUE])
         /\ Alike(x, [x EXCEPT !.cleaned = TRUE])
         /\ \A d \in Nat : Alike(x, [x EXCEPT !.retry = d])
         /\ \A v \in {"completed", "failed", "unknown"} :
              x.status = "reserved" => Alike(x, [x EXCEPT !.status = v])
         /\ [x EXCEPT !.dispatched = TRUE].cleaned = x.cleaned
         /\ [x EXCEPT !.cleaned = TRUE].cleaned
         /\ \A d \in Nat : [x EXCEPT !.retry = d].cleaned = x.cleaned
         /\ \A v \in {"completed", "failed", "unknown"} : [x EXCEPT !.status = v].cleaned = x.cleaned
BY DEF Alike, RuntimeClocked, RuntimeExecution, Vacant

-----------------------------------------------------------------------------
(* The Sandboxes *)

\* What happens to a Sandbox in the background: it may open, stop or be marked, but
\* nothing is asked to open and no purge of the owner moves.
Drifts(old, new) ==
  /\ new.awaited = old.awaited
  /\ new.opening => old.opening
  /\ new.running => old.running \/ old.opening

\* A step of a purge that the owner awaits, or its end.
Purged(old, new, awaited) ==
  /\ new.awaited = awaited
  /\ new.opening = old.opening
  /\ new.running => old.running /\ awaited # "stopped"

\* Writing one Sandbox.
LEMMA OneBox ==
  ASSUME NEW t \in RuntimeCalls, sandboxes \in [RuntimeCalls -> Sandbox], NEW b \in Sandbox,
         sandboxes' = [sandboxes EXCEPT ![t] = b]
  PROVE  /\ sandboxes' \in [RuntimeCalls -> Sandbox] /\ sandboxes'[t] = b
         /\ \A u \in RuntimeCalls \ {t} : sandboxes'[u] = sandboxes[u]
OBVIOUS

\* What goes on in the background.
LEMMA BackgroundDrifts ==
  ASSUME NEW t \in RuntimeCalls, sandboxes \in [RuntimeCalls -> Sandbox],
         SandboxOpens(t) \/ BackgroundPurge(t) \/ BackgroundStep(t) \/ BackgroundFails(t)
  PROVE  /\ sandboxes' \in [RuntimeCalls -> Sandbox]
         /\ \A u \in RuntimeCalls : Drifts(sandboxes[u], sandboxes'[u])
         /\ UNCHANGED <<toolVars, alarm>>
<1> DEFINE b == sandboxes[t]
<1>1. PICK c : /\ sandboxes' = [sandboxes EXCEPT ![t] = c]
               /\ c \in Sandbox /\ Drifts(b, c)
  <2>0. b \in Sandbox
    OBVIOUS
  <2>1. ASSUME SandboxOpens(t)
        PROVE  \E c \in Sandbox : sandboxes' = [sandboxes EXCEPT ![t] = c] /\ Drifts(b, c)
    <3>1. PICK opened \in BOOLEAN :
            sandboxes' = [sandboxes EXCEPT ![t].opening = FALSE, ![t].running = @ \/ opened]
      BY <2>1 DEF SandboxOpens
    <3>2. /\ sandboxes'[t] = [[b EXCEPT !.opening = FALSE] EXCEPT !.running = @ \/ opened]
          /\ sandboxes' = [sandboxes EXCEPT ![t] = sandboxes'[t]]
      BY <3>1
    <3>3. sandboxes'[t] \in Sandbox /\ Drifts(b, sandboxes'[t])
      BY <2>0, <2>1, <3>2 DEF Sandbox, Drifts, SandboxOpens
    <3> QED BY <3>2, <3>3
  <2>2. ASSUME BackgroundPurge(t)
        PROVE  \E c \in Sandbox : sandboxes' = [sandboxes EXCEPT ![t] = c] /\ Drifts(b, c)
    <3> DEFINE c == [[b EXCEPT !.background = "marked"] EXCEPT !.marked = TRUE]
    <3>1. sandboxes' = [sandboxes EXCEPT ![t] = c]
      BY <2>2 DEF BackgroundPurge
    <3>2. c \in Sandbox /\ Drifts(b, c)
      BY <2>0 DEF Sandbox, Purge, Drifts
    <3> QED BY <3>1, <3>2
  <2>3. ASSUME BackgroundStep(t)
        PROVE  \E c \in Sandbox : sandboxes' = [sandboxes EXCEPT ![t] = c] /\ Drifts(b, c)
    <3> DEFINE c == CASE b.background = "marked" ->
                           [b EXCEPT !.background = "stopped", !.running = FALSE]
                      [] b.background = "stopped" ->
                           [b EXCEPT !.background = "none", !.marked = FALSE]
                      [] OTHER -> b
    <3>1. sandboxes' = [sandboxes EXCEPT ![t] = c]
      BY <2>3 DEF BackgroundStep
    <3>2. c \in Sandbox /\ Drifts(b, c)
      BY <2>0 DEF Sandbox, Purge, Drifts
    <3> QED BY <3>1, <3>2
  <2>4. ASSUME BackgroundFails(t)
        PROVE  \E c \in Sandbox : sandboxes' = [sandboxes EXCEPT ![t] = c] /\ Drifts(b, c)
    <3> DEFINE c == [b EXCEPT !.background = "none"]
    <3>1. sandboxes' = [sandboxes EXCEPT ![t] = c]
      BY <2>4 DEF BackgroundFails
    <3>2. c \in Sandbox /\ Drifts(b, c)
      BY <2>0 DEF Sandbox, Purge, Drifts
    <3> QED BY <3>1, <3>2
  <2> QED BY <2>1, <2>2, <2>3, <2>4
<1>2. \A u \in RuntimeCalls : Drifts(sandboxes[u], sandboxes'[u])
  BY <1>1, OneBox DEF Drifts
<1> QED BY <1>1, <1>2, OneBox DEF SandboxOpens, BackgroundPurge, BackgroundStep, BackgroundFails

\* The purge the alarm awaits begins, stops the Sandbox, and ends, one at a time.
LEMMA AwaitedPurges ==
  ASSUME NEW t \in RuntimeCalls, sandboxes \in [RuntimeCalls -> Sandbox],
         NEW awaited \in Purge,
         \/ OwnerPurges(t) /\ awaited = "marked"
         \/ OwnerStops(t) /\ awaited = "stopped"
         \/ OwnerPurged(t) /\ awaited = "none"
         \/ OwnerPurgeFails(t) /\ awaited = "none"
  PROVE  /\ sandboxes' \in [RuntimeCalls -> Sandbox]
         /\ Purged(sandboxes[t], sandboxes'[t], awaited)
         /\ \A u \in RuntimeCalls \ {t} : sandboxes'[u] = sandboxes[u]
<1> DEFINE b == sandboxes[t]
<1>1. PICK c \in Sandbox : sandboxes' = [sandboxes EXCEPT ![t] = c] /\ Purged(b, c, awaited)
  <2>0. b \in Sandbox
    OBVIOUS
  <2>1. ASSUME OwnerPurges(t), awaited = "marked"
        PROVE  \E c \in Sandbox : sandboxes' = [sandboxes EXCEPT ![t] = c] /\ Purged(b, c, awaited)
    <3> DEFINE c == [[b EXCEPT !.awaited = "marked"] EXCEPT !.marked = TRUE]
    <3>1. sandboxes' = [sandboxes EXCEPT ![t] = c]
      BY <2>1 DEF OwnerPurges
    <3>2. c \in Sandbox /\ Purged(b, c, awaited)
      BY <2>0, <2>1 DEF Sandbox, Purge, Purged
    <3> QED BY <3>1, <3>2
  <2>2. ASSUME OwnerStops(t), awaited = "stopped"
        PROVE  \E c \in Sandbox : sandboxes' = [sandboxes EXCEPT ![t] = c] /\ Purged(b, c, awaited)
    <3> DEFINE c == [[b EXCEPT !.awaited = "stopped"] EXCEPT !.running = FALSE]
    <3>1. sandboxes' = [sandboxes EXCEPT ![t] = c]
      BY <2>2 DEF OwnerStops
    <3>2. c \in Sandbox /\ Purged(b, c, awaited)
      BY <2>0, <2>2 DEF Sandbox, Purge, Purged
    <3> QED BY <3>1, <3>2
  <2>3. ASSUME OwnerPurged(t), awaited = "none"
        PROVE  \E c \in Sandbox : sandboxes' = [sandboxes EXCEPT ![t] = c] /\ Purged(b, c, awaited)
    <3> DEFINE c == [[b EXCEPT !.awaited = "none"] EXCEPT !.marked = FALSE]
    <3>1. sandboxes' = [sandboxes EXCEPT ![t] = c]
      BY <2>3 DEF OwnerPurged
    <3>2. c \in Sandbox /\ Purged(b, c, awaited)
      BY <2>0, <2>3 DEF Sandbox, Purge, Purged
    <3> QED BY <3>1, <3>2
  <2>4. ASSUME OwnerPurgeFails(t), awaited = "none"
        PROVE  \E c \in Sandbox : sandboxes' = [sandboxes EXCEPT ![t] = c] /\ Purged(b, c, awaited)
    <3>1. PICK c \in Unawaited(b) : sandboxes' = [sandboxes EXCEPT ![t] = c]
      BY <2>4 DEF OwnerPurgeFails
    <3>2. c \in Sandbox /\ Purged(b, c, awaited)
      BY <2>0, <2>4 DEF Unawaited, Sandbox, Purge, Purged
    <3> QED BY <3>1, <3>2
  <2> QED BY <2>1, <2>2, <2>3, <2>4
<1> QED BY <1>1, OneBox

\* After a restart nothing is awaited.
LEMMA RestartedBoxes ==
  ASSUME sandboxes \in [RuntimeCalls -> Sandbox], RuntimeRestart
  PROVE  /\ sandboxes' \in [RuntimeCalls -> Sandbox]
         /\ \A t \in RuntimeCalls : Purged(sandboxes[t], sandboxes'[t], "none")
<1>1. ASSUME NEW t \in RuntimeCalls, NEW c \in Unawaited(sandboxes[t])
      PROVE  c \in Sandbox /\ Purged(sandboxes[t], c, "none")
  BY <1>1 DEF Unawaited, Sandbox, Purge, Purged
<1>2. /\ sandboxes' \in [RuntimeCalls -> UNION {Unawaited(sandboxes[t]) : t \in RuntimeCalls}]
      /\ \A t \in RuntimeCalls : sandboxes'[t] \in Unawaited(sandboxes[t])
  BY DEF RuntimeRestart
<1> QED BY <1>1, <1>2

-----------------------------------------------------------------------------
(* Every step is typed *)

\* A step that leaves the places, tools and clocks of all entries.
SameEntries == \A t \in RuntimeCalls : Alike(runtimeExecutions[t], runtimeExecutions'[t])

\* One that also leaves what is known of their Sandboxes.
SameCleaned == \A t \in RuntimeCalls : runtimeExecutions'[t].cleaned = runtimeExecutions[t].cleaned

\* Entries that are as before.
LEMMA EntriesStay ==
  ASSUME RuntimeTypes, runtimeExecutions' = runtimeExecutions
  PROVE  /\ SameEntries /\ SameCleaned
         /\ runtimeExecutions' \in [RuntimeCalls -> RuntimeExecution]
BY AlikeChanges DEF RuntimeTypes, ToolTypes, TypeOK, SameEntries, SameCleaned

\* The settlement, with which the alarm begins.
LEMMA SettledEntries ==
  ASSUME RuntimeTypes, runtimeExecutions' = RuntimeSettled
  PROVE  /\ SameEntries /\ SameCleaned
         /\ runtimeExecutions' \in [RuntimeCalls -> RuntimeExecution]
<1>1. ASSUME NEW t \in RuntimeCalls
      PROVE  /\ Alike(runtimeExecutions[t], RuntimeSettled[t])
             /\ RuntimeSettled[t].cleaned = runtimeExecutions[t].cleaned
  <2>1. runtimeExecutions[t] \in RuntimeExecution /\ RuntimeClocked(runtimeExecutions[t])
    BY DEF RuntimeTypes, ToolTypes, TypeOK
  <2>2. \/ RuntimeSettled[t] = runtimeExecutions[t]
        \/ /\ runtimeExecutions[t].status = "reserved"
           /\ \E v \in {"completed", "failed", "unknown"} :
                RuntimeSettled[t] = [runtimeExecutions[t] EXCEPT !.status = v]
    BY DEF RuntimeSettled, RuntimeOverdue, RuntimeUnproven
  <2>3. CASE RuntimeSettled[t] = runtimeExecutions[t]
    BY <2>1, <2>3, AlikeChanges
  <2>4. ASSUME runtimeExecutions[t].status = "reserved",
               NEW v \in {"completed", "failed", "unknown"},
               RuntimeSettled[t] = [runtimeExecutions[t] EXCEPT !.status = v]
        PROVE  /\ Alike(runtimeExecutions[t], RuntimeSettled[t])
               /\ RuntimeSettled[t].cleaned = runtimeExecutions[t].cleaned
    <3> DEFINE x == [runtimeExecutions[t] EXCEPT !.status = v]
    <3>1. Alike(runtimeExecutions[t], x) /\ x.cleaned = runtimeExecutions[t].cleaned
      BY <2>1, <2>4, AlikeChanges
    <3> QED BY <2>4, <3>1
  <2> QED BY <2>2, <2>3, <2>4
<1>2. RuntimeSettled \in [RuntimeCalls -> RuntimeExecution]
  BY <1>1 DEF RuntimeSettled, Alike
<1> QED BY <1>1, <1>2 DEF SameEntries, SameCleaned

\* Dispatching or answering one call.
LEMMA CallMovesEntries ==
  ASSUME RuntimeTypes, NEW t \in RuntimeCalls,
         \/ \E delivered \in BOOLEAN : RuntimeDispatch(t, delivered)
         \/ \E outcome \in {"completed", "failed", "unknown"}, oversized \in BOOLEAN :
              RuntimeComplete(t, outcome, oversized)
  PROVE  /\ SameEntries /\ SameCleaned
         /\ runtimeExecutions' \in [RuntimeCalls -> RuntimeExecution]
<1>1. /\ runtimeExecutions \in [RuntimeCalls -> RuntimeExecution]
      /\ \A u \in RuntimeCalls : RuntimeClocked(runtimeExecutions[u])
  BY DEF RuntimeTypes, ToolTypes, TypeOK
<1>2. PICK x : /\ runtimeExecutions' = [runtimeExecutions EXCEPT ![t] = x]
               /\ Alike(runtimeExecutions[t], x) /\ x.cleaned = runtimeExecutions[t].cleaned
  <2>1. CASE runtimeExecutions' = [runtimeExecutions EXCEPT ![t].dispatched = TRUE]
    BY <1>1, <2>1, AlikeChanges
  <2>2. ASSUME NEW v \in {"completed", "failed", "unknown"},
               runtimeExecutions[t].status = "reserved",
               runtimeExecutions' = [runtimeExecutions EXCEPT ![t].status = v]
        PROVE  \E x : /\ runtimeExecutions' = [runtimeExecutions EXCEPT ![t] = x]
                      /\ Alike(runtimeExecutions[t], x) /\ x.cleaned = runtimeExecutions[t].cleaned
    BY <1>1, <2>2, AlikeChanges
  <2> QED BY <2>1, <2>2, CallMoves DEF RuntimeTypes
<1>3. \A u \in RuntimeCalls \ {t} : runtimeExecutions'[u] = runtimeExecutions[u]
  BY <1>1, <1>2
<1>4. runtimeExecutions'[t] = x /\ x \in RuntimeExecution
  BY <1>1, <1>2 DEF Alike
<1>5. runtimeExecutions' \in [RuntimeCalls -> RuntimeExecution]
  BY <1>1, <1>2, <1>4
<1>6. \A u \in RuntimeCalls : Alike(runtimeExecutions[u], runtimeExecutions[u])
  BY <1>1, AlikeChanges
<1> QED BY <1>2, <1>3, <1>4, <1>5, <1>6 DEF SameEntries, SameCleaned

\* The end of a purge the alarm awaits: the Sandbox is forgotten, or tried again.
LEMMA PurgeMovesEntries ==
  ASSUME RuntimeTypes, NEW t \in RuntimeCalls, OwnerPurged(t) \/ OwnerPurgeFails(t)
  PROVE  /\ SameEntries
         /\ \A u \in RuntimeCalls : runtimeExecutions'[u].cleaned = runtimeExecutions[u].cleaned
                                    \/ (u = t /\ OwnerPurged(t) /\ Releases(t))
         /\ runtimeExecutions' \in [RuntimeCalls -> RuntimeExecution]
<1>1. /\ runtimeExecutions \in [RuntimeCalls -> RuntimeExecution]
      /\ \A u \in RuntimeCalls : RuntimeClocked(runtimeExecutions[u])
  BY DEF RuntimeTypes, ToolTypes, TypeOK
<1>2. PICK x : /\ runtimeExecutions' = [runtimeExecutions EXCEPT ![t] = x]
               /\ Alike(runtimeExecutions[t], x)
               /\ x.cleaned = runtimeExecutions[t].cleaned \/ (OwnerPurged(t) /\ Releases(t))
  <2>1. CASE OwnerPurged(t) /\ Releases(t)
    BY <1>1, <2>1, AlikeChanges DEF OwnerPurged
  <2>2. CASE RetryLater(t)
    <3>1. PICK d \in 0..CleanupRetry :
            runtimeExecutions' = [runtimeExecutions EXCEPT ![t].retry = d]
      BY <2>2 DEF RetryLater
    <3>2. d \in Nat
      BY RuntimeAssumption
    <3> DEFINE x == [runtimeExecutions[t] EXCEPT !.retry = d]
    <3>3. Alike(runtimeExecutions[t], x) /\ x.cleaned = runtimeExecutions[t].cleaned
      BY <1>1, <3>2, AlikeChanges
    <3>4. runtimeExecutions' = [runtimeExecutions EXCEPT ![t] = x]
      BY <3>1
    <3> QED BY <3>3, <3>4
  <2> QED BY <2>1, <2>2 DEF OwnerPurged, OwnerPurgeFails
<1>3. \A u \in RuntimeCalls \ {t} : runtimeExecutions'[u] = runtimeExecutions[u]
  BY <1>1, <1>2
<1>4. runtimeExecutions'[t] = x /\ x \in RuntimeExecution
  BY <1>1, <1>2 DEF Alike
<1>5. runtimeExecutions' \in [RuntimeCalls -> RuntimeExecution]
  BY <1>1, <1>2, <1>4
<1>6. \A u \in RuntimeCalls : Alike(runtimeExecutions[u], runtimeExecutions[u])
  BY <1>1, AlikeChanges
<1>7. SameEntries
  BY <1>2, <1>3, <1>4, <1>6 DEF SameEntries
<1>8. ASSUME NEW u \in RuntimeCalls
      PROVE  runtimeExecutions'[u].cleaned = runtimeExecutions[u].cleaned
             \/ (u = t /\ OwnerPurged(t) /\ Releases(t))
  <2>1. CASE u = t
    BY <1>2, <1>4, <2>1
  <2>2. CASE u # t
    BY <1>3, <2>2
  <2> QED BY <2>1, <2>2
<1> QED BY <1>5, <1>7, <1>8

\* Time moves the clocks within their ranges.
LEMMA AgedEntries ==
  ASSUME RuntimeTypes, RuntimeTick
  PROVE  /\ runtimeExecutions' \in [RuntimeCalls -> RuntimeExecution]
         /\ \A t \in RuntimeCalls :
              LET x == runtimeExecutions[t]  y == runtimeExecutions'[t] IN
              /\ RuntimeClocked(y)
              /\ y.status = x.status /\ y.run = x.run /\ y.tool = x.tool /\ y.cleaned = x.cleaned
              /\ y.ttl = IF x.run \in Runs /\ x.ttl > -Horizon THEN x.ttl - 1 ELSE x.ttl
<1>1. ASSUME NEW t \in RuntimeCalls
      PROVE  LET x == runtimeExecutions[t]  y == runtimeExecutions'[t] IN
             /\ y \in RuntimeExecution /\ RuntimeClocked(y)
             /\ y.status = x.status /\ y.run = x.run /\ y.tool = x.tool /\ y.cleaned = x.cleaned
             /\ y.ttl = IF x.run \in Runs /\ x.ttl > -Horizon THEN x.ttl - 1 ELSE x.ttl
  <2> DEFINE x == runtimeExecutions[t]
             y == runtimeExecutions'[t]
             ttl == IF x.run \in Runs /\ x.ttl > -Horizon THEN x.ttl - 1 ELSE x.ttl
             permitTtl == IF x.permitTtl > 0 THEN x.permitTtl - 1 ELSE x.permitTtl
             retry == IF x.retry > 0 THEN x.retry - 1 ELSE x.retry
  <2>1. x \in RuntimeExecution /\ RuntimeClocked(x)
    BY DEF RuntimeTypes, ToolTypes, TypeOK
  <2>2. /\ ttl \in Int /\ ttl \in -Horizon..(RuntimeLifetime + CompletionGrace)
        /\ permitTtl \in Nat /\ permitTtl \in 0..PermitLifetime /\ retry \in Nat
    BY <2>1, RuntimeAssumption, ToolAssumption DEF RuntimeExecution, RuntimeClocked
  <2>3. y = [x EXCEPT !.ttl = ttl, !.permitTtl = permitTtl, !.retry = retry]
    BY DEF RuntimeTick, AgeRuntimeExecution
  <2> HIDE DEF x, y, ttl, permitTtl, retry
  <2>4. /\ y \in RuntimeExecution /\ RuntimeClocked(y)
        /\ y.status = x.status /\ y.run = x.run /\ y.tool = x.tool /\ y.cleaned = x.cleaned
        /\ y.ttl = ttl
    BY <2>1, <2>2, <2>3 DEF RuntimeExecution, RuntimeClocked
  <2> QED BY <2>4 DEF x, y, ttl
<1>2. runtimeExecutions' = [t \in RuntimeCalls |-> AgeRuntimeExecution(runtimeExecutions[t])]
  BY DEF RuntimeTick
<1>3. runtimeExecutions' \in [RuntimeCalls -> RuntimeExecution]
  BY <1>1, <1>2
<1> QED BY <1>1, <1>3

\* The alarm's record of what it found is typed: overdue calls belong to Runs.
LEMMA AlarmBeginsType ==
  ASSUME RuntimeTypes, CallsOfRuns, AlarmBegins
  PROVE  /\ alarm' \in Alarm /\ alarm'.busy
         /\ alarm'.pending \subseteq {t \in RuntimeCalls : ~runtimeExecutions[t].cleaned}
         /\ alarm'.final = {t \in alarm'.pending : runtimeExecutions[t].ttl <= -Horizon}
<1>1. PICK pending \in Batch({t \in RuntimeCalls : CleanupDue(t)}) :
        alarm' = [busy |-> TRUE, pending |-> pending,
                  failed |-> OverdueRuns \cup
                    {runtimeExecutions[t].run : t \in {u \in RuntimeCalls : RuntimeOverdue(u)}},
                  final |-> {t \in pending : runtimeExecutions[t].ttl <= -Horizon},
                  due |-> {r \in Runs : admissions[r].age >= Lifetime \/ admissions[r].keep = 0}]
  BY DEF AlarmBegins
<1> DEFINE failed == OverdueRuns \cup
             {runtimeExecutions[t].run : t \in {u \in RuntimeCalls : RuntimeOverdue(u)}}
           final == {t \in pending : runtimeExecutions[t].ttl <= -Horizon}
           due == {r \in Runs : admissions[r].age >= Lifetime \/ admissions[r].keep = 0}
<1>2. pending \subseteq {t \in RuntimeCalls : ~runtimeExecutions[t].cleaned}
  BY DEF Batch, CleanupDue
<1>3. failed \subseteq Runs
  <2>1. \A t \in ToolCalls : Overdue(t) => executions[t].run \in Runs
    BY DEF Overdue, CallsOfRuns, OfRun, Vacant
  <2>2. \A t \in RuntimeCalls : RuntimeOverdue(t) => runtimeExecutions[t].run \in Runs
    BY DEF RuntimeOverdue, CallsOfRuns, OfRun, Vacant
  <2> QED BY <2>1, <2>2 DEF OverdueRuns
<1>4. final \subseteq RuntimeCalls /\ due \subseteq Runs
  BY <1>2
<1>5. alarm' = [busy |-> TRUE, pending |-> pending, failed |-> failed, final |-> final, due |-> due]
  BY <1>1
<1> HIDE DEF failed, due
<1>6. alarm' \in Alarm
  BY <1>2, <1>3, <1>4, <1>5 DEF Alarm
<1> QED BY <1>2, <1>5, <1>6

\* The rows with which the alarm ends are typed.
LEMMA AlarmEndsType ==
  ASSUME RuntimeTypes, AlarmEnds
  PROVE  /\ ToolTypes' /\ \A t \in RuntimeCalls : RuntimeClocked(runtimeExecutions'[t])
         /\ alarm' \in Alarm
<1> DEFINE rows == [r \in Runs |-> IF r \in alarm.due THEN CleanRow(r) ELSE admissions[r]]
<1>1. rows \in [Runs -> Admission]
  BY CleanedType DEF RuntimeTypes, ToolTypes, TypeOK, Cleaned
<1>2. admissions' = Repaired(rows, alarm.failed)
  BY DEF AlarmEnds
<1>3. admissions' \in [Runs -> Admission]
  BY <1>1, <1>2, RepairedType
<1>4. EraseLedgers(Erased \cap alarm.due) /\ UNCHANGED <<authority, loading, reserving>>
  BY DEF AlarmEnds
<1>5. ToolTypes'
  BY <1>3, <1>4, EraseType DEF RuntimeTypes, ToolTypes, TypeOK
<1>6. \A t \in RuntimeCalls : RuntimeClocked(runtimeExecutions'[t])
  BY <1>4, ErasedEntries, NoRuntimeCallType DEF RuntimeTypes, ToolTypes
<1>7. alarm' \in Alarm
  BY DEF AlarmEnds, NoAlarm, Alarm
<1> QED BY <1>5, <1>6, <1>7

\* A reservation of a runtime tool is typed.
LEMMA ReserveType ==
  ASSUME RuntimeTypes, NEW t \in RuntimeCalls, NEW r \in Runs, NEW tool \in Tools,
         RuntimeReserve(t, r, tool)
  PROVE  RuntimeTypes'
<1>1. /\ runtimeExecutions' \in [RuntimeCalls -> RuntimeExecution]
      /\ \A u \in RuntimeCalls : RuntimeClocked(runtimeExecutions'[u])
  BY ReserveMoves, ClaimedIs, OneRuntimeCallTyped DEF RuntimeTypes
<1>2. admissions' \in [Runs -> Admission]
  <2>1. admissions \in [Runs -> Admission] /\ admissions[r].toolCalls + 1 \in Nat
    BY DEF RuntimeTypes, ToolTypes, TypeOK, Admission
  <2>2. [admissions[r] EXCEPT !.toolCalls = @ + 1] \in Admission
    BY <2>1 DEF Admission
  <2>3. admissions' = [admissions EXCEPT ![r].toolCalls = @ + 1]
    BY ReserveMoves DEF RuntimeTypes
  <2> QED BY <2>1, <2>2, <2>3
<1>3. UNCHANGED <<authority, loading, executions, approvals, reserving, sandboxes, alarm>>
  BY ReserveMoves DEF RuntimeTypes
<1> QED BY <1>1, <1>2, <1>3 DEF RuntimeTypes, ToolTypes, TypeOK

\* A dispatch asks at most the call's own Sandbox to open.
LEMMA DispatchBoxes ==
  ASSUME RuntimeTypes, NEW t \in RuntimeCalls, NEW delivered \in BOOLEAN,
         RuntimeDispatch(t, delivered)
  PROVE  /\ sandboxes' \in [RuntimeCalls -> Sandbox]
         /\ \A u \in RuntimeCalls : /\ sandboxes'[u].awaited = sandboxes[u].awaited
                                    /\ sandboxes'[u].running = sandboxes[u].running
         /\ \A u \in RuntimeCalls \ {t} : sandboxes'[u] = sandboxes[u]
         /\ sandboxes'[t].opening =>
              /\ runtimeExecutions[t].tool = "sandbox" /\ runtimeExecutions[t].ttl > CompletionGrace
              /\ runtimeExecutions[t].status = "reserved"
<1>1. sandboxes \in [RuntimeCalls -> Sandbox]
  BY DEF RuntimeTypes
<1>2. PICK opening \in BOOLEAN :
        /\ sandboxes' = [sandboxes EXCEPT ![t].opening = opening]
        /\ opening => runtimeExecutions[t].tool = "sandbox"
  BY DEF RuntimeDispatch
<1> DEFINE b == [sandboxes[t] EXCEPT !.opening = opening]
<1>3. /\ b \in Sandbox /\ b.awaited = sandboxes[t].awaited /\ b.running = sandboxes[t].running
      /\ b.opening = opening
  BY <1>1 DEF Sandbox
<1>4. sandboxes' = [sandboxes EXCEPT ![t] = b]
  BY <1>2
<1> HIDE DEF b
<1> QED BY <1>1, <1>2, <1>3, <1>4, OneBox DEF RuntimeDispatch

\* An alarm that gives up one of the Sandboxes it has to destroy.
LEMMA GivesUpType ==
  ASSUME RuntimeTypes, NEW t, alarm' = [alarm EXCEPT !.pending = @ \ {t}]
  PROVE  /\ alarm' \in Alarm /\ alarm'.pending = alarm.pending \ {t}
         /\ alarm'.final = alarm.final /\ alarm'.busy = alarm.busy
BY DEF RuntimeTypes, Alarm

\* Every step keeps everything typed.
LEMMA RuntimeTypesStep ==
  ASSUME RuntimeTypes, CallsOfRuns, [RuntimeNext]_runtimeVars
  PROVE  RuntimeTypes'
<1>1. ASSUME runtimeExecutions' \in [RuntimeCalls -> RuntimeExecution], SameEntries,
             UNCHANGED <<authority, admissions, loading, executions, approvals, reserving>>,
             sandboxes' \in [RuntimeCalls -> Sandbox], alarm' \in Alarm
      PROVE  RuntimeTypes'
  BY <1>1 DEF RuntimeTypes, ToolTypes, TypeOK, SameEntries, Alike
<1>2. ASSUME UNCHANGED toolVars, sandboxes' \in [RuntimeCalls -> Sandbox], alarm' \in Alarm
      PROVE  RuntimeTypes'
  BY <1>1, <1>2, EntriesStay DEF toolVars, vars
<1>3. CASE (AdmissionsNext /\ UNCHANGED reserving) /\ UNCHANGED <<sandboxes, alarm>>
  <2>1. ToolTypes'
    BY <1>3, AdmissionsToolType DEF RuntimeTypes
  <2>2. PICK gone : EraseLedgers(gone)
    BY <1>3, AdmissionsErase DEF RuntimeTypes, ToolTypes
  <2>3. \A t \in RuntimeCalls : RuntimeClocked(runtimeExecutions'[t])
    BY <2>2, ErasedEntries, NoRuntimeCallType DEF RuntimeTypes, ToolTypes
  <2> QED BY <1>3, <2>1, <2>3 DEF RuntimeTypes
<1>4. CASE CallNext /\ UNCHANGED <<sandboxes, alarm>>
  BY <1>4, CallNextType DEF RuntimeTypes
<1>5. CASE RuntimeCallNext
  <2>1. PICK t \in RuntimeCalls :
          \/ \E r \in Runs, tool \in Tools : RuntimeReserve(t, r, tool)
          \/ \E delivered \in BOOLEAN : RuntimeDispatch(t, delivered)
          \/ \E outcome \in {"completed", "failed", "unknown"}, oversized \in BOOLEAN :
               RuntimeComplete(t, outcome, oversized)
    BY <1>5 DEF RuntimeCallNext
  <2>2. CASE \E delivered \in BOOLEAN : RuntimeDispatch(t, delivered)
    BY <1>1, <2>2, CallMoves, CallMovesEntries, DispatchBoxes DEF RuntimeTypes
  <2>3. CASE \E outcome \in {"completed", "failed", "unknown"}, oversized \in BOOLEAN :
               RuntimeComplete(t, outcome, oversized)
    BY <1>1, <2>3, CallMoves, CallMovesEntries DEF RuntimeTypes, RuntimeComplete
  <2> QED BY <2>1, <2>2, <2>3, ReserveType
<1>6. CASE SandboxNext
  BY <1>2, <1>6, BackgroundDrifts DEF SandboxNext, RuntimeTypes
<1>7. CASE AlarmNext
  <2>1. CASE AlarmBegins
    <3>1. /\ executions' = Settled /\ runtimeExecutions' = RuntimeSettled
          /\ UNCHANGED <<authority, admissions, loading, approvals, reserving, sandboxes>>
      BY <2>1 DEF AlarmBegins
    <3> QED BY <2>1, <3>1, SettledType, SettledEntries, AlarmBeginsType
            DEF RuntimeTypes, ToolTypes, TypeOK, SameEntries, Alike
  <2>2. ASSUME NEW t \in RuntimeCalls, OwnerPurges(t) \/ OwnerStops(t)
        PROVE  RuntimeTypes'
    <3>1. sandboxes' \in [RuntimeCalls -> Sandbox]
      BY <2>2, AwaitedPurges DEF RuntimeTypes, Purge
    <3> QED BY <1>2, <2>2, <3>1 DEF OwnerPurges, OwnerStops, RuntimeTypes
  <2>3. ASSUME NEW t \in RuntimeCalls, OwnerPurged(t) \/ OwnerPurgeFails(t)
        PROVE  RuntimeTypes'
    <3>1. sandboxes' \in [RuntimeCalls -> Sandbox]
      BY <2>3, AwaitedPurges DEF RuntimeTypes, Purge
    <3>2. alarm' \in Alarm
      BY <2>3, GivesUpType DEF OwnerPurged, OwnerPurgeFails
    <3> QED BY <1>1, <2>3, <3>1, <3>2, PurgeMovesEntries DEF OwnerPurged, OwnerPurgeFails
  <2>4. CASE AlarmEnds
    BY <2>4, AlarmEndsType DEF AlarmEnds, RuntimeTypes
  <2> QED BY <1>7, <2>1, <2>2, <2>3, <2>4 DEF AlarmNext
<1>8. CASE RuntimeTick
  BY <1>8, AgedEntries, AgeCallsType DEF RuntimeTick, RuntimeTypes
<1>9. CASE RuntimeRestart
  <2>1. alarm' \in Alarm
    BY <1>9 DEF RuntimeRestart, NoAlarm, Alarm
  <2>2. /\ runtimeExecutions' = runtimeExecutions /\ loading' = {} /\ reserving' = {}
        /\ UNCHANGED <<authority, admissions, executions, approvals>>
    BY <1>9 DEF RuntimeRestart, ledgers
  <2> QED BY <1>9, <2>1, <2>2, RestartedBoxes DEF RuntimeTypes, ToolTypes, TypeOK
<1>10. CASE UNCHANGED runtimeVars
  BY <1>2, <1>10 DEF runtimeVars, RuntimeTypes
<1> QED BY <1>3, <1>4, <1>5, <1>6, <1>7, <1>8, <1>9, <1>10 DEF RuntimeNext

-----------------------------------------------------------------------------
(* Every step is a ledger step *)

\* Rows that are cleaned or not, and of which the inbox entries of some are repaired.
LEMMA AlarmEndsSweep ==
  ASSUME RuntimeTypes, AlarmEnds
  PROVE  \E gone \in SUBSET Erased : Sweep(gone)
<1> DEFINE gone == Erased \cap alarm.due
           rows == [r \in Runs |-> IF r \in alarm.due THEN CleanRow(r) ELSE admissions[r]]
<1>0. TypeOK /\ admissions \in [Runs -> Admission]
  BY DEF RuntimeTypes, ToolTypes, TypeOK
<1>1. admissions' = Repaired(rows, alarm.failed) /\ EraseLedgers(gone) /\ reserving' = reserving
  BY DEF AlarmEnds
<1>2. rows \in [Runs -> Admission]
  BY <1>0, CleanedType DEF Cleaned
<1>3. ASSUME NEW r \in Runs, r \in gone
      PROVE  admissions'[r] = Deleted
  <2>1. rows[r] = Deleted
    BY <1>0, <1>3, CleanKept
  <2> QED BY <1>1, <2>1 DEF Repaired, Deleted, Blank
<1>4. ASSUME NEW r \in Runs, r \notin gone
      PROVE  Kept(r)
  <2>1. Keeps(admissions[r], rows[r], Dispatched(r))
    <3>1. CASE r \in alarm.due
      BY <1>0, <1>4, <3>1, CleanKept
    <3>2. CASE r \notin alarm.due
      BY <3>2 DEF Keeps
    <3> QED BY <3>1, <3>2
  <2>2. Keeps(rows[r], admissions'[r], Dispatched(r))
    BY <1>1, <1>2, RepairedKept
  <2> QED BY <2>1, <2>2 DEF Kept, Keeps
<1> HIDE DEF rows
<1>5. Sweep(gone) /\ gone \in SUBSET Erased
  BY <1>1, <1>3, <1>4 DEF Sweep
<1> QED BY <1>5

\* The composition moves the ledgers as the calls of sessions and of the owner do.
LEMMA RuntimeNextIsLedgerStep ==
  ASSUME RuntimeTypes, [RuntimeNext]_runtimeVars
  PROVE  LedgerStep
<1>0. TypeOK /\ ToolTypes
  BY DEF RuntimeTypes, ToolTypes
<1>1. ASSUME SameEntries, UNCHANGED <<admissions, executions, approvals, reserving>>
      PROVE  LedgerStep
  <2>1. SameRuntimeCalls
    BY <1>1 DEF SameEntries, Alike, SameRuntimeCalls
  <2> QED BY <1>1, <2>1, SameKept DEF LedgerStep, SettleStep, Settles
<1>2. ASSUME UNCHANGED <<admissions, ledgers>>, reserving' \subseteq reserving
      PROVE  LedgerStep
  BY <1>2, NothingSettles DEF ledgers, LedgerStep
<1>3. CASE (AdmissionsNext /\ UNCHANGED reserving) /\ UNCHANGED <<sandboxes, alarm>>
  BY <1>0, <1>3, AdmissionsSweep DEF LedgerStep
<1>4. CASE CallNext /\ UNCHANGED <<sandboxes, alarm>>
  BY <1>0, <1>4, CallNextIsLedgerStep
<1>5. CASE RuntimeCallNext
  <2>1. PICK t \in RuntimeCalls :
          \/ \E r \in Runs, tool \in Tools : RuntimeReserve(t, r, tool)
          \/ \E delivered \in BOOLEAN : RuntimeDispatch(t, delivered)
          \/ \E outcome \in {"completed", "failed", "unknown"}, oversized \in BOOLEAN :
               RuntimeComplete(t, outcome, oversized)
    BY <1>5 DEF RuntimeCallNext
  <2>2. ASSUME NEW r \in Runs, NEW tool \in Tools, RuntimeReserve(t, r, tool)
        PROVE  RuntimeClaim(t, r)
    <3>1. runtimeExecutions \in [RuntimeCalls -> RuntimeExecution]
      BY <1>0 DEF TypeOK
    <3>2. runtimeExecutions'[t] = Claimed(r, tool)
          /\ \A u \in RuntimeCalls \ {t} : runtimeExecutions'[u] = runtimeExecutions[u]
      BY <1>0, <2>2, <3>1, ReserveMoves
    <3> QED BY <1>0, <2>2, <3>2, ReserveMoves, ClaimedIs DEF RuntimeClaim, Vacant, Present
  <2>3. CASE \/ \E delivered \in BOOLEAN : RuntimeDispatch(t, delivered)
             \/ \E outcome \in {"completed", "failed", "unknown"}, oversized \in BOOLEAN :
                  RuntimeComplete(t, outcome, oversized)
    BY <1>0, <1>1, <2>3, CallMoves, CallMovesEntries
  <2> QED BY <2>1, <2>2, <2>3 DEF LedgerStep
<1>6. CASE SandboxNext
  BY <1>2, <1>6, BackgroundDrifts DEF SandboxNext, RuntimeTypes, toolVars, vars, ledgers
<1>7. CASE AlarmNext
  <2>1. CASE AlarmBegins
    <3>1. SameRuntimeCalls
      BY <2>1, SettledEntries DEF AlarmBegins, SameEntries, Alike, SameRuntimeCalls
    <3>2. \A t \in ToolCalls : Settles(executions[t], executions'[t])
      BY <1>0, <2>1, SettledSettles DEF AlarmBegins
    <3> QED BY <2>1, <3>1, <3>2, SameKept DEF AlarmBegins, SettleStep, LedgerStep
  <2>2. ASSUME NEW t \in RuntimeCalls, OwnerPurges(t) \/ OwnerStops(t)
        PROVE  LedgerStep
    BY <1>2, <2>2 DEF OwnerPurges, OwnerStops, toolVars, vars, ledgers
  <2>3. ASSUME NEW t \in RuntimeCalls, OwnerPurged(t) \/ OwnerPurgeFails(t)
        PROVE  LedgerStep
    BY <1>1, <2>3, PurgeMovesEntries DEF OwnerPurged, OwnerPurgeFails
  <2>4. CASE AlarmEnds
    BY <2>4, AlarmEndsSweep DEF LedgerStep
  <2> QED BY <1>7, <2>1, <2>2, <2>3, <2>4 DEF AlarmNext
<1>8. CASE RuntimeTick
  <2>1. SameRuntimeCalls
    BY <1>8, AgedEntries DEF SameRuntimeCalls, Vacant
  <2> QED BY <1>8, <2>1 DEF RuntimeTick, LedgerStep
<1>9. CASE RuntimeRestart
  BY <1>2, <1>9 DEF RuntimeRestart
<1>10. CASE UNCHANGED runtimeVars
  BY <1>2, <1>10 DEF runtimeVars, toolVars, vars, ledgers
<1> QED BY <1>3, <1>4, <1>5, <1>6, <1>7, <1>8, <1>9, <1>10 DEF RuntimeNext

-----------------------------------------------------------------------------
(* Sandboxes and what the owner knows of them *)

\* A Sandbox the owner has forgotten is gone for good: its deadline is a horizon ago.
\* What the alarm is about to destroy is not forgotten; and what it is about to
\* forget, once destroyed, cannot open again.
SandboxSafe(t) ==
  LET x == runtimeExecutions[t]  box == sandboxes[t] IN
  /\ Vacant(x) => x.cleaned
  /\ x.cleaned => ~box.running /\ ~box.opening
  /\ x.cleaned /\ x.tool = "sandbox" => x.ttl <= -Horizon
  /\ box.opening => x.ttl >= -OpenWindow
  /\ t \in alarm.pending => ~x.cleaned /\ alarm.busy
  /\ t \in alarm.pending \cap alarm.final => x.ttl <= -Horizon
  /\ box.awaited # "none" => t \in alarm.pending
  /\ box.awaited = "stopped" /\ t \in alarm.final => ~box.running

\* A step that neither forgets a Sandbox nor asks it to open nor moves its deadline.
LEMMA SafeStays ==
  ASSUME NEW t \in RuntimeCalls, RuntimeTypes, SandboxSafe(t),
         runtimeExecutions'[t].cleaned = runtimeExecutions[t].cleaned,
         Alike(runtimeExecutions[t], runtimeExecutions'[t]),
         Drifts(sandboxes[t], sandboxes'[t]), alarm' = alarm
  PROVE  SandboxSafe(t)'
<1>1. /\ runtimeExecutions[t].ttl \in Int /\ Horizon \in Int /\ OpenWindow \in Int
      /\ OpenWindow < Horizon
  BY RuntimeAssumption DEF RuntimeTypes, ToolTypes, TypeOK, RuntimeExecution
<1>2. sandboxes[t].opening => ~(t \in alarm.pending \cap alarm.final)
  BY <1>1 DEF SandboxSafe
<1> QED BY <1>2 DEF SandboxSafe, Alike, Drifts

\* So is one that leaves the call, its Sandbox and the alarm as they are.
LEMMA SafeSame ==
  ASSUME NEW t \in RuntimeCalls, SandboxSafe(t),
         runtimeExecutions'[t] = runtimeExecutions[t], sandboxes'[t] = sandboxes[t], alarm' = alarm
  PROVE  SandboxSafe(t)'
BY DEF SandboxSafe

\* Only Runs without a Sandbox to destroy are erased.
LEMMA SafeErased ==
  ASSUME NEW t \in RuntimeCalls, RuntimeTypes, CallsOfRuns, SandboxSafe(t),
         NEW gone \in SUBSET Erased, EraseLedgers(gone),
         sandboxes' = sandboxes, alarm' \in {alarm, NoAlarm},
         alarm' = NoAlarm => alarm.pending = {}
  PROVE  SandboxSafe(t)'
<1>0. TypeOK
  BY DEF RuntimeTypes, ToolTypes
<1>1. CASE runtimeExecutions[t].run \in gone
  <2>1. runtimeExecutions[t].cleaned
    BY <1>1 DEF Erased, Unresolved
  <2>2. runtimeExecutions'[t] = [NoRuntimeExecution EXCEPT !.status = "deleted"]
    BY <1>0, <1>1, ErasedEntries
  <2>3. runtimeExecutions'[t].cleaned /\ runtimeExecutions'[t].tool = "none"
    BY <2>2 DEF NoRuntimeExecution
  <2> QED BY <2>1, <2>3 DEF SandboxSafe, NoAlarm
<1>2. CASE runtimeExecutions[t].run \notin gone
  <2>1. runtimeExecutions'[t] = runtimeExecutions[t]
    BY <1>0, <1>2, ErasedEntries
  <2> QED BY <2>1 DEF SandboxSafe, NoAlarm
<1> QED BY <1>1, <1>2

\* A reservation enters a call whose Sandbox was never asked for.
LEMMA SafeReserved ==
  ASSUME NEW t \in RuntimeCalls, RuntimeTypes, \A u \in RuntimeCalls : SandboxSafe(u),
         NEW c \in RuntimeCalls, NEW r \in Runs, NEW tool \in Tools, RuntimeReserve(c, r, tool)
  PROVE  SandboxSafe(t)'
<1>1. /\ runtimeExecutions[c].status = "none"
      /\ runtimeExecutions' = [runtimeExecutions EXCEPT ![c] = Claimed(r, tool)]
      /\ UNCHANGED <<sandboxes, alarm>> /\ RuntimeDuration(r) > 0
      /\ runtimeExecutions \in [RuntimeCalls -> RuntimeExecution]
  BY ReserveMoves DEF RuntimeTypes, ToolTypes, TypeOK
<1>2. CASE t # c
  BY <1>1, <1>2, SafeSame
<1>3. CASE t = c
  <2>1. runtimeExecutions[t].cleaned /\ SandboxSafe(t)
    BY <1>1, <1>3 DEF SandboxSafe, Vacant
  <2>2. ~sandboxes[t].running /\ ~sandboxes[t].opening /\ t \notin alarm.pending
    BY <2>1 DEF SandboxSafe
  <2>3. /\ runtimeExecutions'[t].status = "reserved"
        /\ runtimeExecutions'[t].cleaned => runtimeExecutions'[t].tool # "sandbox"
    <3>1. runtimeExecutions'[t] = Claimed(r, tool)
      BY <1>1, <1>3
    <3>2. /\ Claimed(r, tool).status = "reserved" /\ Claimed(r, tool).tool = tool
          /\ Claimed(r, tool).cleaned = (tool # "sandbox")
      BY <1>1, ClaimedIs DEF RuntimeTypes
    <3> QED BY <3>1, <3>2
  <2> QED BY <1>1, <2>1, <2>2, <2>3 DEF SandboxSafe, Vacant
<1> QED BY <1>2, <1>3

\* A dispatch comes before the deadline.
LEMMA SafeDispatched ==
  ASSUME NEW t \in RuntimeCalls, RuntimeTypes, \A u \in RuntimeCalls : SandboxSafe(u),
         NEW c \in RuntimeCalls, NEW delivered \in BOOLEAN, RuntimeDispatch(c, delivered)
  PROVE  SandboxSafe(t)'
<1>1. /\ alarm' = alarm /\ runtimeExecutions'[t].cleaned = runtimeExecutions[t].cleaned
      /\ Alike(runtimeExecutions[t], runtimeExecutions'[t])
  BY CallMovesEntries DEF RuntimeDispatch, SameEntries, SameCleaned
<1>2. CASE sandboxes'[t].opening => sandboxes[t].opening
  BY <1>1, <1>2, DispatchBoxes, SafeStays DEF Drifts
<1>3. CASE sandboxes'[t].opening /\ ~sandboxes[t].opening
  <2>1. /\ runtimeExecutions[t].tool = "sandbox" /\ runtimeExecutions[t].ttl > CompletionGrace
        /\ runtimeExecutions[t].status = "reserved"
    BY <1>3, DispatchBoxes
  <2>2. /\ runtimeExecutions[t].ttl \in Int /\ CompletionGrace \in Nat
        /\ Horizon \in Nat /\ OpenWindow \in Nat
    BY RuntimeAssumption DEF RuntimeTypes, ToolTypes, TypeOK, RuntimeExecution
  <2>3. runtimeExecutions[t].ttl >= -OpenWindow /\ ~(runtimeExecutions[t].ttl <= -Horizon)
    BY <2>1, <2>2
  <2>4. ~runtimeExecutions[t].cleaned
    BY <2>1, <2>3 DEF SandboxSafe
  <2> QED BY <1>1, <2>3, <2>4, DispatchBoxes DEF SandboxSafe, Alike
<1> QED BY <1>2, <1>3

\* When the alarm begins, no purge is awaited.
LEMMA SafeBegun ==
  ASSUME NEW t \in RuntimeCalls, RuntimeTypes, CallsOfRuns, SandboxSafe(t), AlarmBegins
  PROVE  SandboxSafe(t)'
<1>1. /\ Alike(runtimeExecutions[t], runtimeExecutions'[t])
      /\ runtimeExecutions'[t].cleaned = runtimeExecutions[t].cleaned
  BY SettledEntries DEF AlarmBegins, SameEntries, SameCleaned
<1>2. sandboxes' = sandboxes /\ ~alarm.busy
  BY DEF AlarmBegins
<1>3. /\ alarm'.busy /\ (t \in alarm'.pending => ~runtimeExecutions[t].cleaned)
      /\ t \in alarm'.final => runtimeExecutions[t].ttl <= -Horizon
  BY AlarmBeginsType
<1>4. sandboxes[t].awaited = "none"
  BY <1>2 DEF SandboxSafe
<1> QED BY <1>1, <1>2, <1>3, <1>4 DEF SandboxSafe, Alike

\* The purges the alarm awaits: what it forgets was stopped, and did not open since.
LEMMA SafePurged ==
  ASSUME NEW t \in RuntimeCalls, RuntimeTypes, \A u \in RuntimeCalls : SandboxSafe(u),
         NEW c \in RuntimeCalls,
         OwnerPurges(c) \/ OwnerStops(c) \/ OwnerPurged(c) \/ OwnerPurgeFails(c)
  PROVE  SandboxSafe(t)'
<1>0. /\ runtimeExecutions[c].ttl \in Int /\ Horizon \in Int /\ OpenWindow \in Int
      /\ OpenWindow < Horizon /\ sandboxes \in [RuntimeCalls -> Sandbox]
  BY RuntimeAssumption DEF RuntimeTypes, ToolTypes, TypeOK, RuntimeExecution
<1>1. CASE OwnerPurges(c) \/ OwnerStops(c)
  <2>1. UNCHANGED <<runtimeExecutions, alarm>>
    BY <1>1 DEF OwnerPurges, OwnerStops, toolVars, vars
  <2>2. c \in alarm.pending
    BY <1>1 DEF OwnerPurges, OwnerStops, SandboxSafe
  <2>3. PICK p \in {"marked", "stopped"} :
          /\ Purged(sandboxes[c], sandboxes'[c], p)
          /\ \A u \in RuntimeCalls \ {c} : sandboxes'[u] = sandboxes[u]
    BY <1>0, <1>1, AwaitedPurges DEF Purge
  <2>4. CASE t = c
    BY <2>1, <2>2, <2>3, <2>4 DEF SandboxSafe, Purged
  <2>5. CASE t # c
    BY <2>1, <2>3, <2>5, SafeSame
  <2> QED BY <2>4, <2>5
<1>2. CASE OwnerPurged(c) \/ OwnerPurgeFails(c)
  <2>1. /\ Purged(sandboxes[c], sandboxes'[c], "none")
        /\ \A u \in RuntimeCalls \ {c} : sandboxes'[u] = sandboxes[u]
    BY <1>0, <1>2, AwaitedPurges DEF Purge
  <2>2. /\ alarm'.pending = alarm.pending \ {c} /\ alarm'.final = alarm.final
        /\ alarm'.busy = alarm.busy
    BY <1>2, GivesUpType DEF OwnerPurged, OwnerPurgeFails
  <2>3. /\ Alike(runtimeExecutions[t], runtimeExecutions'[t])
        /\ \/ runtimeExecutions'[t].cleaned = runtimeExecutions[t].cleaned
           \/ t = c /\ OwnerPurged(c) /\ Releases(c)
    BY <1>2, PurgeMovesEntries DEF SameEntries
  <2>4. CASE t # c
    BY <2>1, <2>2, <2>3, <2>4 DEF SandboxSafe, Alike
  <2>5. CASE t = c /\ runtimeExecutions'[t].cleaned = runtimeExecutions[t].cleaned
    BY <2>1, <2>2, <2>3, <2>5 DEF SandboxSafe, Alike, Purged
  <2>6. CASE t = c /\ OwnerPurged(c) /\ Releases(c)
    <3>1. sandboxes[t].awaited = "stopped" /\ t \in alarm.final
      BY <2>6 DEF OwnerPurged, Releases
    <3>2. t \in alarm.pending /\ ~sandboxes[t].running /\ runtimeExecutions[t].ttl <= -Horizon
      BY <3>1 DEF SandboxSafe
    <3>3. ~sandboxes[t].opening
      BY <1>0, <2>6, <3>2 DEF SandboxSafe
    <3> QED BY <2>1, <2>2, <2>3, <2>6, <3>2, <3>3 DEF SandboxSafe, Alike, Purged
  <2> QED BY <2>3, <2>4, <2>5, <2>6
<1> QED BY <1>1, <1>2

\* No step forgets a Sandbox that runs or can still open.
LEMMA SandboxSafeStep ==
  ASSUME RuntimeTypes, CallsOfRuns, \A t \in RuntimeCalls : SandboxSafe(t),
         [RuntimeNext]_runtimeVars
  PROVE  \A t \in RuntimeCalls : SandboxSafe(t)'
<1> SUFFICES ASSUME NEW t \in RuntimeCalls
             PROVE  SandboxSafe(t)'
  OBVIOUS
<1>0. TypeOK /\ ToolTypes
  BY DEF RuntimeTypes, ToolTypes
<1>1. CASE (AdmissionsNext /\ UNCHANGED reserving) /\ UNCHANGED <<sandboxes, alarm>>
  <2>1. PICK gone \in SUBSET Erased : EraseLedgers(gone)
    BY <1>0, <1>1, AdmissionsErase
  <2>2. UNCHANGED <<sandboxes, alarm>> /\ (alarm' = NoAlarm => alarm.pending = {})
    BY <1>1 DEF NoAlarm
  <2> QED BY <2>1, <2>2, SafeErased
<1>2. CASE CallNext /\ UNCHANGED <<sandboxes, alarm>>
  BY <1>0, <1>2, CallNextType, SafeSame
<1>3. CASE RuntimeCallNext
  <2>1. PICK c \in RuntimeCalls :
          \/ \E r \in Runs, tool \in Tools : RuntimeReserve(c, r, tool)
          \/ \E delivered \in BOOLEAN : RuntimeDispatch(c, delivered)
          \/ \E outcome \in {"completed", "failed", "unknown"}, oversized \in BOOLEAN :
               RuntimeComplete(c, outcome, oversized)
    BY <1>3 DEF RuntimeCallNext
  <2>2. ASSUME NEW outcome \in {"completed", "failed", "unknown"}, NEW oversized \in BOOLEAN,
               RuntimeComplete(c, outcome, oversized)
        PROVE  SandboxSafe(t)'
    <3>1. SameEntries /\ SameCleaned /\ UNCHANGED <<sandboxes, alarm>>
      BY <2>2, CallMovesEntries DEF RuntimeComplete
    <3> QED BY <3>1, SafeStays DEF SameEntries, SameCleaned, Drifts
  <2> QED BY <2>1, <2>2, SafeReserved, SafeDispatched
<1>4. CASE SandboxNext
  <2>1. /\ Drifts(sandboxes[t], sandboxes'[t]) /\ UNCHANGED <<toolVars, alarm>>
    BY <1>4, BackgroundDrifts DEF SandboxNext, RuntimeTypes
  <2>2. runtimeExecutions' = runtimeExecutions
    BY <2>1 DEF toolVars, vars
  <2> QED BY <2>1, <2>2, EntriesStay, SafeStays DEF SameEntries
<1>5. CASE AlarmNext
  <2>1. CASE AlarmEnds
    <3>1. /\ EraseLedgers(Erased \cap alarm.due) /\ alarm' = NoAlarm /\ alarm.pending = {}
          /\ sandboxes' = sandboxes
      BY <2>1 DEF AlarmEnds
    <3> QED BY <3>1, SafeErased
  <2> QED BY <1>5, <2>1, SafeBegun, SafePurged DEF AlarmNext
<1>6. CASE RuntimeTick
  <2> DEFINE x == runtimeExecutions[t]
             y == runtimeExecutions'[t]
  <2>1. /\ y.status = x.status /\ y.tool = x.tool /\ y.cleaned = x.cleaned
        /\ y.ttl = IF x.run \in Runs /\ x.ttl > -Horizon THEN x.ttl - 1 ELSE x.ttl
    BY <1>6, AgedEntries
  <2>2. /\ UNCHANGED <<sandboxes, alarm>>
        /\ sandboxes[t].opening => x.ttl > -OpenWindow
    BY <1>6 DEF RuntimeTick
  <2>3. x.ttl \in Int /\ Horizon \in Int /\ OpenWindow \in Int
    BY RuntimeAssumption DEF RuntimeTypes, ToolTypes, TypeOK, RuntimeExecution
  <2>4. SandboxSafe(t)
    OBVIOUS
  <2> HIDE DEF x, y
  <2>5. /\ sandboxes[t].opening => y.ttl >= -OpenWindow
        /\ x.ttl <= -Horizon => y.ttl <= -Horizon
    BY <2>1, <2>2, <2>3
  <2> QED BY <2>1, <2>2, <2>4, <2>5 DEF SandboxSafe, Vacant, x, y
<1>7. CASE RuntimeRestart
  <2>1. Purged(sandboxes[t], sandboxes'[t], "none")
    BY <1>7, RestartedBoxes DEF RuntimeTypes
  <2>2. runtimeExecutions' = runtimeExecutions /\ alarm' = NoAlarm
    BY <1>7 DEF RuntimeRestart, ledgers
  <2> QED BY <2>1, <2>2 DEF SandboxSafe, Purged, NoAlarm
<1>8. CASE UNCHANGED runtimeVars
  BY <1>8, SafeSame DEF runtimeVars, toolVars, vars
<1> QED BY <1>1, <1>2, <1>3, <1>4, <1>5, <1>6, <1>7, <1>8 DEF RuntimeNext

-----------------------------------------------------------------------------
(* The theorems *)

RuntimeInv == RuntimeTypes /\ LedgerInv /\ \A t \in RuntimeCalls : SandboxSafe(t)

\* The initial state.
LEMMA RuntimeInitInv ==
  ASSUME RuntimeInit
  PROVE  RuntimeInv
<1>1. ToolTypes
  BY TypeInit, NoCallType DEF RuntimeInit, ToolInit, Init, ToolTypes
<1>2. \A t \in RuntimeCalls : runtimeExecutions[t] = NoRuntimeExecution
  BY DEF RuntimeInit, ToolInit, Init
<1>3. RuntimeTypes
  <2>1. NoSandbox \in Sandbox /\ NoAlarm \in Alarm
    BY DEF NoSandbox, Sandbox, Purge, NoAlarm, Alarm
  <2> QED BY <1>1, <1>2, <2>1, NoRuntimeCallType DEF RuntimeInit, RuntimeTypes
<1>4. \A t \in RuntimeCalls : SandboxSafe(t)
  BY <1>2 DEF RuntimeInit, SandboxSafe, NoSandbox, NoAlarm, NoRuntimeExecution, Vacant
<1> QED BY <1>3, <1>4, LedgerInit DEF RuntimeInit, RuntimeInv

\* Every step keeps it.
LEMMA RuntimeInvStep ==
  ASSUME RuntimeInv, [RuntimeNext]_runtimeVars
  PROVE  RuntimeInv'
<1>1. RuntimeTypes /\ CallsOfRuns /\ LedgerInv /\ ToolTypes
  BY DEF RuntimeInv, RuntimeTypes, LedgerInv
<1>2. LedgerInv'
  BY <1>1, RuntimeNextIsLedgerStep, LedgerInvStep
<1> QED BY <1>1, <1>2, RuntimeTypesStep, SandboxSafeStep DEF RuntimeInv

\* The invariant of the whole: the ledgers, the Sandboxes and the alarm.
THEOREM RuntimeInvariant == RuntimeSpec => []RuntimeInv
BY RuntimeInitInv, RuntimeInvStep, PTL DEF RuntimeSpec

\* The three ledgers, the Sandboxes and the alarm are well typed, and every clock
\* stays in its range.
THEOREM RuntimeTypeCorrect == RuntimeSpec => []RuntimeTypeOK
BY RuntimeInvariant, RuntimeTypesIs, PTL DEF RuntimeInv

\* The owner forgets a Sandbox only when it neither runs nor can open any more,
\* whatever purges hang, fail or overtake each other, and whatever restarts.
THEOREM SandboxesGone == RuntimeSpec => []SandboxGoneBeforeForgotten
<1>1. RuntimeInv => SandboxGoneBeforeForgotten
  BY DEF RuntimeInv, SandboxSafe, SandboxGoneBeforeForgotten
<1> QED BY <1>1, RuntimeInvariant, PTL

\* Beside runtime tools, an alarm that awaits in its middle and restarts, the budget is
\* conserved, cancellation and dispatch exclude each other and grants are respected.
THEOREM RuntimeLedger ==
  RuntimeSpec => [](BudgetConserved /\ CancellationExcludesDispatch /\ GrantRespected)
<1>1. RuntimeInv => BudgetConserved /\ CancellationExcludesDispatch /\ GrantRespected
  BY LedgerInvImplies DEF RuntimeInv, RuntimeTypes
<1> QED BY <1>1, RuntimeInvariant, PTL


\* Outcomes stay final beside runtime tools, restarts and an alarm that erases the Runs
\* it found past their retention a few awaits ago.
THEOREM RuntimeOutcomesStand ==
  ASSUME MaxDuration + AlarmLag < Retention
  PROVE  RuntimeSpec => OutcomeIsFinal
<1>1. RuntimeInit => CallsEndInTime
  BY LedgerInit DEF RuntimeInit
<1>2. RuntimeInv => /\ RuntimeTypes /\ ToolTypes /\ CallsOfRuns /\ Affordable
  BY DEF RuntimeInv, RuntimeTypes, LedgerInv
<1>3. RuntimeInv /\ CallsEndInTime /\ [RuntimeNext]_runtimeVars => CallsEndInTime'
  BY <1>2, RuntimeNextIsLedgerStep, EndsInTimeStep
<1>4. RuntimeInv /\ CallsEndInTime /\ [RuntimeNext]_runtimeVars =>
        [\A t \in ToolCalls :
          /\ executions[t].status \in {"completed", "failed", "deleted"} =>
               executions'[t].status \in {executions[t].status, "deleted"}
          /\ executions[t].status = "unknown" =>
               executions'[t].status = "unknown" \/ executions'[t].reconciliation # "none"
          /\ /\ executions[t].status = "reserved" /\ executions[t].dispatched
             /\ executions[t].effect \notin Reads
             => executions'[t].status # "deleted"]_toolVars
  BY <1>2, RuntimeNextIsLedgerStep, OutcomeStep, DispatchedNotErased DEF OutcomeKept
<1> QED BY <1>1, <1>3, <1>4, RuntimeInvariant, PTL DEF RuntimeSpec, OutcomeIsFinal


-----------------------------------------------------------------------------
(* The guarantees of the admissions beside runtime tools and the alarm *)

\* The end of an alarm cleans the admissions that were due when it began.
LEMMA AlarmEndsStep ==
  ASSUME RuntimeTypes, Consistent, AlarmEnds
  PROVE  AdmissionStep
<1> DEFINE rows == [r \in Runs |-> IF r \in alarm.due THEN CleanRow(r) ELSE admissions[r]]
<1>1. TypeOK /\ admissions \in [Runs -> Admission]
  BY DEF RuntimeTypes, ToolTypes, TypeOK
<1>2. rows \in [Runs -> Admission]
  BY <1>1, CleanRowType
<1>3. admissions' = Repaired(rows, alarm.failed) /\ UNCHANGED <<authority, loading>>
  BY DEF AlarmEnds
<1>4. \A r \in Runs : rows[r] \in {CleanRow(r), admissions[r]}
  OBVIOUS
<1> HIDE DEF rows
<1> QED BY <1>1, <1>2, <1>3, <1>4, RepairStep

\* A runtime tool is reserved under current authority, and every other step leaves rows
\* and authority alone or is one of the operations above.
LEMMA RuntimeNextStep ==
  ASSUME RuntimeTypes, Consistent, Affordable, [RuntimeNext]_runtimeVars
  PROVE  AdmissionStep
<1>0. TypeOK /\ ToolTypes
  BY DEF RuntimeTypes, ToolTypes
<1>1. CASE (AdmissionsNext /\ UNCHANGED reserving) /\ UNCHANGED <<sandboxes, alarm>>
  BY <1>0, <1>1, OperationStep
<1>2. CASE CallNext /\ UNCHANGED <<sandboxes, alarm>>
  BY <1>0, <1>2, CallNextStep
<1>3. CASE RuntimeCallNext
  <2>1. ASSUME NEW t \in RuntimeCalls, NEW r \in Runs, NEW tool \in Tools,
               RuntimeReserve(t, r, tool)
        PROVE  AdmissionStep
    <3>1. /\ admissions[r].status = "redeemed" /\ admissions[r].cancel = "none"
          /\ ~Superseded(admissions[r])
      BY <2>1 DEF RuntimeReserve, RuntimeReservable, RuntimeGate, Superseded
    <3>2. /\ admissions' = [admissions EXCEPT ![r].toolCalls = @ + 1]
          /\ UNCHANGED <<authority, loading>>
      BY <2>1 DEF RuntimeReserve
    <3>3. admissions' = [admissions EXCEPT ![r].toolCalls = admissions[r].toolCalls + 1]
      BY <1>0, <3>2 DEF TypeOK
    <3> QED BY <1>0, <3>1, <3>2, <3>3, ToolClaimStep
  <2>2. ASSUME NEW t \in RuntimeCalls,
               \/ \E delivered \in BOOLEAN : RuntimeDispatch(t, delivered)
               \/ \E outcome \in {"completed", "failed", "unknown"}, oversized \in BOOLEAN :
                    RuntimeComplete(t, outcome, oversized)
        PROVE  AdmissionStep
    BY <2>2, SameRowsStep DEF RuntimeDispatch, RuntimeComplete
  <2> QED BY <1>3, <2>1, <2>2 DEF RuntimeCallNext
<1>4. CASE SandboxNext
  BY <1>4, SameRowsStep
     DEF SandboxNext, SandboxOpens, BackgroundPurge, BackgroundStep, BackgroundFails, toolVars, vars
<1>5. CASE AlarmNext
  <2>1. CASE AlarmEnds
    BY <2>1, AlarmEndsStep
  <2>2. CASE AlarmNext /\ ~AlarmEnds
    BY <2>2, SameRowsStep
       DEF AlarmNext, AlarmBegins, OwnerPurges, OwnerStops, OwnerPurged, OwnerPurgeFails, toolVars, vars
  <2> QED BY <1>5, <2>1, <2>2
<1>6. CASE RuntimeTick
  BY <1>0, <1>6, TimeStep DEF RuntimeTick, AgeCalls
<1>7. CASE RuntimeRestart \/ UNCHANGED runtimeVars
  BY <1>7, SameRowsStep DEF RuntimeRestart, runtimeVars, toolVars, vars
<1> QED BY <1>1, <1>2, <1>3, <1>4, <1>5, <1>6, <1>7 DEF RuntimeNext

\* The promises of the admission ledger hold beside runtime tools that spend the same
\* budget, and beside an alarm that chooses the Runs to erase and to repair, awaits the
\* destruction of Sandboxes, and acts on its choice afterwards.
THEOREM RuntimeAdmissions ==
  RuntimeSpec => /\ [](OneRunPerKey /\ NewestPermitRedeems /\ CapacityRespected)
                 /\ CancelledIsFinal /\ RevocationIsFinal /\ StatusOrder /\ StaleLoadRefused
                 /\ ImplementsRunLife
<1>1. RuntimeInit => Init
  BY DEF RuntimeInit, ToolInit
<1>2. RuntimeInv => RuntimeTypes /\ TypeOK /\ Affordable
  BY DEF RuntimeInv, RuntimeTypes, ToolTypes, LedgerInv
<1>3. RuntimeInv /\ [RuntimeNext]_runtimeVars => [Consistent => AdmissionStep]_vars
  BY <1>2, RuntimeNextStep
<1>4. RuntimeSpec => AdmissionBehaviour
  BY <1>1, <1>2, <1>3, RuntimeInvariant, PTL DEF RuntimeSpec, AdmissionBehaviour
<1>5. AdmissionInv => OneRunPerKey /\ NewestPermitRedeems /\ CapacityRespected
  BY DEF AdmissionInv
<1> QED BY <1>4, <1>5, AdmissionInvariant, BehaviourCancels, BehaviourRevokes,
           BehaviourOrders, BehaviourLoads, BehaviourLives, PTL
=============================================================================
