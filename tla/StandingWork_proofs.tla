-------------------------- MODULE StandingWork_proofs --------------------------
(***************************************************************************)
(* Work that starts without the owner: the occurrences of a Schedule, and  *)
(* the events and provider operations of Event triggers. The two share no  *)
(* state; each part has its inductive invariant and its theorems.          *)
(***************************************************************************)
EXTENDS MCStandingWork, FiniteSetTheorems, WellFoundedInduction, TLAPS

-----------------------------------------------------------------------------
(* Sets with at most one element *)

AtMostOne(S) == \A x, y \in S : x = y

\* Such a set counts at most one.
LEMMA AtMostOneCounts ==
  ASSUME NEW S, AtMostOne(S)
  PROVE  IsFiniteSet(S) /\ Cardinality(S) <= 1
<1>1. CASE S = {}
  BY <1>1, FS_EmptySet
<1>2. CASE S # {}
  <2>1. PICK x \in S : TRUE
    BY <1>2
  <2>2. S = {x}
    BY <2>1 DEF AtMostOne
  <2>3. IsFiniteSet(S) /\ Cardinality(S) = 1
    BY <2>2, FS_Singleton
  <2> QED BY <2>3
<1> QED BY <1>1, <1>2

-----------------------------------------------------------------------------
(* Schedules: types *)

\* The dispatch of an occurrence that was claimed.
DispatchTyped ==
  /\ dispatch \in [occurrence : 0..MaxOccurrences, stage : {"idle", "inspect", "start", "record"}]
  /\ dispatch.stage # "idle" => dispatch.occurrence \in Occurrences

\* The constants of a Schedule in the form the steps below use.
LEMMA ScheduleNumbers ==
  /\ MaxOccurrences \in Nat /\ MaxRevision \in Nat /\ MaxRevision >= 1
  /\ MaxAttempts \in Nat /\ MaxAttempts >= 1 /\ RecoveryDelay \in Nat /\ RecoveryDelay >= 1
  /\ Interval \in Nat /\ Interval >= 1
BY ScheduleAssumption

\* The clock of a Schedule stays in its interval.
LEMMA LaterTyped ==
  ASSUME schedule \in Schedule
  PROVE  LaterSchedule \in Schedule
<1>1. schedule.late \in 0..(Interval - 1) /\ schedule.wait \in 0..Interval
  BY DEF Schedule
<1>2. CASE schedule.wait > 0
  <2>1. schedule.wait - 1 \in 0..Interval
    BY <1>1, <1>2, ScheduleNumbers
  <2> QED BY <1>2, <2>1 DEF LaterSchedule, Schedule
<1>3. CASE ~(schedule.wait > 0)
  <2>1. (schedule.late + 1) % Interval \in 0..(Interval - 1)
    BY <1>1, ScheduleNumbers
  <2> DEFINE l == (schedule.late + 1) % Interval
  <2> HIDE DEF l
  <2>2. l \in 0..(Interval - 1) => [schedule EXCEPT !.late = l] \in Schedule
    BY DEF Schedule
  <2> QED BY <1>3, <2>1, <2>2 DEF LaterSchedule, l
<1> QED BY <1>2, <1>3

\* A change of one occurrence.
LEMMA OneOccurrence ==
  ASSUME occurrences \in [Occurrences -> Occurrence], NEW o \in Occurrences, NEW x \in Occurrence,
         occurrences' = [occurrences EXCEPT ![o] = x]
  PROVE  /\ occurrences' \in [Occurrences -> Occurrence] /\ occurrences'[o] = x
         /\ \A u \in Occurrences \ {o} : occurrences'[u] = occurrences[u]
OBVIOUS

\* What a claim and an attempt write, and the end of an occurrence.
LEMMA OccurrenceWrites ==
  ASSUME NEW x \in Occurrence
  PROVE  /\ \A s \in {"skipped", "dispatched"} : [x EXCEPT !.status = s, !.wait = 0] \in Occurrence
         /\ x.attempts < MaxAttempts =>
              [x EXCEPT !.attempts = @ + 1, !.wait = RecoveryDelay] \in Occurrence
         /\ [x EXCEPT !.wait = IF @ > 0 THEN @ - 1 ELSE 0] \in Occurrence
         /\ \A r \in 1..MaxRevision :
              [status |-> "pending", revision |-> r, attempts |-> 1, wait |-> RecoveryDelay] \in Occurrence
<1>1. x.attempts \in 0..MaxAttempts /\ x.wait \in 0..RecoveryDelay
  BY DEF Occurrence
<1>2. x.attempts < MaxAttempts => x.attempts + 1 \in 0..MaxAttempts
  BY <1>1, ScheduleNumbers
<1>3. /\ RecoveryDelay \in 0..RecoveryDelay /\ 0 \in 0..RecoveryDelay /\ 1 \in 0..MaxAttempts
      /\ (IF x.wait > 0 THEN x.wait - 1 ELSE 0) \in 0..RecoveryDelay
      /\ \A r \in 1..MaxRevision : r \in 0..MaxRevision
  BY <1>1, ScheduleNumbers
<1> QED BY <1>1, <1>2, <1>3 DEF Occurrence

\* The writes that change two fields of one occurrence, as one change.
LEMMA ChainedEnd ==
  ASSUME NEW f \in [Occurrences -> Occurrence], NEW o \in Occurrences, NEW s
  PROVE  [f EXCEPT ![o].status = s, ![o].wait = 0]
           = [f EXCEPT ![o] = [f[o] EXCEPT !.status = s, !.wait = 0]]
OBVIOUS

\* The same for an attempt.
LEMMA ChainedAttempt ==
  ASSUME NEW f \in [Occurrences -> Occurrence], NEW o \in Occurrences
  PROVE  [f EXCEPT ![o].attempts = @ + 1, ![o].wait = RecoveryDelay]
           = [f EXCEPT ![o] = [f[o] EXCEPT !.attempts = @ + 1, !.wait = RecoveryDelay]]
OBVIOUS

\* The Runs of occurrences change within their states.
LEMMA RunsTyped ==
  ASSUME runs \in [Occurrences -> RunStates], NEW o \in Occurrences, NEW v \in RunStates,
         runs' = [runs EXCEPT ![o] = v]
  PROVE  runs' \in [Occurrences -> RunStates] /\ runs'[o] = v
         /\ \A u \in Occurrences \ {o} : runs'[u] = runs[u]
OBVIOUS

-----------------------------------------------------------------------------
(* Schedules: the order of occurrences *)

\* The previous Run of the Schedule is over, or there was none.
Resting == schedule.lastRun = 0 \/ runs[schedule.lastRun] \in {"ended", "expired"}

\* What is pending belongs to the current revision; the alarm works on what is
\* pending; it starts a Run, or starts it again, when the previous one is over; and
\* of the Runs it recorded only the last one may still work. No Run has the name of
\* an occurrence that was not claimed.
InOrder ==
  /\ AtMostOne(Pending)
  /\ \A o \in Pending : /\ schedule.status = "active"
                        /\ schedule.revision = occurrences[o].revision
                        /\ runs[o] = "working" => Resting
  /\ dispatch.stage = "idle" <=> dispatch = Idle
  /\ dispatch # Idle => dispatch.occurrence \in Pending
  /\ dispatch.stage \in {"start", "record"} => Resting
  /\ schedule.lastRun # 0 => occurrences[schedule.lastRun].status = "dispatched"
  /\ \A o \in Occurrences :
       occurrences[o].status = "dispatched" /\ runs[o] = "working" => o = schedule.lastRun
  /\ \A o \in Unclaimed : runs[o] = "none"

ScheduleInv == ScheduleTypeOK /\ InOrder

\* The initial state.
LEMMA ScheduleInitInv ==
  ASSUME ScheduleInit
  PROVE  ScheduleInv
<1>1. schedule \in Schedule
  <2>1. /\ 1 \in 1..MaxRevision /\ 0 \in 0..MaxOccurrences /\ Interval \in 0..Interval
        /\ 0 \in 0..(Interval - 1)
    BY ScheduleNumbers
  <2> QED BY <2>1 DEF ScheduleInit, Schedule
<1>2. occurrences \in [Occurrences -> Occurrence]
  <2>1. 0 \in 0..MaxRevision /\ 0 \in 0..MaxAttempts /\ 0 \in 0..RecoveryDelay
    BY ScheduleNumbers
  <2> QED BY <2>1 DEF ScheduleInit, Occurrence
<1>3. ScheduleTypeOK
  BY <1>1, <1>2, ScheduleNumbers DEF ScheduleInit, ScheduleTypeOK, RunStates, Idle
<1>4. Pending = {}
  BY DEF ScheduleInit, Pending
<1> QED BY <1>3, <1>4 DEF ScheduleInit, ScheduleInv, InOrder, AtMostOne, Resting, Idle, Unclaimed

\* A step that leaves the occurrences' admissions, the Schedule's revision and the
\* dispatch alone, and starts no Run.
LEMMA OrderStays ==
  ASSUME ScheduleInv, ScheduleTypeOK',
         dispatch' = dispatch,
         schedule'.lastRun = schedule.lastRun,
         \A o \in Occurrences : /\ occurrences'[o].status = occurrences[o].status
                                /\ occurrences'[o].revision = occurrences[o].revision
                                /\ \/ runs'[o] = runs[o]
                                   \/ runs[o] # "none" /\ runs'[o] \in {"ended", "expired"},
         Pending # {} => /\ schedule'.status = schedule.status
                         /\ schedule'.revision = schedule.revision
  PROVE  ScheduleInv'
<1>1. Pending' = Pending /\ Unclaimed' = Unclaimed
  BY DEF Pending, Unclaimed
<1>2. Resting => Resting'
  BY DEF Resting, ScheduleInv, ScheduleTypeOK, Schedule, Occurrences
<1>3. /\ schedule.lastRun \in 0..MaxOccurrences
      /\ schedule.lastRun # 0 => schedule.lastRun \in Occurrences
  BY ScheduleNumbers DEF ScheduleInv, ScheduleTypeOK, Schedule, Occurrences
<1>4. \A o \in Pending \cup Unclaimed : o \in Occurrences
  BY DEF Pending, Unclaimed
<1> QED BY <1>1, <1>2, <1>3, <1>4 DEF ScheduleInv, InOrder, AtMostOne


\* The owner's configuration, the Agent's updates, the ends of Runs and the clock.
LEMMA OutsideKeepsOrder ==
  ASSUME ScheduleInv,
         \/ \E status \in {"active", "paused"} : Configure(status)
         \/ UpdateAgent \/ (\E o \in Occurrences : RunEnds(o)) \/ Tick
  PROVE  ScheduleInv'
<1>0. /\ schedule \in Schedule /\ agentRevision \in 1..MaxRevision
      /\ occurrences \in [Occurrences -> Occurrence] /\ runs \in [Occurrences -> RunStates]
      /\ DispatchTyped
  BY DEF ScheduleInv, ScheduleTypeOK, DispatchTyped
<1>1. ASSUME NEW status \in {"active", "paused"}, Configure(status)
      PROVE  ScheduleInv'
  <2> DEFINE wait == IF status = "active" THEN Interval ELSE 0
  <2>1. /\ schedule.revision + 1 \in 1..MaxRevision /\ wait \in 0..Interval
        /\ 0 \in 0..(Interval - 1)
    BY <1>0, <1>1, ScheduleNumbers DEF Configure, Schedule
  <2> HIDE DEF wait
  <2>2. schedule' = [schedule EXCEPT !.revision = schedule.revision + 1, !.status = status,
                       !.agentRevision = agentRevision, !.late = 0, !.wait = wait]
    BY <1>1 DEF Configure, wait
  <2>3. schedule' \in Schedule /\ schedule'.lastRun = schedule.lastRun
    BY <1>0, <2>1, <2>2 DEF Schedule
  <2>4. Pending = {} /\ UNCHANGED <<agentRevision, occurrences, runs, dispatch>>
    BY <1>1 DEF Configure
  <2>5. ScheduleTypeOK'
    BY <1>0, <2>3, <2>4 DEF ScheduleTypeOK, DispatchTyped
  <2> QED BY <2>3, <2>4, <2>5, OrderStays
<1>2. CASE UpdateAgent
  <2>1. agentRevision' \in 1..MaxRevision
    BY <1>0, <1>2, ScheduleNumbers DEF UpdateAgent
  <2>2. ScheduleTypeOK'
    BY <1>0, <1>2, <2>1 DEF UpdateAgent, ScheduleTypeOK, DispatchTyped
  <2> QED BY <1>2, <2>2, OrderStays DEF UpdateAgent
<1>3. ASSUME NEW o \in Occurrences, RunEnds(o)
      PROVE  ScheduleInv'
  <2>1. PICK v \in {"ended", "expired"} : runs' = [runs EXCEPT ![o] = v]
    BY <1>3 DEF RunEnds
  <2>2. /\ runs' \in [Occurrences -> RunStates] /\ runs'[o] = v
        /\ runs[o] # "none" /\ \A u \in Occurrences \ {o} : runs'[u] = runs[u]
    BY <1>0, <1>3, <2>1, RunsTyped DEF RunStates, RunEnds
  <2>3. ScheduleTypeOK'
    BY <1>0, <1>3, <2>2 DEF RunEnds, ScheduleTypeOK, DispatchTyped
  <2> QED BY <1>3, <2>2, <2>3, OrderStays DEF RunEnds
<1>4. CASE Tick
  <2>1. schedule' \in Schedule
    BY <1>0, <1>4, LaterTyped DEF Tick
  <2>2. /\ schedule'.status = schedule.status /\ schedule'.revision = schedule.revision
        /\ schedule'.lastRun = schedule.lastRun
    BY <1>0, <1>4 DEF Tick, LaterSchedule, Schedule
  <2>3. /\ occurrences' \in [Occurrences -> Occurrence]
        /\ \A o \in Occurrences : /\ occurrences'[o].status = occurrences[o].status
                                  /\ occurrences'[o].revision = occurrences[o].revision
    <3>1. occurrences' = [o \in Occurrences |->
                            [occurrences[o] EXCEPT !.wait = IF @ > 0 THEN @ - 1 ELSE 0]]
      BY <1>4 DEF Tick
    <3>2. \A o \in Occurrences : occurrences'[o] \in Occurrence
      BY <1>0, <3>1, OccurrenceWrites
    <3> QED BY <1>0, <3>1, <3>2 DEF Occurrence
  <2>4. ScheduleTypeOK'
    BY <1>0, <1>4, <2>1, <2>3 DEF Tick, ScheduleTypeOK, DispatchTyped
  <2> QED BY <1>4, <2>2, <2>3, <2>4, OrderStays DEF Tick
<1> QED BY <1>1, <1>2, <1>3, <1>4

\* The alarm claims an occurrence, anew or again, or gives it up.
LEMMA ClaimKeepsOrder ==
  ASSUME ScheduleInv, ClaimRecoverable \/ ClaimDue
  PROVE  ScheduleInv'
<1>0. /\ schedule \in Schedule /\ agentRevision \in 1..MaxRevision
      /\ occurrences \in [Occurrences -> Occurrence] /\ runs \in [Occurrences -> RunStates]
      /\ DispatchTyped /\ InOrder /\ Idle.stage = "idle" /\ Idle.occurrence = 0
  BY DEF ScheduleInv, ScheduleTypeOK, DispatchTyped, Idle
<1>1. CASE ClaimRecoverable
  <2>1. PICK o \in Occurrences : Recoverable(o) /\ Retry(o)
    BY <1>1 DEF ClaimRecoverable
  <2>2. /\ UNCHANGED <<agentRevision, schedule, runs>> /\ dispatch = Idle
        /\ o \in Pending /\ occurrences[o] \in Occurrence
    BY <1>0, <1>1, <2>1 DEF ClaimRecoverable, Recoverable, Pending
  <2>3. CASE occurrences[o].attempts >= MaxAttempts
    <3> DEFINE x == [occurrences[o] EXCEPT !.status = "skipped", !.wait = 0]
    <3>0. x \in Occurrence
      BY <2>2, OccurrenceWrites
    <3>1. x \in Occurrence /\ x.status = "skipped" /\ occurrences' = [occurrences EXCEPT ![o] = x]
      <4>1. x.status = "skipped"
        BY <2>2 DEF Occurrence
      <4>2. occurrences' = [occurrences EXCEPT ![o] = x]
        BY <1>0, <2>1, <2>3, ChainedEnd DEF Retry
      <4> QED BY <3>0, <4>1, <4>2
    <3> HIDE DEF x
    <3>2. /\ occurrences' \in [Occurrences -> Occurrence] /\ occurrences'[o] = x
          /\ \A u \in Occurrences \ {o} : occurrences'[u] = occurrences[u]
      BY <1>0, <3>1, OneOccurrence
    <3>3. Pending' = {} /\ dispatch' = dispatch /\ Unclaimed' = Unclaimed
      BY <1>0, <2>1, <2>2, <2>3, <3>1, <3>2 DEF Pending, InOrder, AtMostOne, Retry, Unclaimed
    <3>4. ScheduleTypeOK'
      BY <1>0, <2>2, <3>2, <3>3 DEF ScheduleTypeOK, DispatchTyped
    <3> QED BY <1>0, <2>1, <2>2, <3>1, <3>2, <3>3, <3>4
            DEF ScheduleInv, InOrder, AtMostOne, Resting, Recoverable
  <2>4. CASE ~(occurrences[o].attempts >= MaxAttempts)
    <3> DEFINE x == [occurrences[o] EXCEPT !.attempts = @ + 1, !.wait = RecoveryDelay]
    <3>1. occurrences[o].attempts < MaxAttempts
      BY <2>2, <2>4, ScheduleNumbers DEF Occurrence
    <3>2. /\ x \in Occurrence /\ x.status = "pending" /\ x.revision = occurrences[o].revision
          /\ occurrences' = [occurrences EXCEPT ![o] = x]
      <4>1. x \in Occurrence
        BY <2>2, <3>1, OccurrenceWrites
      <4>2. x.status = "pending" /\ x.revision = occurrences[o].revision
        BY <2>1, <2>2 DEF Occurrence, Recoverable
      <4>3. occurrences' = [occurrences EXCEPT ![o] = x]
        BY <1>0, <2>1, <2>4, ChainedAttempt DEF Retry
      <4> QED BY <4>1, <4>2, <4>3
    <3> HIDE DEF x
    <3>3. /\ occurrences' \in [Occurrences -> Occurrence] /\ occurrences'[o] = x
          /\ \A u \in Occurrences \ {o} : occurrences'[u] = occurrences[u]
      BY <1>0, <3>2, OneOccurrence
    <3>4. Pending' = Pending /\ dispatch' = [occurrence |-> o, stage |-> "inspect"]
          /\ Unclaimed' = Unclaimed
      BY <2>1, <2>2, <2>4, <3>2, <3>3 DEF Pending, Retry, Unclaimed
    <3>5. o \in 0..MaxOccurrences
      BY ScheduleNumbers DEF Occurrences
    <3>6. ScheduleTypeOK'
      BY <1>0, <2>2, <3>3, <3>4, <3>5 DEF ScheduleTypeOK
    <3> QED BY <1>0, <2>1, <2>2, <3>2, <3>3, <3>4, <3>6
            DEF ScheduleInv, InOrder, AtMostOne, Resting, Recoverable, Pending
  <2> QED BY <2>3, <2>4
<1>2. CASE ClaimDue
  <2>1. /\ Pending = {} /\ schedule.status = "active" /\ dispatch = Idle
        /\ UNCHANGED <<agentRevision, runs>>
    BY <1>2 DEF ClaimDue, Due
  <2>2. CASE Stale
    <3>1. /\ schedule' = [schedule EXCEPT !.status = "paused", !.wait = 0, !.late = 0]
          /\ UNCHANGED <<occurrences, dispatch>>
      BY <1>2, <2>2 DEF ClaimDue
    <3>2. 0 \in 0..Interval /\ 0 \in 0..(Interval - 1)
      BY ScheduleNumbers
    <3>3. schedule' \in Schedule /\ schedule'.lastRun = schedule.lastRun
      BY <1>0, <3>1, <3>2 DEF Schedule
    <3>4. ScheduleTypeOK'
      BY <1>0, <2>1, <3>1, <3>3 DEF ScheduleTypeOK, DispatchTyped
    <3> QED BY <2>1, <3>1, <3>3, <3>4, OrderStays
  <2>3. CASE ~Stale
    <3>1. PICK o \in Unclaimed :
            /\ schedule' = AfterClaim
            /\ occurrences' = [occurrences EXCEPT ![o] =
                 [status |-> "pending", revision |-> schedule.revision, attempts |-> 1,
                  wait |-> RecoveryDelay]]
            /\ dispatch' = [occurrence |-> o, stage |-> "inspect"]
      BY <1>2, <2>3 DEF ClaimDue
    <3> DEFINE x == [status |-> "pending", revision |-> schedule.revision, attempts |-> 1,
                     wait |-> RecoveryDelay]
    <3>2. /\ o \in Occurrences /\ occurrences[o].status = "none" /\ o \in 0..MaxOccurrences
          /\ schedule.revision \in 1..MaxRevision
      BY <1>0, ScheduleNumbers DEF Unclaimed, Occurrences, Schedule
    <3>3. x \in Occurrence /\ x.status = "pending" /\ x.revision = schedule.revision
      <4>1. \A y \in Occurrence : x \in Occurrence
        BY <3>2, OccurrenceWrites
      <4> QED BY <1>0, <3>2, <4>1
    <3> HIDE DEF x
    <3>4. /\ occurrences' \in [Occurrences -> Occurrence] /\ occurrences'[o] = x
          /\ \A u \in Occurrences \ {o} : occurrences'[u] = occurrences[u]
      BY <1>0, <3>1, <3>2, <3>3, OneOccurrence DEF x
    <3>5. Pending' = {o}
      BY <2>1, <3>2, <3>3, <3>4 DEF Pending
    <3>6. /\ schedule' \in Schedule /\ schedule'.lastRun = schedule.lastRun
          /\ schedule'.status = "active" /\ schedule'.revision = schedule.revision
      <4>1. Interval - schedule.late \in 0..Interval /\ 0 \in 0..(Interval - 1)
        BY <1>0, ScheduleNumbers DEF Schedule
      <4> DEFINE w == Interval - schedule.late
      <4>2. schedule' = [schedule EXCEPT !.wait = w, !.late = 0] /\ w \in 0..Interval
        BY <3>1, <4>1 DEF AfterClaim
      <4> HIDE DEF w
      <4> QED BY <1>0, <2>1, <4>1, <4>2 DEF Schedule
    <3>7. ScheduleTypeOK'
      BY <1>0, <2>1, <3>1, <3>2, <3>4, <3>6 DEF ScheduleTypeOK
    <3>8. /\ runs[o] = "none" /\ Unclaimed' \subseteq Unclaimed
          /\ schedule.lastRun # 0 => schedule.lastRun # o
      BY <1>0, <3>2, <3>3, <3>4 DEF InOrder, Unclaimed
    <3> QED BY <1>0, <2>1, <3>1, <3>2, <3>3, <3>4, <3>5, <3>6, <3>7, <3>8
            DEF ScheduleInv, InOrder, AtMostOne, Resting, Unclaimed
  <2> QED BY <2>2, <2>3
<1> QED BY <1>1, <1>2

\* A dispatched occurrence is skipped, whatever became of its own Run.
LEMMA SkipKeepsOrder ==
  ASSUME ScheduleInv, dispatch.stage # "idle", Skip(dispatch.occurrence),
         UNCHANGED <<agentRevision, schedule>>,
         runs' \in [Occurrences -> RunStates],
         \A u \in Occurrences \ {dispatch.occurrence} : runs'[u] = runs[u]
  PROVE  ScheduleInv'
<1> DEFINE o == dispatch.occurrence
           x == [occurrences[o] EXCEPT !.status = "skipped", !.wait = 0]
<1>0. /\ schedule \in Schedule /\ agentRevision \in 1..MaxRevision
      /\ occurrences \in [Occurrences -> Occurrence] /\ runs \in [Occurrences -> RunStates]
      /\ DispatchTyped /\ InOrder /\ Idle.stage = "idle" /\ Idle.occurrence = 0
  BY DEF ScheduleInv, ScheduleTypeOK, DispatchTyped, Idle
<1>1. o \in Pending /\ o \in Occurrences /\ dispatch' = Idle
  BY <1>0 DEF InOrder, Skip, Pending
<1>2. x \in Occurrence /\ x.status = "skipped" /\ occurrences' = [occurrences EXCEPT ![o] = x]
  <2>1. x \in Occurrence
    BY <1>0, <1>1, OccurrenceWrites
  <2>2. x.status = "skipped"
    BY <1>0, <1>1 DEF Occurrence
  <2>3. occurrences' = [occurrences EXCEPT ![o] = x]
    BY <1>0, <1>1, ChainedEnd DEF Skip
  <2> QED BY <2>1, <2>2, <2>3
<1> HIDE DEF x
<1>3. /\ occurrences' \in [Occurrences -> Occurrence] /\ occurrences'[o] = x
      /\ \A u \in Occurrences \ {o} : occurrences'[u] = occurrences[u]
  BY <1>0, <1>1, <1>2, OneOccurrence
<1>4. Pending' = {} /\ Unclaimed' = Unclaimed
  BY <1>0, <1>1, <1>2, <1>3 DEF Pending, InOrder, AtMostOne, Unclaimed
<1>5. ScheduleTypeOK'
  <2>1. dispatch' \in [occurrence : 0..MaxOccurrences,
                       stage : {"idle", "inspect", "start", "record"}]
    BY <1>1, ScheduleNumbers DEF Idle
  <2> QED BY <1>0, <1>1, <1>3, <2>1 DEF ScheduleTypeOK
<1>6. occurrences[o].status = "pending"
  BY <1>1 DEF Pending
<1>7. schedule.lastRun # o /\ (schedule.lastRun # 0 => schedule.lastRun \in Occurrences)
  BY <1>0, <1>6, <1>1, ScheduleNumbers DEF InOrder, Schedule, Occurrences
<1> QED BY <1>0, <1>1, <1>2, <1>3, <1>4, <1>5, <1>6, <1>7
        DEF ScheduleInv, InOrder, AtMostOne, Unclaimed, Resting

\* The alarm inspects the previous Run.
LEMMA InspectKeepsOrder ==
  ASSUME ScheduleInv, NEW answered \in BOOLEAN, Inspect(answered)
  PROVE  ScheduleInv'
<1>0. /\ DispatchTyped /\ InOrder /\ dispatch.stage = "inspect" /\ ScheduleTypeOK
      /\ UNCHANGED <<agentRevision, schedule, runs>>
  BY DEF ScheduleInv, ScheduleTypeOK, DispatchTyped, Inspect
<1>1. CASE Skip(dispatch.occurrence)
  BY <1>0, <1>1, SkipKeepsOrder DEF ScheduleTypeOK
<1>2. CASE ~Skip(dispatch.occurrence)
  <2>1. /\ dispatch' = [dispatch EXCEPT !.stage = "start"] /\ UNCHANGED occurrences
        /\ Resting
    BY <1>2 DEF Inspect, Resting
  <2>2. dispatch' = [occurrence |-> dispatch.occurrence, stage |-> "start"]
    BY <1>0, <2>1 DEF DispatchTyped
  <2>3. ScheduleTypeOK' /\ dispatch.occurrence \in Pending /\ Idle.stage = "idle"
    BY <1>0, <2>1, <2>2 DEF ScheduleTypeOK, DispatchTyped, InOrder, Idle
  <2> QED BY <1>0, <2>1, <2>2, <2>3 DEF ScheduleInv, InOrder, AtMostOne, Resting, Pending, Unclaimed
<1> QED BY <1>1, <1>2

\* A dispatch goes on from its start or gives way to the next alarm, with the Run of
\* its occurrence as it is or working.
LEMMA StartKeepsOrder ==
  ASSUME ScheduleInv, dispatch.stage # "idle",
         UNCHANGED <<agentRevision, schedule, occurrences>>,
         \/ dispatch' = Idle
         \/ dispatch.stage = "start" /\ dispatch' = [dispatch EXCEPT !.stage = "record"],
         \/ runs' = runs
         \/ dispatch.stage = "start" /\ \E v \in RunStates :
              runs' = [runs EXCEPT ![dispatch.occurrence] = v]
  PROVE  ScheduleInv'
<1> DEFINE o == dispatch.occurrence
<1>0. /\ schedule \in Schedule /\ agentRevision \in 1..MaxRevision
      /\ occurrences \in [Occurrences -> Occurrence] /\ runs \in [Occurrences -> RunStates]
      /\ DispatchTyped /\ InOrder /\ Idle.stage = "idle" /\ Idle.occurrence = 0
  BY DEF ScheduleInv, ScheduleTypeOK, DispatchTyped, Idle
<1>1. o \in Pending /\ o \in Occurrences
  BY <1>0 DEF InOrder, Pending
<1>2. runs' \in [Occurrences -> RunStates] /\ \A u \in Occurrences \ {o} : runs'[u] = runs[u]
  BY <1>0, <1>1, RunsTyped
<1>3. Pending' = Pending /\ Unclaimed' = Unclaimed /\ o \notin Unclaimed
      /\ occurrences[o].status = "pending"
  BY <1>1 DEF Pending, Unclaimed
<1>4. schedule.lastRun # o /\ (schedule.lastRun # 0 => schedule.lastRun \in Occurrences)
  BY <1>0, <1>1, <1>3, ScheduleNumbers DEF InOrder, Schedule, Occurrences
<1>5. Resting => Resting'
  BY <1>2, <1>4 DEF Resting
<1>6. \/ dispatch' = Idle
      \/ dispatch' = [occurrence |-> o, stage |-> "record"] /\ dispatch.stage = "start"
  BY <1>0 DEF DispatchTyped
<1>7. ScheduleTypeOK'
  <2>1. dispatch' \in [occurrence : 0..MaxOccurrences,
                       stage : {"idle", "inspect", "start", "record"}]
    BY <1>0, <1>6, ScheduleNumbers DEF Idle, DispatchTyped
  <2> QED BY <1>0, <1>1, <1>2, <1>6, <2>1 DEF ScheduleTypeOK
<1>8. runs'[o] = runs[o] \/ Resting
  BY <1>0 DEF InOrder
<1> QED BY <1>0, <1>1, <1>2, <1>3, <1>4, <1>5, <1>6, <1>7, <1>8
        DEF ScheduleInv, InOrder, AtMostOne, Unclaimed, Pending

\* The Run was started: it becomes the Schedule's last one, or is cancelled.
LEMMA RecordKeepsOrder ==
  ASSUME ScheduleInv, Record
  PROVE  ScheduleInv'
<1> DEFINE o == dispatch.occurrence
           x == [occurrences[o] EXCEPT !.status = "dispatched", !.wait = 0]
<1>0. /\ schedule \in Schedule /\ agentRevision \in 1..MaxRevision
      /\ occurrences \in [Occurrences -> Occurrence] /\ runs \in [Occurrences -> RunStates]
      /\ DispatchTyped /\ InOrder /\ Idle.stage = "idle" /\ Idle.occurrence = 0
      /\ dispatch.stage = "record" /\ UNCHANGED agentRevision
  BY DEF ScheduleInv, ScheduleTypeOK, DispatchTyped, Idle, Record
<1>1. o \in Pending /\ o \in Occurrences /\ occurrences[o].status = "pending" /\ Resting
  BY <1>0 DEF InOrder, Pending
<1>2. CASE Skip(o) /\ schedule' = schedule
           /\ runs' = [runs EXCEPT ![o] = IF @ = "working" THEN "ended" ELSE @]
  <2>1. \E v \in RunStates : runs' = [runs EXCEPT ![o] = v]
    BY <1>0, <1>1, <1>2 DEF RunStates
  <2>2. runs' \in [Occurrences -> RunStates] /\ \A u \in Occurrences \ {o} : runs'[u] = runs[u]
    BY <1>0, <1>1, <2>1, RunsTyped
  <2> QED BY <1>0, <1>2, <2>2, SkipKeepsOrder
<1>3. CASE /\ schedule' = [schedule EXCEPT !.lastRun = o] /\ dispatch' = Idle /\ UNCHANGED runs
           /\ occurrences' = [occurrences EXCEPT ![o].status = "dispatched", ![o].wait = 0]
  <2>1. x \in Occurrence /\ x.status = "dispatched" /\ occurrences' = [occurrences EXCEPT ![o] = x]
    <3>1. x \in Occurrence
      BY <1>0, <1>1, OccurrenceWrites
    <3>2. x.status = "dispatched"
      BY <1>0, <1>1 DEF Occurrence
    <3>3. occurrences' = [occurrences EXCEPT ![o] = x]
      BY <1>0, <1>1, <1>3, ChainedEnd
    <3> QED BY <3>1, <3>2, <3>3
  <2> HIDE DEF x
  <2>2. /\ occurrences' \in [Occurrences -> Occurrence] /\ occurrences'[o] = x
        /\ \A u \in Occurrences \ {o} : occurrences'[u] = occurrences[u]
    BY <1>0, <1>1, <2>1, OneOccurrence
  <2>3. Pending' = {} /\ Unclaimed' = Unclaimed
    BY <1>0, <1>1, <2>1, <2>2 DEF Pending, InOrder, AtMostOne, Unclaimed
  <2>4. schedule' \in Schedule /\ schedule'.lastRun = o /\ o # 0
    <3>1. o \in 0..MaxOccurrences /\ o # 0
      BY <1>1, ScheduleNumbers DEF Occurrences
    <3>2. \A n \in 0..MaxOccurrences : [schedule EXCEPT !.lastRun = n] \in Schedule
      BY <1>0 DEF Schedule
    <3>3. schedule'.lastRun = o
      BY <1>0, <1>3 DEF Schedule
    <3> QED BY <1>3, <3>1, <3>2, <3>3
  <2>5. ScheduleTypeOK'
    <3>1. dispatch' \in [occurrence : 0..MaxOccurrences,
                         stage : {"idle", "inspect", "start", "record"}]
      BY <1>3, ScheduleNumbers DEF Idle
    <3> QED BY <1>0, <1>3, <2>2, <2>4, <3>1 DEF ScheduleTypeOK
  <2>6. \A u \in Occurrences : occurrences[u].status = "dispatched" => runs[u] # "working"
    BY <1>0, <1>1, ScheduleNumbers DEF InOrder, Resting, Occurrences
  <2> QED BY <1>0, <1>1, <1>3, <2>1, <2>2, <2>3, <2>4, <2>5, <2>6
          DEF ScheduleInv, InOrder, AtMostOne, Unclaimed
<1> QED BY <1>2, <1>3 DEF Record

\* Every step of a Schedule keeps its order.
LEMMA ScheduleStepInv ==
  ASSUME ScheduleInv, [ScheduleNext]_scheduleVars
  PROVE  ScheduleInv'
<1>0. /\ runs \in [Occurrences -> RunStates] /\ DispatchTyped
  BY DEF ScheduleInv, ScheduleTypeOK, DispatchTyped
<1>1. CASE ClaimRecoverable \/ ClaimDue
  BY <1>1, ClaimKeepsOrder
<1>2. CASE \E answered \in BOOLEAN : Inspect(answered)
  BY <1>2, InspectKeepsOrder
<1>3. CASE StartAccepted
  <2>1. \E v \in RunStates : runs' = [runs EXCEPT ![dispatch.occurrence] = v]
    BY <1>0, <1>3 DEF StartAccepted, RunStates, DispatchTyped
  <2> QED BY <1>3, <2>1, StartKeepsOrder DEF StartAccepted
<1>4. ASSUME NEW reached \in BOOLEAN, StartFailed(reached)
      PROVE  ScheduleInv'
  <2>1. \E v \in RunStates : runs' = [runs EXCEPT ![dispatch.occurrence] = v]
    BY <1>0, <1>4 DEF StartFailed, RunStates, DispatchTyped
  <2>2. dispatch.stage = "start" /\ dispatch.occurrence \in Occurrences
    BY <1>0, <1>4 DEF StartFailed, DispatchTyped
  <2>3. /\ runs' \in [Occurrences -> RunStates]
        /\ \A u \in Occurrences \ {dispatch.occurrence} : runs'[u] = runs[u]
    BY <1>0, <2>1, <2>2, RunsTyped
  <2> QED BY <1>4, <2>2, <2>3, SkipKeepsOrder DEF StartFailed
<1>5. ASSUME NEW reached \in BOOLEAN, Abandon(reached)
      PROVE  ScheduleInv'
  <2>1. dispatch.stage # "idle"
    BY <1>5 DEF Abandon, ScheduleInv, InOrder
  <2>2. "working" \in RunStates
    BY DEF RunStates
  <2> QED BY <1>5, <2>1, <2>2, StartKeepsOrder DEF Abandon
<1>6. CASE StartDenied
  BY <1>0, <1>6, SkipKeepsOrder DEF StartDenied
<1>7. CASE Record
  BY <1>7, RecordKeepsOrder
<1>8. CASE UNCHANGED scheduleVars
  BY <1>8 DEF scheduleVars, ScheduleInv, ScheduleTypeOK, InOrder, AtMostOne, Pending, Resting, Unclaimed
<1> QED BY <1>1, <1>2, <1>3, <1>4, <1>5, <1>6, <1>7, <1>8, OutsideKeepsOrder
        DEF ScheduleNext, DispatchStep

\* The order gives what the run checks.
LEMMA OrderCounts ==
  ASSUME ScheduleInv
  PROVE  OccurrencesInOrder
<1> DEFINE Working == {o \in Occurrences :
             runs[o] = "working" /\ occurrences[o].status \in {"pending", "dispatched"}}
<1>1. 0 \notin Occurrences
  BY ScheduleNumbers DEF Occurrences
<1>2. ASSUME NEW a \in Working, NEW b \in Working, a \in Pending
      PROVE  b \in Pending
  BY <1>1, <1>2 DEF ScheduleInv, InOrder, Resting, Pending
<1>3. AtMostOne(Working)
  BY <1>2 DEF ScheduleInv, InOrder, AtMostOne, Pending
<1>4. Cardinality(Pending) <= 1 /\ Cardinality(Working) <= 1
  BY <1>3, AtMostOneCounts DEF ScheduleInv, InOrder
<1> QED BY <1>4 DEF OccurrencesInOrder, ScheduleInv, InOrder

\* The row, the occurrences, their Runs and the dispatch keep their types
\* (schedules/module.ts).
THEOREM ScheduleTypeCorrect == ScheduleSpec => []ScheduleTypeOK
<1>1. ScheduleInv => ScheduleTypeOK
  BY DEF ScheduleInv
<1> QED BY <1>1, ScheduleInitInv, ScheduleStepInv, PTL DEF ScheduleSpec

\* However late, retried or interrupted the owner's alarms are, a Schedule of any
\* interval has one open occurrence at most, of its current revision, and the Runs its
\* history shows do not overlap (claimDue, #dispatchScheduledRun, recordDispatch).
THEOREM OccurrencesStayInOrder == ScheduleSpec => []OccurrencesInOrder
<1> QED BY OrderCounts, ScheduleInitInv, ScheduleStepInv, PTL DEF ScheduleSpec

-----------------------------------------------------------------------------
(* Event triggers: types *)

\* The bounds of the triggers in the form the steps below use.
LEMMA EventNumbers ==
  /\ Events \subseteq Nat /\ 0 \notin Events
  /\ MaxTriggerRevision \in Nat /\ MaxTriggerRevision >= 1
  /\ MaxOperationAttempts \in Nat /\ MaxOperationAttempts >= 1
  /\ MaxEventAttempts \in Nat /\ MaxEventAttempts >= 1
  /\ MaxInstances \in Nat /\ MaxReplays \in Nat /\ MaxPendingEvents \in Nat
  /\ MaxRetainedEvents \in Nat
BY EventTriggersAssumption

\* A set of natural numbers that has a member has a smallest one: the event a claim takes.
LEMMA OldestEvent ==
  ASSUME NEW S, S \subseteq Nat, S # {}
  PROVE  Min(S) \in S
<1>1. \E x \in S : \A y \in S : x <= y
  <2>1. IsWellFoundedOn(OpToRel(<, Nat), S)
    BY NatLessThanWellFounded, IsWellFoundedOnSubset
  <2>2. PICK x \in S : \A y \in S : <<y, x>> \notin OpToRel(<, Nat)
    BY <2>1, WFMin
  <2>3. x \in S /\ \A y \in S : ~(y < x)
    BY <2>2 DEF OpToRel
  <2> QED BY <2>3
<1> QED BY <1>1 DEF Min

Operations == {"stable", "creating", "pausing", "resuming", "deleting"}

\* What the operations write in the row of a trigger.
LEMMA TriggerWrites ==
  ASSUME NEW x \in Trigger
  PROVE  /\ \A r \in 0..MaxTriggerRevision : [x EXCEPT !.revision = r] \in Trigger
         /\ \A a \in 0..(MaxOperationAttempts + MaxReplays), w \in {"due", "later", "never"} :
              [x EXCEPT !.attempts = a, !.retry = w] \in Trigger
         /\ [x EXCEPT !.retry = "due"] \in Trigger
         /\ \A i \in 0..MaxInstances : [x EXCEPT !.id = i] \in Trigger
         /\ \A s \in {"none", "active", "paused", "deleted"} : Settled(x, s) \in Trigger
         /\ \A key \in TriggerRevisions \X Events : [x EXCEPT !.lastRun = key] \in Trigger
<1>1. 0 \in 0..(MaxOperationAttempts + MaxReplays)
  BY EventNumbers
<1>2. \A r \in 0..MaxTriggerRevision : [x EXCEPT !.revision = r] \in Trigger
  BY DEF Trigger
<1>3. \A a \in 0..(MaxOperationAttempts + MaxReplays), w \in {"due", "later", "never"} :
        [x EXCEPT !.attempts = a, !.retry = w] \in Trigger
  BY DEF Trigger
<1>4. [x EXCEPT !.retry = "due"] \in Trigger
  BY DEF Trigger
<1>5. \A i \in 0..MaxInstances : [x EXCEPT !.id = i] \in Trigger
  BY DEF Trigger
<1>6. \A s \in {"none", "active", "paused", "deleted"} : Settled(x, s) \in Trigger
  BY <1>1 DEF Trigger, Settled
<1>7. \A key \in TriggerRevisions \X Events : [x EXCEPT !.lastRun = key] \in Trigger
  BY DEF Trigger
<1> QED BY <1>2, <1>3, <1>4, <1>5, <1>6, <1>7

\* A row that is created, and a row of a new revision.
LEMMA TriggerRevised ==
  ASSUME NEW x \in Trigger, NEW r \in 0..MaxTriggerRevision, NEW o \in Operations,
         NEW s \in {"none", "active", "paused", "deleted"}
  PROVE  /\ [x EXCEPT !.status = s, !.revision = r, !.operation = o, !.retry = "due"] \in Trigger
         /\ [x EXCEPT !.revision = r, !.operation = o, !.attempts = 0, !.retry = "due",
                      !.status = s] \in Trigger
<1>1. 0 \in 0..(MaxOperationAttempts + MaxReplays)
  BY EventNumbers
<1> QED BY <1>1 DEF Trigger, Operations

\* The fields of a row.
LEMMA TriggerFields ==
  ASSUME NEW x \in Trigger
  PROVE  /\ x.status \in {"none", "active", "paused", "deleted"}
         /\ x.revision \in 0..MaxTriggerRevision /\ x.operation \in Operations
         /\ x.attempts \in 0..(MaxOperationAttempts + MaxReplays)
         /\ x.retry \in {"due", "later", "never"} /\ x.id \in 0..MaxInstances
BY DEF Trigger, Operations

\* What a recovery knows, and how it changes.
LEMMA CallWrites ==
  ASSUME NEW c \in Call
  PROVE  /\ \A i \in 0..MaxInstances : [c EXCEPT !.acted = TRUE, !.id = i] \in Call
         /\ [c EXCEPT !.kind = "delete", !.acted = FALSE] \in Call
         /\ NoCall \in Call /\ NoCall.kind = "none"
         /\ c.id \in 0..MaxInstances /\ c.acted \in BOOLEAN /\ c.operation \in Operations
         /\ c.kind \in {"none", "upsert", "find", "delete", "enable", "disable"}
         /\ c.revision \in 0..MaxTriggerRevision
         /\ c.attempts \in 0..(MaxOperationAttempts + MaxReplays)
<1>1. 0 \in 0..(MaxOperationAttempts + MaxReplays) /\ 0 \in 0..MaxInstances
      /\ 0 \in 0..MaxTriggerRevision
  BY EventNumbers
<1> QED BY <1>1 DEF Call, NoCall, Operations

\* What the alarm and the deliveries write in the history.
LEMMA ReceivedWrites ==
  ASSUME NEW x \in Received
  PROVE  /\ \A s \in {"none", "pending", "dispatched", "skipped"} :
              [x EXCEPT !.status = s, !.next = "never"] \in Received
         /\ x.attempts < MaxEventAttempts =>
              [x EXCEPT !.attempts = @ + 1, !.next = "later"] \in Received
         /\ [x EXCEPT !.next = "due"] \in Received
         /\ \A s \in {"none", "pending", "dispatched", "skipped"}, r \in 0..MaxTriggerRevision,
               w \in {"due", "later", "never"} :
              [status |-> s, revision |-> r, attempts |-> 1, next |-> w] \in Received
         /\ NotReceived \in Received
<1>1. x.attempts \in 0..MaxEventAttempts
  BY DEF Received
<1>2. /\ x.attempts < MaxEventAttempts => x.attempts + 1 \in 0..MaxEventAttempts
      /\ 0 \in 0..MaxEventAttempts /\ 1 \in 0..MaxEventAttempts /\ 0 \in 0..MaxTriggerRevision
  BY <1>1, EventNumbers
<1> QED BY <1>2 DEF Received, NotReceived

\* The history of one trigger after a write of one event: as long as the history
\* holds all events, nothing is pruned.
LEMMA NothingPruned ==
  ASSUME IsFiniteSet(Events), Cardinality(Events) <= MaxRetainedEvents,
         NEW rows \in [Events -> Received]
  PROVE  Pruned(rows) = rows
<1> DEFINE settled == {e \in Events : rows[e].status \in {"dispatched", "skipped"}}
           newer(e) == {f \in settled : f > e}
<1>1. ASSUME NEW e \in Events
      PROVE  ~(Cardinality(newer(e)) >= MaxRetainedEvents)
  <2>1. e \in Nat /\ e \notin newer(e) /\ newer(e) \subseteq Events \ {e}
    BY EventNumbers
  <2>2. /\ IsFiniteSet(Events \ {e})
        /\ Cardinality(Events \ {e}) = Cardinality(Events) - 1
    BY FS_RemoveElement
  <2>3. IsFiniteSet(newer(e)) /\ Cardinality(newer(e)) <= Cardinality(Events \ {e})
    BY <2>1, <2>2, FS_Subset
  <2>4. Cardinality(newer(e)) \in Nat /\ Cardinality(Events) \in Nat
    BY <2>3, FS_CardinalityType
  <2> QED BY <2>2, <2>3, <2>4, EventNumbers
<1>2. Pruned(rows) = [e \in Events |->
        IF e \in settled /\ Cardinality(newer(e)) >= MaxRetainedEvents
        THEN NotReceived ELSE rows[e]]
  BY DEF Pruned
<1> HIDE DEF settled, newer
<1>3. Pruned(rows) = [e \in Events |-> rows[e]]
  BY <1>1, <1>2
<1> QED BY <1>3

-----------------------------------------------------------------------------
(* Event triggers: what received events, their Runs and the alarm rest on *)

\* A row that was never created has received nothing. What is pending, and what
\* the alarm dispatches, is of the current revision of its trigger.
EventFollows(t) ==
  /\ triggers[t].status = "none" =>
       /\ triggers[t].operation = "stable" /\ triggers[t].id = 0 /\ calls[t].kind = "none"
       /\ \A e \in Events : received[t][e].status = "none"
  /\ triggers[t].status # "none" => triggers[t].revision >= 1
  /\ \A e \in PendingEvents(t) : received[t][e].revision = triggers[t].revision
  /\ eventDispatch[t].stage # "idle" =>
       /\ eventDispatch[t].event \in PendingEvents(t)
       /\ eventDispatch[t].revision = triggers[t].revision

EventInv == EventTriggersTypeOK /\ \A t \in Triggers : EventFollows(t)

\* A Run of an event is of the revision the history has the event in.
RunsKnown ==
  \A t \in Triggers, r \in TriggerRevisions, e \in Events :
    eventRuns[t][<<r, e>>] # "none" =>
      received[t][e].status # "none" /\ received[t][e].revision = r

\* The types of the variables, and of their members.
LEMMA EventTyped ==
  ASSUME EventTriggersTypeOK, NEW t \in Triggers
  PROVE  /\ triggers \in [Triggers -> Trigger] /\ triggers[t] \in Trigger
         /\ updating \in [Triggers -> 0..MaxTriggerRevision]
         /\ updating[t] \in 0..MaxTriggerRevision
         /\ instance \in ProviderInstance
         /\ calls \in [Triggers -> Call] /\ calls[t] \in Call
         /\ late \subseteq [trigger : Triggers, id : 0..MaxInstances,
                            kind : {"upsert", "delete", "enable", "disable"}]
         /\ received \in [Triggers -> [Events -> Received]]
         /\ received[t] \in [Events -> Received]
         /\ \A e \in Events : received[t][e] \in Received
         /\ eventRuns \in [Triggers -> [TriggerRevisions \X Events -> {"none", "working", "ended"}]]
         /\ eventRuns[t] \in [TriggerRevisions \X Events -> {"none", "working", "ended"}]
         /\ eventDispatch \in [Triggers ->
              [event : Events \cup {0}, revision : 0..MaxTriggerRevision,
               stage : {"idle", "inspect", "start", "record"}]]
         /\ eventDispatch[t] \in [event : Events \cup {0}, revision : 0..MaxTriggerRevision,
               stage : {"idle", "inspect", "start", "record"}]
<1>1. /\ triggers[t] \in Trigger /\ updating[t] \in 0..MaxTriggerRevision /\ calls[t] \in Call
      /\ received[t] \in [Events -> Received]
      /\ eventRuns[t] \in [TriggerRevisions \X Events -> {"none", "working", "ended"}]
  BY DEF EventTriggersTypeOK
<1>2. \A e \in Events : received[t][e] \in Received
  BY <1>1
<1>3. eventDispatch[t] \in [event : Events \cup {0}, revision : 0..MaxTriggerRevision,
               stage : {"idle", "inspect", "start", "record"}]
  BY DEF EventTriggersTypeOK
<1> QED BY <1>1, <1>2, <1>3 DEF EventTriggersTypeOK

\* The initial state.
LEMMA EventInitInv ==
  ASSUME EventTriggersInit
  PROVE  EventInv /\ RunsKnown
<1>1. /\ 0 \in 0..MaxTriggerRevision /\ 0 \in 0..MaxInstances
      /\ 0 \in 0..(MaxOperationAttempts + MaxReplays) /\ 0 \in 0..MaxEventAttempts
  BY EventNumbers
<1>2. triggers \in [Triggers -> Trigger]
  BY <1>1 DEF EventTriggersInit, Trigger
<1>3. /\ calls \in [Triggers -> Call]
      /\ instance \in ProviderInstance
      /\ updating \in [Triggers -> 0..MaxTriggerRevision]
      /\ late \subseteq [trigger : Triggers, id : 0..MaxInstances,
                         kind : {"upsert", "delete", "enable", "disable"}]
  BY <1>1 DEF EventTriggersInit, Call, NoCall, ProviderInstance
<1>4. received \in [Triggers -> [Events -> Received]]
  BY <1>1 DEF EventTriggersInit, Received, NotReceived
<1>5. eventRuns \in [Triggers -> [TriggerRevisions \X Events -> {"none", "working", "ended"}]]
  BY DEF EventTriggersInit
<1>6. eventDispatch \in [Triggers -> [event : Events \cup {0}, revision : 0..MaxTriggerRevision,
                                      stage : {"idle", "inspect", "start", "record"}]]
  BY <1>1 DEF EventTriggersInit, NoEventDispatch
<1>7. EventTriggersTypeOK
  BY <1>2, <1>3, <1>4, <1>5, <1>6 DEF EventTriggersTypeOK
<1>8. ASSUME NEW t \in Triggers
      PROVE  EventFollows(t)
  BY DEF EventTriggersInit, EventFollows, NoCall, NotReceived, NoEventDispatch, PendingEvents
<1>9. RunsKnown
  BY DEF EventTriggersInit, RunsKnown
<1> QED BY <1>7, <1>8, <1>9 DEF EventInv

\* A step of an operation changes one row and one call and no event.
LEMMA OperationKeepsEvents ==
  ASSUME EventInv, NEW t \in Triggers, NEW x \in Trigger, NEW y \in Call,
         triggers' = [triggers EXCEPT ![t] = x], calls' = [calls EXCEPT ![t] = y],
         UNCHANGED eventVars,
         updating' \in [Triggers -> 0..MaxTriggerRevision],
         instance' \in ProviderInstance,
         late' \subseteq [trigger : Triggers, id : 0..MaxInstances,
                          kind : {"upsert", "delete", "enable", "disable"}],
         x.status = "none" => /\ triggers[t].status = "none" /\ x.operation = "stable"
                              /\ x.id = 0 /\ y.kind = "none",
         x.status # "none" => x.revision >= 1,
         PendingEvents(t) # {} => x.revision = triggers[t].revision
  PROVE  EventInv'
<1>1. triggers \in [Triggers -> Trigger] /\ calls \in [Triggers -> Call]
  BY EventTyped DEF EventInv
<1>2. /\ triggers' \in [Triggers -> Trigger] /\ triggers'[t] = x
      /\ calls' \in [Triggers -> Call] /\ calls'[t] = y
      /\ \A u \in Triggers \ {t} : triggers'[u] = triggers[u] /\ calls'[u] = calls[u]
  BY <1>1
<1>3. EventTriggersTypeOK'
  BY <1>2 DEF EventInv, EventTriggersTypeOK, eventVars
<1>4. ASSUME NEW u \in Triggers
      PROVE  EventFollows(u)'
  <2>1. PendingEvents(u)' = PendingEvents(u) /\ received' = received /\ eventDispatch' = eventDispatch
    BY DEF PendingEvents, eventVars
  <2>2. CASE u # t
    BY <1>2, <2>1, <2>2 DEF EventInv, EventFollows
  <2>3. CASE u = t
    <3>1. EventFollows(t)
      BY DEF EventInv
    <3> QED BY <1>2, <2>1, <2>3, <3>1 DEF EventFollows
  <2> QED BY <2>2, <2>3
<1> QED BY <1>3, <1>4 DEF EventInv

\* The provider's instance after a request.
LEMMA InstanceTyped ==
  ASSUME EventTriggersTypeOK, NEW t, NEW kind, NEW id, CanMake(kind)
  PROVE  AfterRequest(t, kind, id) \in ProviderInstance
<1>1. instance \in ProviderInstance
  BY DEF EventTriggersTypeOK
<1>2. kind = "upsert" /\ instance.id = 0 => instance.made + 1 \in 0..MaxInstances
  BY <1>1, EventNumbers DEF CanMake, ProviderInstance
<1>3. 0 \in 0..MaxInstances
  BY EventNumbers
<1>4. /\ [instance EXCEPT !.enabled = TRUE, !.stray = @ /\ triggers[t].id # 0]
           \in ProviderInstance
      /\ [instance EXCEPT !.enabled = TRUE] \in ProviderInstance
      /\ [instance EXCEPT !.enabled = FALSE] \in ProviderInstance
      /\ [instance EXCEPT !.id = 0, !.enabled = FALSE, !.stray = FALSE] \in ProviderInstance
  BY <1>1, <1>3 DEF ProviderInstance
<1>5. CASE kind = "upsert" /\ instance.id = 0
  BY <1>2, <1>5 DEF AfterRequest, ProviderInstance
<1>6. CASE ~(kind = "upsert" /\ instance.id = 0)
  BY <1>1, <1>4, <1>6 DEF AfterRequest
<1> QED BY <1>5, <1>6

\* Two fields of a row are written at once.
LEMMA ChainedClaim ==
  ASSUME NEW f \in [Triggers -> Trigger], NEW t \in Triggers, NEW a, NEW w
  PROVE  [f EXCEPT ![t].attempts = a, ![t].retry = w]
           = [f EXCEPT ![t] = [f[t] EXCEPT !.attempts = a, !.retry = w]]
OBVIOUS

\* The same for a call.
LEMMA ChainedCall ==
  ASSUME NEW f \in [Triggers -> Call], NEW t \in Triggers, NEW a, NEW i
  PROVE  /\ [f EXCEPT ![t].acted = a, ![t].id = i]
              = [f EXCEPT ![t] = [f[t] EXCEPT !.acted = a, !.id = i]]
         /\ [f EXCEPT ![t].kind = "delete", ![t].acted = FALSE]
              = [f EXCEPT ![t] = [f[t] EXCEPT !.kind = "delete", !.acted = FALSE]]
OBVIOUS

\* The requests of the owner.
LEMMA OwnerKeepsEvents ==
  ASSUME EventInv, NEW t \in Triggers,
         \/ CreateTrigger(t) \/ BeginUpdate(t) \/ EndUpdate(t)
         \/ \E operation \in {"pausing", "resuming", "deleting"} : Lifecycle(t, operation)
  PROVE  EventInv'
<1>0. /\ EventTriggersTypeOK /\ EventFollows(t)
      /\ calls = [calls EXCEPT ![t] = calls[t]]
      /\ triggers = [triggers EXCEPT ![t] = triggers[t]]
  BY EventTyped DEF EventInv
<1>1. triggers[t] \in Trigger /\ calls[t] \in Call /\ updating[t] \in 0..MaxTriggerRevision
  BY <1>0, EventTyped
<1>2. /\ updating \in [Triggers -> 0..MaxTriggerRevision]
      /\ instance \in ProviderInstance
      /\ late \subseteq [trigger : Triggers, id : 0..MaxInstances,
                         kind : {"upsert", "delete", "enable", "disable"}]
  BY <1>0, EventTyped
<1>3. CASE CreateTrigger(t)
  <2> DEFINE x == [triggers[t] EXCEPT !.status = "active", !.revision = 1,
                                      !.operation = "creating", !.retry = "due"]
  <2>0. 1 \in 0..MaxTriggerRevision /\ "creating" \in Operations
    BY EventNumbers DEF Operations
  <2>1. x \in Trigger
    BY <1>1, <2>0, TriggerRevised
  <2>2. x.status = "active" /\ x.status # "none" /\ x.revision >= 1
    BY <1>1 DEF Trigger
  <2>3. triggers' = [triggers EXCEPT ![t] = x]
    BY <1>3 DEF CreateTrigger
  <2> HIDE DEF x
  <2>4. PendingEvents(t) = {}
    BY <1>0, <1>3 DEF CreateTrigger, EventFollows, PendingEvents
  <2>5. UNCHANGED <<updating, instance, calls, late>> /\ UNCHANGED eventVars
    BY <1>3 DEF CreateTrigger
  <2> QED BY <1>0, <1>1, <1>2, <2>1, <2>2, <2>3, <2>4, <2>5, OperationKeepsEvents
<1>4. CASE BeginUpdate(t)
  <2>1. triggers[t].revision \in 0..MaxTriggerRevision
    BY <1>1, TriggerFields
  <2>2. updating' \in [Triggers -> 0..MaxTriggerRevision]
    BY <1>2, <1>4, <2>1 DEF BeginUpdate
  <2> QED BY <1>0, <1>1, <1>2, <1>4, <2>2, OperationKeepsEvents DEF BeginUpdate, EventFollows
<1>5. CASE EndUpdate(t)
  <2>1. 0 \in 0..MaxTriggerRevision
    BY EventNumbers
  <2>2. updating' \in [Triggers -> 0..MaxTriggerRevision]
    BY <1>2, <1>5, <2>1 DEF EndUpdate
  <2>3. CASE triggers' = triggers
    BY <1>0, <1>1, <1>2, <1>5, <2>2, <2>3, OperationKeepsEvents DEF EndUpdate, EventFollows
  <2>4. CASE triggers' # triggers
    <3> DEFINE r == triggers[t].revision + 1
               x == [triggers[t] EXCEPT !.revision = r]
    <3>1. Fresh(t) /\ updating[t] < MaxTriggerRevision /\ updating[t] # 0
          /\ triggers' = [triggers EXCEPT ![t].revision = @ + 1]
      BY <1>5, <2>4 DEF EndUpdate
    <3>2. r \in 0..MaxTriggerRevision /\ r >= 1
      BY <1>1, <3>1, EventNumbers DEF Fresh
    <3> HIDE DEF r
    <3>3. x \in Trigger
      BY <1>1, <3>2, TriggerWrites
    <3>6. /\ x.revision = r /\ x.status = triggers[t].status
          /\ x.operation = triggers[t].operation /\ x.id = triggers[t].id
      BY <1>1 DEF Trigger
    <3>4. triggers' = [triggers EXCEPT ![t] = x]
      BY <3>1 DEF r
    <3> HIDE DEF x
    <3>5. PendingEvents(t) = {}
      BY <3>1 DEF Fresh
    <3>7. UNCHANGED <<instance, calls, late>> /\ UNCHANGED eventVars
      BY <1>5 DEF EndUpdate
    <3>8. x.status = "none" => /\ triggers[t].status = "none" /\ x.operation = "stable"
                               /\ x.id = 0 /\ calls[t].kind = "none"
      BY <1>0, <3>6 DEF EventFollows
    <3> QED BY <1>0, <1>1, <1>2, <2>2, <3>2, <3>3, <3>4, <3>5, <3>6, <3>7, <3>8,
               OperationKeepsEvents
  <2> QED BY <2>3, <2>4
<1>6. ASSUME NEW operation \in {"pausing", "resuming", "deleting"}, Lifecycle(t, operation)
      PROVE  EventInv'
  <2> DEFINE r == triggers[t].revision + 1
             s == IF operation = "deleting" /\ triggers[t].id = 0
                  THEN "deleted" ELSE triggers[t].status
             x == [triggers[t] EXCEPT !.revision = r, !.operation = operation,
                                      !.attempts = 0, !.retry = "due", !.status = s]
  <2>1. /\ r \in 0..MaxTriggerRevision /\ r >= 1
        /\ s \in {"none", "active", "paused", "deleted"} /\ s # "none"
    BY <1>1, <1>6, EventNumbers, TriggerFields DEF Lifecycle, Live
  <2>2. triggers' = [triggers EXCEPT ![t] = x]
    BY <1>6 DEF Lifecycle
  <2> HIDE DEF r, s
  <2>3. x \in Trigger
    BY <1>1, <1>6, <2>1, TriggerRevised DEF Operations
  <2>4. x.status = s /\ x.revision = r
    BY <1>1 DEF Trigger
  <2> HIDE DEF x
  <2>5. PendingEvents(t) = {}
    BY <1>6 DEF Lifecycle, Permitted
  <2>6. UNCHANGED <<updating, instance, calls, late>> /\ UNCHANGED eventVars
    BY <1>6 DEF Lifecycle
  <2> QED BY <1>0, <1>1, <1>2, <2>1, <2>2, <2>3, <2>4, <2>5, <2>6, OperationKeepsEvents
<1> QED BY <1>3, <1>4, <1>5, <1>6

\* A recovery is claimed, the provider acts, and its answer is used or lost.
LEMMA RecoveryKeepsEvents ==
  ASSUME EventInv, NEW t \in Triggers,
         \/ \E requested, connected \in BOOLEAN : Recover(t, requested, connected)
         \/ OperationDue(t) \/ ProviderActs(t)
         \/ \E lands \in BOOLEAN : CallLost(t, lands)
         \/ Created(t) \/ Found(t) \/ Managed(t)
  PROVE  EventInv'
<1>0. /\ EventTriggersTypeOK /\ EventFollows(t)
      /\ calls = [calls EXCEPT ![t] = calls[t]]
      /\ triggers = [triggers EXCEPT ![t] = triggers[t]]
  BY EventTyped DEF EventInv
<1>1. /\ triggers[t] \in Trigger /\ calls[t] \in Call /\ updating[t] \in 0..MaxTriggerRevision
      /\ triggers \in [Triggers -> Trigger] /\ calls \in [Triggers -> Call]
      /\ instance \in ProviderInstance
  BY <1>0, EventTyped
<1>2. /\ updating \in [Triggers -> 0..MaxTriggerRevision]
      /\ instance \in ProviderInstance
      /\ late \subseteq [trigger : Triggers, id : 0..MaxInstances,
                         kind : {"upsert", "delete", "enable", "disable"}]
  BY <1>0, EventTyped
<1>3. ASSUME NEW requested \in BOOLEAN, NEW connected \in BOOLEAN, Recover(t, requested, connected)
      PROVE  EventInv'
  <2> DEFINE a == triggers[t].attempts + 1
             w == IF a < MaxOperationAttempts THEN "later" ELSE "never"
             x == [triggers[t] EXCEPT !.attempts = a, !.retry = w]
             c == [kind |-> KindOf(triggers[t]), operation |-> triggers[t].operation,
                   revision |-> triggers[t].revision, attempts |-> a,
                   id |-> triggers[t].id, acted |-> FALSE]
  <2>1. /\ a \in 0..(MaxOperationAttempts + MaxReplays) /\ w \in {"due", "later", "never"}
        /\ triggers[t].operation # "stable"
    BY <1>1, <1>3, EventNumbers, TriggerFields DEF Recover, OperationRecoverable
  <2>2. triggers' = [triggers EXCEPT ![t].attempts = a, ![t].retry = w]
        /\ (calls' = calls \/ calls' = [calls EXCEPT ![t] = c])
        /\ UNCHANGED <<updating, instance, late>> /\ UNCHANGED eventVars
    BY <1>3 DEF Recover
  <2>3. c \in Call
    <3>1. KindOf(triggers[t]) \in {"upsert", "find", "delete", "enable", "disable"}
      BY <1>1, <2>1 DEF KindOf, Trigger
    <3> HIDE DEF a
    <3> QED BY <1>1, <2>1, <3>1 DEF Call, Trigger
  <2> HIDE DEF a, w, c
  <2>4. triggers' = [triggers EXCEPT ![t] = x] /\ x \in Trigger
    BY <1>1, <2>1, <2>2, ChainedClaim, TriggerWrites
  <2>5. /\ x.status = triggers[t].status /\ x.revision = triggers[t].revision
        /\ x.status # "none"
    BY <1>0, <1>1, <2>1 DEF Trigger, EventFollows
  <2> HIDE DEF x
  <2>6. PICK y \in Call : calls' = [calls EXCEPT ![t] = y]
    BY <1>0, <1>1, <2>2, <2>3
  <2>7. x.revision >= 1
    BY <1>0, <2>5 DEF EventFollows
  <2> QED BY <1>0, <1>2, <2>2, <2>4, <2>5, <2>6, <2>7, OperationKeepsEvents
<1>4. CASE OperationDue(t)
  <2> DEFINE x == [triggers[t] EXCEPT !.retry = "due"]
  <2>1. x \in Trigger
    BY <1>1, TriggerWrites
  <2>2. /\ x.status = triggers[t].status /\ x.revision = triggers[t].revision
        /\ x.operation = triggers[t].operation /\ x.id = triggers[t].id
    BY <1>1 DEF Trigger
  <2>3. /\ triggers' = [triggers EXCEPT ![t] = x]
        /\ UNCHANGED <<updating, instance, calls, late>> /\ UNCHANGED eventVars
    BY <1>4 DEF OperationDue
  <2> HIDE DEF x
  <2>4. /\ x.status = "none" => /\ triggers[t].status = "none" /\ x.operation = "stable"
                                /\ x.id = 0 /\ calls[t].kind = "none"
        /\ x.status # "none" => x.revision >= 1
    BY <1>0, <2>2 DEF EventFollows
  <2> QED BY <1>0, <1>1, <1>2, <2>1, <2>2, <2>3, <2>4, OperationKeepsEvents
<1>5. CASE ProviderActs(t)
  <2> DEFINE i == CASE calls[t].kind = "upsert" -> instance'.id
                    [] calls[t].kind = "find" -> IF instance.enabled THEN instance.id ELSE 0
                    [] OTHER -> calls[t].id
             y == [calls[t] EXCEPT !.acted = TRUE, !.id = i]
  <2>1. instance' \in ProviderInstance
    BY <1>0, <1>5, InstanceTyped DEF ProviderActs
  <2>2. i \in 0..MaxInstances
    <3>1. /\ instance'.id \in 0..MaxInstances /\ instance.id \in 0..MaxInstances
          /\ calls[t].id \in 0..MaxInstances /\ 0 \in 0..MaxInstances
      <4>1. 0 \in 0..MaxInstances
        BY EventNumbers
      <4>2. calls[t].id \in 0..MaxInstances
        BY <1>1, CallWrites
      <4> QED BY <1>1, <2>1, <4>1, <4>2 DEF ProviderInstance
    <3> QED BY <3>1
  <2>3. calls' = [calls EXCEPT ![t].acted = TRUE, ![t].id = i] /\ calls[t].kind # "none"
        /\ UNCHANGED <<triggers, updating, late>> /\ UNCHANGED eventVars
    BY <1>5 DEF ProviderActs, Leased
  <2> HIDE DEF i
  <2>4. calls' = [calls EXCEPT ![t] = y] /\ y \in Call
    BY <1>1, <2>2, <2>3, ChainedCall, CallWrites
  <2> HIDE DEF y
  <2>5. triggers[t].status # "none" /\ triggers[t].revision >= 1
    BY <1>0, <2>3 DEF EventFollows
  <2>6. /\ triggers' = [triggers EXCEPT ![t] = triggers[t]] /\ UNCHANGED eventVars
        /\ updating' \in [Triggers -> 0..MaxTriggerRevision]
        /\ late' \subseteq [trigger : Triggers, id : 0..MaxInstances,
                            kind : {"upsert", "delete", "enable", "disable"}]
    BY <1>0, <1>2, <2>3
  <2> HIDE DEF EventInv
  <2> QED BY <1>1, <2>1, <2>4, <2>5, <2>6, OperationKeepsEvents
<1>6. ASSUME NEW lands \in BOOLEAN, CallLost(t, lands)
      PROVE  EventInv'
  <2>1. /\ late' \subseteq [trigger : Triggers, id : 0..MaxInstances,
                            kind : {"upsert", "delete", "enable", "disable"}]
    <3>1. calls[t].id \in 0..MaxInstances
          /\ calls[t].kind \in {"none", "upsert", "find", "delete", "enable", "disable"}
      BY <1>1, CallWrites
    <3>2. lands => calls[t].kind \notin {"none", "find"}
      BY <1>6 DEF CallLost, Leased
    <3>3. late' = IF lands
                  THEN late \cup {[trigger |-> t, kind |-> calls[t].kind, id |-> calls[t].id]}
                  ELSE late
      BY <1>6 DEF CallLost
    <3> QED BY <1>2, <3>1, <3>2, <3>3
  <2>2. NoCall \in Call /\ NoCall.kind = "none"
    BY <1>1, CallWrites
  <2> QED BY <1>0, <1>1, <1>2, <1>6, <2>1, <2>2, OperationKeepsEvents DEF CallLost, EventFollows
<1>7. ASSUME NEW s \in {"active", "paused", "deleted"}, NEW i \in 0..MaxInstances,
             calls[t].kind # "none",
             \/ triggers' = [triggers EXCEPT ![t] = [Settled(triggers[t], s) EXCEPT !.id = i]]
             \/ triggers' = [triggers EXCEPT ![t] = Settled(triggers[t], s)]
             \/ triggers' = [triggers EXCEPT ![t].id = i]
             \/ triggers' = triggers,
             NEW y \in Call, calls' = [calls EXCEPT ![t] = y],
             UNCHANGED <<updating, instance, late>>, UNCHANGED eventVars
      PROVE  EventInv'
  <2>1. PICK x \in Trigger : /\ triggers' = [triggers EXCEPT ![t] = x]
                             /\ x.revision = triggers[t].revision
                             /\ x.status \in {triggers[t].status, s}
    <3>1. Settled(triggers[t], s) \in Trigger
      BY <1>1, TriggerWrites
    <3>2. /\ [Settled(triggers[t], s) EXCEPT !.id = i] \in Trigger
          /\ [triggers[t] EXCEPT !.id = i] \in Trigger
      BY <1>1, <3>1, TriggerWrites
    <3>3. /\ Settled(triggers[t], s).revision = triggers[t].revision
          /\ Settled(triggers[t], s).status = s
      BY <1>1 DEF Settled, Trigger
    <3>4. /\ [Settled(triggers[t], s) EXCEPT !.id = i].revision = triggers[t].revision
          /\ [Settled(triggers[t], s) EXCEPT !.id = i].status = s
      BY <3>1, <3>3 DEF Trigger
    <3>5. /\ [triggers[t] EXCEPT !.id = i].revision = triggers[t].revision
          /\ [triggers[t] EXCEPT !.id = i].status = triggers[t].status
      BY <1>1 DEF Trigger
    <3>6. CASE triggers' = [triggers EXCEPT ![t] = [Settled(triggers[t], s) EXCEPT !.id = i]]
      BY <3>2, <3>4, <3>6
    <3>7. CASE triggers' = [triggers EXCEPT ![t] = Settled(triggers[t], s)]
      BY <3>1, <3>3, <3>7
    <3>8. CASE triggers' = [triggers EXCEPT ![t].id = i]
      BY <3>2, <3>5, <3>8
    <3>9. CASE triggers' = triggers
      BY <1>0, <1>1, <3>9
    <3> QED BY <1>7, <3>6, <3>7, <3>8, <3>9
  <2>2. triggers[t].status # "none" /\ triggers[t].revision >= 1
    BY <1>0, <1>7 DEF EventFollows
  <2>3. x.status # "none" /\ x.revision >= 1
    BY <1>7, <2>1, <2>2
  <2> QED BY <1>0, <1>2, <1>7, <2>1, <2>3, OperationKeepsEvents
<1>8. NoCall \in Call /\ calls[t].id \in 0..MaxInstances /\ 0 \in 0..MaxInstances
      /\ [calls[t] EXCEPT !.kind = "delete", !.acted = FALSE] \in Call
  <2>1. 0 \in 0..MaxInstances
    BY EventNumbers
  <2> QED BY <1>1, <2>1, CallWrites
<1>9. CASE Created(t)
  <2>1. triggers[t].status \in {"active", "paused", "deleted"}
    BY <1>0, <1>1, <1>9, TriggerFields DEF Created, EventFollows
  <2> QED BY <1>7, <1>8, <1>9, <2>1 DEF Created
<1>10. CASE Found(t)
  <2>1. PICK y \in Call : calls' = [calls EXCEPT ![t] = y]
    BY <1>1, <1>8, <1>10, ChainedCall DEF Found
  <2> QED BY <1>7, <1>8, <1>10, <2>1 DEF Found
<1>11. CASE Managed(t)
  <2>1. PICK s \in {"active", "paused", "deleted"} :
          triggers' = [triggers EXCEPT ![t] = Settled(triggers[t], s)] \/ triggers' = triggers
    BY <1>11 DEF Managed
  <2> QED BY <1>7, <1>8, <1>11, <2>1 DEF Managed
<1> QED BY <1>3, <1>4, <1>5, <1>6, <1>9, <1>10, <1>11

\* The history of a trigger keeps all the events there are.
HistoryFits == IsFiniteSet(Events) /\ Cardinality(Events) <= MaxRetainedEvents

\* Pruning forgets settled occurrences only, and none when the history has room.
LEMMA PrunedRows ==
  ASSUME NEW rows \in [Events -> Received]
  PROVE  /\ Pruned(rows) \in [Events -> Received]
         /\ \A e \in Events : \/ Pruned(rows)[e] = rows[e]
                              \/ /\ Pruned(rows)[e] = NotReceived
                                 /\ rows[e].status \in {"dispatched", "skipped"}
         /\ HistoryFits => Pruned(rows) = rows
<1> DEFINE settled == {e \in Events : rows[e].status \in {"dispatched", "skipped"}}
           old(e) == Cardinality({f \in settled : f > e}) >= MaxRetainedEvents
<1>1. Pruned(rows) = [e \in Events |-> IF e \in settled /\ old(e) THEN NotReceived ELSE rows[e]]
  BY DEF Pruned
<1>2. \A e \in Events : e \in settled => rows[e].status \in {"dispatched", "skipped"}
  OBVIOUS
<1> HIDE DEF settled, old
<1>3. HistoryFits => Pruned(rows) = rows
  BY NothingPruned DEF HistoryFits
<1>4. ASSUME NEW e \in Events
      PROVE  NotReceived \in Received
  BY ReceivedWrites
<1>5. Pruned(rows) \in [Events -> Received]
  BY <1>1, <1>4
<1> QED BY <1>1, <1>2, <1>3, <1>5

\* One occurrence is written and the history of its trigger pruned.
LEMMA HistoryWrite ==
  ASSUME NEW rows \in [Events -> Received], NEW e \in Events, NEW v \in Received,
         NEW after, after = Pruned([rows EXCEPT ![e] = v])
  PROVE  /\ after \in [Events -> Received]
         /\ v.status \in {"none", "pending"} => after[e] = v
         /\ after[e].status = "pending" => after[e] = v
         /\ \A u \in Events \ {e} : /\ rows[u].status \in {"none", "pending"} => after[u] = rows[u]
                                    /\ after[u].status = "pending" => after[u] = rows[u]
         /\ HistoryFits => after[e] = v /\ \A u \in Events \ {e} : after[u] = rows[u]
<1> DEFINE z == [rows EXCEPT ![e] = v]
<1>1. z \in [Events -> Received] /\ z[e] = v /\ \A u \in Events \ {e} : z[u] = rows[u]
  OBVIOUS
<1> HIDE DEF z
<1>2. NotReceived.status = "none"
  BY DEF NotReceived
<1>3. after = Pruned(z)
  BY DEF z
<1>4. /\ after \in [Events -> Received] /\ (HistoryFits => after = z)
      /\ \A u \in Events : \/ after[u] = z[u]
                           \/ /\ after[u].status = "none"
                              /\ z[u].status \in {"dispatched", "skipped"}
  <2>1. /\ Pruned(z) \in [Events -> Received] /\ (HistoryFits => Pruned(z) = z)
        /\ \A u \in Events : \/ Pruned(z)[u] = z[u]
                             \/ /\ Pruned(z)[u] = NotReceived
                                /\ z[u].status \in {"dispatched", "skipped"}
    BY <1>1, PrunedRows
  <2> QED BY <1>2, <1>3, <2>1
<1>5. \A u \in Events : z[u].status \in {"none", "pending"} => after[u] = z[u]
  BY <1>4
<1>6. \A u \in Events : after[u].status = "pending" => after[u] = z[u]
  BY <1>4
<1> QED BY <1>1, <1>4, <1>5, <1>6

\* The Runs of one trigger change; one is started for a pending occurrence only.
RunsStarted(t) ==
  /\ eventRuns' = [eventRuns EXCEPT ![t] = eventRuns'[t]]
  /\ eventRuns'[t] \in [TriggerRevisions \X Events -> {"none", "working", "ended"}]
  /\ \A r \in TriggerRevisions, e \in Events : eventRuns'[t][<<r, e>>] # "none" =>
       \/ eventRuns[t][<<r, e>>] # "none"
       \/ received[t][e].status = "pending" /\ received[t][e].revision = r

\* At most the last Run of one trigger changes in its row.
RowStays(t) ==
  /\ triggers' = [triggers EXCEPT ![t] = triggers'[t]] /\ triggers'[t] \in Trigger
  /\ triggers'[t].status = triggers[t].status /\ triggers'[t].revision = triggers[t].revision
  /\ triggers'[t].operation = triggers[t].operation /\ triggers'[t].id = triggers[t].id

\* A step over the events of one trigger: what stays pending, and what the alarm
\* dispatches, is of the revision; what was received is remembered if there is room;
\* a Run is started for a pending occurrence.
EventStep(t) ==
  /\ RowStays(t) /\ RunsStarted(t)
  /\ received' = [received EXCEPT ![t] = received'[t]]
  /\ received'[t] \in [Events -> Received]
  /\ eventDispatch' = [eventDispatch EXCEPT ![t] = eventDispatch'[t]]
  /\ eventDispatch'[t] \in [event : Events \cup {0}, revision : 0..MaxTriggerRevision,
                            stage : {"idle", "inspect", "start", "record"}]
  /\ UNCHANGED <<updating, instance, calls, late>>
  /\ \A e \in Events : received'[t][e].status = "pending" =>
       received'[t][e].revision = triggers[t].revision
  /\ triggers[t].status = "none" => \A e \in Events : received'[t][e].status = "none"
  /\ eventDispatch'[t].stage # "idle" =>
       /\ eventDispatch'[t].event \in Events
       /\ received'[t][eventDispatch'[t].event].status = "pending"
       /\ eventDispatch'[t].revision = triggers[t].revision
  /\ HistoryFits => \A e \in Events : received[t][e].status # "none" =>
       received'[t][e].status # "none" /\ received'[t][e].revision = received[t][e].revision

\* Such a step keeps what events rest on.
LEMMA EventStepKeeps ==
  ASSUME EventInv, NEW t \in Triggers, EventStep(t)
  PROVE  EventInv' /\ (HistoryFits /\ RunsKnown => RunsKnown')
<1> DEFINE x == triggers'[t]
           rows == received'[t]
           d == eventDispatch'[t]
           f == eventRuns'[t]
<1>7. /\ triggers' = [triggers EXCEPT ![t] = x] /\ x \in Trigger
      /\ received' = [received EXCEPT ![t] = rows] /\ rows \in [Events -> Received]
      /\ eventDispatch' = [eventDispatch EXCEPT ![t] = d]
      /\ d \in [event : Events \cup {0}, revision : 0..MaxTriggerRevision,
                stage : {"idle", "inspect", "start", "record"}]
      /\ eventRuns' = [eventRuns EXCEPT ![t] = f]
      /\ f \in [TriggerRevisions \X Events -> {"none", "working", "ended"}]
      /\ x.status = triggers[t].status /\ x.revision = triggers[t].revision
      /\ x.operation = triggers[t].operation /\ x.id = triggers[t].id
      /\ UNCHANGED <<updating, instance, calls, late>>
  BY DEF EventStep, RowStays, RunsStarted
<1>8. /\ \A e \in Events : rows[e].status = "pending" => rows[e].revision = triggers[t].revision
      /\ triggers[t].status = "none" => \A e \in Events : rows[e].status = "none"
      /\ d.stage # "idle" => /\ d.event \in Events /\ rows[d.event].status = "pending"
                             /\ d.revision = triggers[t].revision
      /\ HistoryFits => \A e \in Events : received[t][e].status # "none" =>
           rows[e].status # "none" /\ rows[e].revision = received[t][e].revision
      /\ \A r \in TriggerRevisions, e \in Events : f[<<r, e>>] # "none" =>
           \/ eventRuns[t][<<r, e>>] # "none"
           \/ received[t][e].status = "pending" /\ received[t][e].revision = r
  BY DEF EventStep, RowStays, RunsStarted
<1> HIDE DEF x, rows, d, f
<1>0. EventTriggersTypeOK
  BY DEF EventInv
<1>1. /\ triggers' \in [Triggers -> Trigger] /\ triggers'[t] = x
      /\ received' \in [Triggers -> [Events -> Received]] /\ received'[t] = rows
      /\ \A u \in Triggers \ {t} : triggers'[u] = triggers[u] /\ received'[u] = received[u]
  BY <1>0, <1>7 DEF EventTriggersTypeOK
<1>2. /\ eventDispatch' \in [Triggers ->
           [event : Events \cup {0}, revision : 0..MaxTriggerRevision,
            stage : {"idle", "inspect", "start", "record"}]] /\ eventDispatch'[t] = d
      /\ \A u \in Triggers \ {t} : eventDispatch'[u] = eventDispatch[u]
  BY <1>0, <1>7 DEF EventTriggersTypeOK
<1>3. /\ eventRuns' \in [Triggers -> [TriggerRevisions \X Events -> {"none", "working", "ended"}]]
      /\ eventRuns'[t] = f
      /\ \A u \in Triggers \ {t} : eventRuns'[u] = eventRuns[u]
  BY <1>0, <1>7 DEF EventTriggersTypeOK
<1>4. EventTriggersTypeOK'
  BY <1>0, <1>1, <1>2, <1>3, <1>7 DEF EventTriggersTypeOK
<1>5. ASSUME NEW u \in Triggers
      PROVE  EventFollows(u)'
  <2>1. CASE u # t
    <3>1. PendingEvents(u)' = PendingEvents(u)
      BY <1>1, <2>1 DEF PendingEvents
    <3> QED BY <1>1, <1>2, <1>7, <2>1, <3>1 DEF EventInv, EventFollows
  <2>2. CASE u = t
    <3>1. EventFollows(t)
      BY DEF EventInv
    <3>2. PendingEvents(t)' = {e \in Events : rows[e].status = "pending"}
      BY <1>1 DEF PendingEvents
    <3> QED BY <1>1, <1>2, <1>7, <1>8, <2>2, <3>1, <3>2 DEF EventFollows
  <2> QED BY <2>1, <2>2
<1>6. ASSUME HistoryFits, RunsKnown
      PROVE  RunsKnown'
  <2>1. ASSUME NEW u \in Triggers, NEW r \in TriggerRevisions, NEW e \in Events,
               eventRuns'[u][<<r, e>>] # "none"
        PROVE  received'[u][e].status # "none" /\ received'[u][e].revision = r
    <3>1. CASE u # t
      <4>1. eventRuns[u][<<r, e>>] # "none" /\ received'[u] = received[u]
        BY <1>1, <1>3, <2>1, <3>1
      <4> QED BY <1>6, <4>1 DEF RunsKnown
    <3>2. CASE u = t
      <4>1. received[t][e].status # "none" /\ received[t][e].revision = r
        BY <1>3, <1>6, <1>8, <2>1, <3>2 DEF RunsKnown
      <4> QED BY <1>1, <1>6, <1>8, <3>2, <4>1
    <3> QED BY <3>1, <3>2
  <2> QED BY <2>1 DEF RunsKnown
<1> QED BY <1>4, <1>5, <1>6 DEF EventInv

\* Two fields of an occurrence are written at once.
LEMMA ChainedEvent ==
  ASSUME NEW f \in [Events -> Received], NEW e \in Events, NEW s
  PROVE  /\ [f EXCEPT ![e].status = s, ![e].next = "never"]
              = [f EXCEPT ![e] = [f[e] EXCEPT !.status = s, !.next = "never"]]
OBVIOUS

\* What a step over the events of a trigger may leave as it is.
LEMMA EventSame ==
  ASSUME EventInv, NEW t \in Triggers
  PROVE  /\ triggers[t] \in Trigger /\ triggers = [triggers EXCEPT ![t] = triggers[t]]
         /\ received[t] \in [Events -> Received]
         /\ triggers \in [Triggers -> Trigger]
         /\ received \in [Triggers -> [Events -> Received]]
         /\ eventRuns \in [Triggers ->
              [TriggerRevisions \X Events -> {"none", "working", "ended"}]]
         /\ eventDispatch \in [Triggers ->
              [event : Events \cup {0}, revision : 0..MaxTriggerRevision,
               stage : {"idle", "inspect", "start", "record"}]]
         /\ received = [received EXCEPT ![t] = received[t]]
         /\ eventRuns[t] \in [TriggerRevisions \X Events -> {"none", "working", "ended"}]
         /\ eventRuns = [eventRuns EXCEPT ![t] = eventRuns[t]]
         /\ eventDispatch[t] \in [event : Events \cup {0}, revision : 0..MaxTriggerRevision,
                                  stage : {"idle", "inspect", "start", "record"}]
         /\ eventDispatch = [eventDispatch EXCEPT ![t] = eventDispatch[t]]
         /\ EventFollows(t)
         /\ \A e \in Events : received[t][e] \in Received
         /\ NoEventDispatch \in [event : Events \cup {0}, revision : 0..MaxTriggerRevision,
                                 stage : {"idle", "inspect", "start", "record"}]
<1>1. EventTriggersTypeOK /\ EventFollows(t)
  BY DEF EventInv
<1>2. 0 \in 0..MaxTriggerRevision
  BY EventNumbers
<1> QED BY <1>1, <1>2, EventTyped DEF NoEventDispatch

\* The Runs and the row of a trigger stay as they are.
LEMMA NoRunStarted ==
  ASSUME EventInv, NEW t \in Triggers
  PROVE  /\ UNCHANGED eventRuns => RunsStarted(t)
         /\ UNCHANGED triggers => RowStays(t)
BY EventSame DEF RunsStarted, RowStays

\* A delivery is received or refused.
LEMMA ReceiveKeeps ==
  ASSUME EventInv, NEW t \in Triggers, NEW e \in Events, NEW admissible \in BOOLEAN,
         Receive(t, e, admissible)
  PROVE  EventInv' /\ (HistoryFits /\ RunsKnown => RunsKnown')
<1> DEFINE accepted == /\ triggers[t].status = "active" /\ triggers[t].operation = "stable"
                       /\ admissible /\ Cardinality(PendingEvents(t)) < MaxPendingEvents
           v == [status |-> IF accepted THEN "pending" ELSE "skipped",
                 revision |-> triggers[t].revision, attempts |-> 1,
                 next |-> IF accepted THEN "due" ELSE "never"]
           rows == Pruned([received[t] EXCEPT ![e] = v])
<1>1. v \in Received /\ v.revision = triggers[t].revision
  <2> HIDE DEF accepted
  <2>1. triggers[t].revision \in 0..MaxTriggerRevision /\ received[t][e] \in Received
    BY EventSame, TriggerFields
  <2>2. v.revision = triggers[t].revision
    OBVIOUS
  <2> QED BY <2>1, <2>2, ReceivedWrites
<1>2. /\ received' = [received EXCEPT ![t] = rows]
      /\ UNCHANGED <<operationVars, eventRuns, eventDispatch>>
      /\ triggers[t].id # 0 /\ received[t][e].status = "none"
  BY DEF Receive, New
<1> HIDE DEF accepted, v
<1>8. received[t] \in [Events -> Received] /\ EventFollows(t)
  BY EventSame
<1>3. /\ rows \in [Events -> Received] /\ (rows[e].status = "pending" => rows[e] = v)
      /\ \A u \in Events \ {e} :
           /\ received[t][u].status \in {"none", "pending"} => rows[u] = received[t][u]
           /\ rows[u].status = "pending" => rows[u] = received[t][u]
      /\ HistoryFits => rows[e] = v /\ \A u \in Events \ {e} : rows[u] = received[t][u]
  BY <1>1, <1>8, HistoryWrite DEF rows
<1> HIDE DEF rows
<1>4. /\ \A u \in Events : rows[u].status = "pending" => rows[u].revision = triggers[t].revision
      /\ triggers[t].status # "none"
      /\ eventDispatch[t].stage # "idle" =>
           /\ eventDispatch[t].event \in Events /\ rows[eventDispatch[t].event].status = "pending"
           /\ eventDispatch[t].revision = triggers[t].revision
  BY <1>1, <1>2, <1>3, <1>8 DEF EventFollows, PendingEvents
<1>5. HistoryFits => \A u \in Events : received[t][u].status # "none" =>
        rows[u].status # "none" /\ rows[u].revision = received[t][u].revision
  BY <1>2, <1>3
<1>6. UNCHANGED <<triggers, updating, instance, calls, late>>
  BY <1>2 DEF operationVars
<1>7. received'[t] = rows
  BY <1>2, EventSame
<1>9. /\ triggers' = [triggers EXCEPT ![t] = triggers'[t]]
      /\ received' = [received EXCEPT ![t] = received'[t]]
      /\ eventRuns' = [eventRuns EXCEPT ![t] = eventRuns'[t]]
      /\ eventDispatch' = [eventDispatch EXCEPT ![t] = eventDispatch'[t]]
      /\ triggers'[t] \in Trigger /\ received'[t] \in [Events -> Received]
      /\ eventRuns'[t] \in [TriggerRevisions \X Events -> {"none", "working", "ended"}]
      /\ eventDispatch'[t] \in [event : Events \cup {0}, revision : 0..MaxTriggerRevision,
                                stage : {"idle", "inspect", "start", "record"}]
  BY <1>2, <1>3, <1>6, <1>7, EventSame
<1>10. triggers'[t] = triggers[t] /\ eventDispatch'[t] = eventDispatch[t]
       /\ eventRuns'[t] = eventRuns[t]
  BY <1>2, <1>6
<1>11. EventStep(t)
  BY <1>4, <1>5, <1>6, <1>7, <1>9, <1>10 DEF EventStep, RowStays, RunsStarted
<1> QED BY <1>11, EventStepKeeps

\* The occurrence that the alarm works on is closed, or changes and stays pending.
LEMMA CloseKeeps ==
  ASSUME EventInv, NEW t \in Triggers, NEW e \in PendingEvents(t),
         NEW status \in {"dispatched", "skipped"}, Close(t, e, status),
         eventDispatch[t].stage # "idle" => eventDispatch[t].event = e,
         eventDispatch' = [eventDispatch EXCEPT ![t] = NoEventDispatch],
         RunsStarted(t), RowStays(t), UNCHANGED <<updating, instance, calls, late>>
  PROVE  EventInv' /\ (HistoryFits /\ RunsKnown => RunsKnown')
<1> DEFINE v == [received[t][e] EXCEPT !.status = status, !.next = "never"]
           rows == Pruned([received[t] EXCEPT ![e] = v])
<1>0. e \in Events /\ received[t][e].status = "pending" /\ received[t][e] \in Received
      /\ triggers[t].status # "none"
  BY EventSame DEF PendingEvents, EventFollows
<1>1. /\ v \in Received /\ v.status = status /\ v.revision = received[t][e].revision
      /\ received[t] \in [Events -> Received]
  <2>1. v \in Received
    BY <1>0, ReceivedWrites
  <2> QED BY <1>0, <2>1, EventSame DEF Received
<1>2. received' = [received EXCEPT ![t] = rows]
  <2>1. [received[t] EXCEPT ![e].status = status, ![e].next = "never"]
          = [received[t] EXCEPT ![e] = v]
    BY <1>0, <1>1, ChainedEvent
  <2> QED BY <2>1 DEF Close
<1> HIDE DEF v
<1>8. received[t] \in [Events -> Received] /\ EventFollows(t)
  BY EventSame
<1>3. /\ rows \in [Events -> Received] /\ (rows[e].status = "pending" => rows[e] = v)
      /\ \A u \in Events \ {e} :
           /\ received[t][u].status \in {"none", "pending"} => rows[u] = received[t][u]
           /\ rows[u].status = "pending" => rows[u] = received[t][u]
      /\ HistoryFits => rows[e] = v /\ \A u \in Events \ {e} : rows[u] = received[t][u]
  BY <1>0, <1>1, <1>8, HistoryWrite DEF rows
<1> HIDE DEF rows
<1>4. \A u \in Events : rows[u].status = "pending" => rows[u].revision = triggers[t].revision
  BY <1>1, <1>3, <1>8 DEF EventFollows, PendingEvents
<1>5. HistoryFits => \A u \in Events : received[t][u].status # "none" =>
        rows[u].status # "none" /\ rows[u].revision = received[t][u].revision
  BY <1>1, <1>3
<1>6. NoEventDispatch.stage = "idle"
      /\ NoEventDispatch \in [event : Events \cup {0}, revision : 0..MaxTriggerRevision,
                              stage : {"idle", "inspect", "start", "record"}]
  BY EventSame DEF NoEventDispatch
<1>7. received'[t] = rows /\ eventDispatch'[t] = NoEventDispatch
  BY <1>2, EventSame
<1>9. /\ received' = [received EXCEPT ![t] = received'[t]]
      /\ eventDispatch' = [eventDispatch EXCEPT ![t] = eventDispatch'[t]]
  BY <1>2, <1>7
<1>10. EventStep(t)
  BY <1>0, <1>3, <1>4, <1>5, <1>6, <1>7, <1>9 DEF EventStep
<1> QED BY <1>10, EventStepKeeps

\* One occurrence changes and keeps its status and its revision.
LEMMA TouchedRows ==
  ASSUME NEW rows \in [Events -> Received], NEW e \in Events, NEW v \in Received,
         v.status = rows[e].status, v.revision = rows[e].revision
  PROVE  /\ [rows EXCEPT ![e] = v] \in [Events -> Received]
         /\ \A u \in Events : /\ [rows EXCEPT ![e] = v][u].status = rows[u].status
                              /\ [rows EXCEPT ![e] = v][u].revision = rows[u].revision
OBVIOUS

\* A step over the events of one trigger that closes none.
LEMMA QuietEventStep ==
  ASSUME EventInv, NEW t \in Triggers, UNCHANGED operationVars,
         received' = [received EXCEPT ![t] = received'[t]],
         received'[t] \in [Events -> Received],
         \A u \in Events : /\ received'[t][u].status = received[t][u].status
                           /\ received'[t][u].revision = received[t][u].revision,
         RunsStarted(t),
         eventDispatch' = [eventDispatch EXCEPT ![t] = eventDispatch'[t]],
         eventDispatch'[t] \in [event : Events \cup {0}, revision : 0..MaxTriggerRevision,
                                stage : {"idle", "inspect", "start", "record"}],
         eventDispatch'[t].stage # "idle" =>
           /\ eventDispatch'[t].event \in Events
           /\ received[t][eventDispatch'[t].event].status = "pending"
           /\ eventDispatch'[t].revision = triggers[t].revision
  PROVE  EventInv' /\ (HistoryFits /\ RunsKnown => RunsKnown')
<1>1. /\ triggers' = [triggers EXCEPT ![t] = triggers'[t]] /\ triggers'[t] = triggers[t]
      /\ triggers[t] \in Trigger /\ EventFollows(t)
      /\ UNCHANGED <<updating, instance, calls, late>>
  BY EventSame DEF operationVars
<1>2. /\ \A u \in Events : received'[t][u].status = "pending" =>
           received'[t][u].revision = triggers[t].revision
      /\ triggers[t].status = "none" => \A u \in Events : received'[t][u].status = "none"
  BY <1>1 DEF EventFollows, PendingEvents
<1>3. EventStep(t)
  BY <1>1, <1>2 DEF EventStep, RowStays
<1> QED BY <1>3, EventStepKeeps

\* The alarm claims the oldest due event of a trigger, or gives it up.
LEMMA ClaimEventKeeps ==
  ASSUME EventInv, NEW t \in Triggers, ClaimEvent(t)
  PROVE  EventInv' /\ (HistoryFits /\ RunsKnown => RunsKnown')
<1> DEFINE e == Min(ClaimableEvents(t))
<1>1. e \in PendingEvents(t) /\ e \in Events
  <2>1. ClaimableEvents(t) \subseteq Events /\ ClaimableEvents(t) # {}
    BY DEF ClaimEvent, ClaimableEvents, PendingEvents
  <2>2. ClaimableEvents(t) \subseteq Nat
    BY <2>1, EventNumbers
  <2>3. e \in ClaimableEvents(t)
    BY <2>1, <2>2, OldestEvent
  <2> QED BY <2>3 DEF ClaimableEvents, PendingEvents
<1> HIDE DEF e
<1>2. /\ triggers[t] \in Trigger /\ received[t] \in [Events -> Received]
      /\ received \in [Triggers -> [Events -> Received]]
      /\ received[t][e] \in Received /\ EventFollows(t)
      /\ eventRuns[t] \in [TriggerRevisions \X Events -> {"none", "working", "ended"}]
      /\ eventRuns = [eventRuns EXCEPT ![t] = eventRuns[t]]
      /\ triggers = [triggers EXCEPT ![t] = triggers[t]]
      /\ eventDispatch = [eventDispatch EXCEPT ![t] = eventDispatch[t]]
      /\ eventDispatch \in [Triggers ->
              [event : Events \cup {0}, revision : 0..MaxTriggerRevision,
               stage : {"idle", "inspect", "start", "record"}]]
      /\ NoEventDispatch.stage = "idle"
  BY <1>1, EventSame DEF NoEventDispatch
<1>3. eventDispatch[t] = NoEventDispatch /\ UNCHANGED operationVars /\ UNCHANGED eventRuns
  BY DEF ClaimEvent
<1>4. CASE Close(t, e, "skipped") /\ UNCHANGED eventDispatch
  <2>1. UNCHANGED <<triggers, updating, instance, calls, late>>
    BY <1>3 DEF operationVars
  <2>2. RunsStarted(t) /\ RowStays(t)
    BY <1>3, <2>1, NoRunStarted
  <2> QED BY <1>1, <1>2, <1>3, <1>4, <2>1, <2>2, CloseKeeps
<1>5. CASE ~(Close(t, e, "skipped") /\ UNCHANGED eventDispatch)
  <2> DEFINE v == [received[t][e] EXCEPT !.attempts = @ + 1, !.next = "later"]
             d == [event |-> e, revision |-> triggers[t].revision, stage |-> "inspect"]
  <2>1. /\ ~Exhausted(t, e)
        /\ received' = [received EXCEPT ![t][e].attempts = @ + 1, ![t][e].next = "later"]
        /\ eventDispatch' = [eventDispatch EXCEPT ![t] = d]
    BY <1>5 DEF ClaimEvent, e
  <2>2. v \in Received /\ v.status = received[t][e].status
        /\ v.revision = received[t][e].revision
    <3>1. received[t][e].attempts < MaxEventAttempts
      BY <1>2, <2>1, EventNumbers DEF Exhausted, Received
    <3>2. v \in Received
      BY <1>2, <3>1, ReceivedWrites
    <3> QED BY <1>2, <3>2 DEF Received
  <2>3. received' = [received EXCEPT ![t] = [received[t] EXCEPT ![e] = v]]
    BY <1>1, <1>2, <2>1
  <2> HIDE DEF v
  <2>4. received'[t] = [received[t] EXCEPT ![e] = v] /\ received' = [received EXCEPT ![t] = received'[t]]
    BY <1>2, <2>3
  <2>5. /\ received'[t] \in [Events -> Received]
        /\ \A u \in Events : /\ received'[t][u].status = received[t][u].status
                             /\ received'[t][u].revision = received[t][u].revision
    BY <1>1, <1>2, <2>2, <2>4, TouchedRows
  <2>6. /\ eventDispatch'[t] = d
        /\ d \in [event : Events \cup {0}, revision : 0..MaxTriggerRevision,
                  stage : {"idle", "inspect", "start", "record"}]
    BY <1>1, <1>2, <2>1, TriggerFields
  <2>7. eventDispatch' = [eventDispatch EXCEPT ![t] = eventDispatch'[t]]
        /\ RunsStarted(t)
    BY <1>2, <1>3, <2>1, <2>6, NoRunStarted
  <2>8. received[t][e].status = "pending" /\ d.event = e /\ d.revision = triggers[t].revision
    BY <1>1 DEF PendingEvents
  <2> HIDE DEF d
  <2> QED BY <1>1, <1>2, <1>3, <2>4, <2>5, <2>6, <2>7, <2>8, QuietEventStep
<1> QED BY <1>4, <1>5

\* The alarm inspects the last Run, or the dispatch is abandoned.
LEMMA InspectKeeps ==
  ASSUME EventInv, NEW t \in Triggers,
         (\E answered \in BOOLEAN : InspectLastRun(t, answered)) \/ AbandonEvent(t)
  PROVE  EventInv' /\ (HistoryFits /\ RunsKnown => RunsKnown')
<1>1. /\ received[t] \in [Events -> Received] /\ EventFollows(t)
      /\ eventRuns[t] \in [TriggerRevisions \X Events -> {"none", "working", "ended"}]
      /\ eventRuns = [eventRuns EXCEPT ![t] = eventRuns[t]]
      /\ received = [received EXCEPT ![t] = received[t]]
      /\ eventDispatch \in [Triggers ->
              [event : Events \cup {0}, revision : 0..MaxTriggerRevision,
               stage : {"idle", "inspect", "start", "record"}]]
      /\ eventDispatch[t] \in [event : Events \cup {0}, revision : 0..MaxTriggerRevision,
                               stage : {"idle", "inspect", "start", "record"}]
      /\ NoEventDispatch \in [event : Events \cup {0}, revision : 0..MaxTriggerRevision,
                              stage : {"idle", "inspect", "start", "record"}]
      /\ NoEventDispatch.stage = "idle"
  BY EventSame DEF NoEventDispatch
<1>2. UNCHANGED operationVars /\ UNCHANGED <<received, eventRuns>>
  BY DEF InspectLastRun, AbandonEvent
<1>3. PICK d \in {NoEventDispatch, [eventDispatch[t] EXCEPT !.stage = "start"]} :
        eventDispatch' = [eventDispatch EXCEPT ![t] = d]
        /\ eventDispatch[t].stage # "idle"
  BY <1>1 DEF InspectLastRun, AbandonEvent
<1>4. /\ d \in [event : Events \cup {0}, revision : 0..MaxTriggerRevision,
                stage : {"idle", "inspect", "start", "record"}]
      /\ d.stage # "idle" => d.event = eventDispatch[t].event
                             /\ d.revision = eventDispatch[t].revision
  BY <1>1, <1>3
<1>5. eventDispatch'[t] = d /\ eventDispatch' = [eventDispatch EXCEPT ![t] = eventDispatch'[t]]
  BY <1>1, <1>3
<1>6. /\ eventDispatch[t].event \in Events
      /\ received[t][eventDispatch[t].event].status = "pending"
      /\ eventDispatch[t].revision = triggers[t].revision
  BY <1>1, <1>3 DEF EventFollows, PendingEvents
<1>7. RunsStarted(t)
  BY <1>2, NoRunStarted
<1> QED BY <1>1, <1>2, <1>4, <1>5, <1>6, <1>7, QuietEventStep

\* The time of an attempt comes, or a Run ends.
LEMMA TimesKeep ==
  ASSUME EventInv, NEW t \in Triggers,
         \/ \E e \in Events : EventDue(t, e)
         \/ \E key \in TriggerRevisions \X Events : EventRunEnds(t, key)
  PROVE  EventInv' /\ (HistoryFits /\ RunsKnown => RunsKnown')
<1>1. /\ received[t] \in [Events -> Received] /\ EventFollows(t)
      /\ received \in [Triggers -> [Events -> Received]]
      /\ \A e \in Events : received[t][e] \in Received
      /\ eventRuns[t] \in [TriggerRevisions \X Events -> {"none", "working", "ended"}]
      /\ eventRuns \in [Triggers -> [TriggerRevisions \X Events -> {"none", "working", "ended"}]]
      /\ eventRuns = [eventRuns EXCEPT ![t] = eventRuns[t]]
      /\ received = [received EXCEPT ![t] = received[t]]
      /\ eventDispatch[t] \in [event : Events \cup {0}, revision : 0..MaxTriggerRevision,
                               stage : {"idle", "inspect", "start", "record"}]
      /\ eventDispatch = [eventDispatch EXCEPT ![t] = eventDispatch[t]]
  BY EventSame
<1>2. UNCHANGED operationVars /\ UNCHANGED eventDispatch
  BY DEF EventDue, EventRunEnds
<1>3. eventDispatch[t].stage # "idle" =>
        /\ eventDispatch[t].event \in Events
        /\ received[t][eventDispatch[t].event].status = "pending"
        /\ eventDispatch[t].revision = triggers[t].revision
  BY <1>1 DEF EventFollows, PendingEvents
<1>4. ASSUME NEW e \in Events, EventDue(t, e)
      PROVE  EventInv' /\ (HistoryFits /\ RunsKnown => RunsKnown')
  <2> DEFINE v == [received[t][e] EXCEPT !.next = "due"]
  <2>1. v \in Received /\ v.status = received[t][e].status
        /\ v.revision = received[t][e].revision
    <3>1. v \in Received
      BY <1>1, ReceivedWrites
    <3> QED BY <1>1, <3>1 DEF Received
  <2>2. received' = [received EXCEPT ![t] = [received[t] EXCEPT ![e] = v]]
        /\ eventRuns' = eventRuns
    BY <1>4 DEF EventDue
  <2> HIDE DEF v
  <2>3. received'[t] = [received[t] EXCEPT ![e] = v] /\ received' = [received EXCEPT ![t] = received'[t]]
    BY <1>1, <2>2
  <2>4. /\ received'[t] \in [Events -> Received]
        /\ \A u \in Events : /\ received'[t][u].status = received[t][u].status
                             /\ received'[t][u].revision = received[t][u].revision
    BY <1>1, <2>1, <2>3, TouchedRows
  <2>5. RunsStarted(t)
    BY <2>2, NoRunStarted
  <2> QED BY <1>1, <1>2, <1>3, <2>3, <2>4, <2>5, QuietEventStep
<1>5. ASSUME NEW key \in TriggerRevisions \X Events, EventRunEnds(t, key)
      PROVE  EventInv' /\ (HistoryFits /\ RunsKnown => RunsKnown')
  <2> DEFINE f == [eventRuns[t] EXCEPT ![key] = "ended"]
  <2>1. /\ f \in [TriggerRevisions \X Events -> {"none", "working", "ended"}]
        /\ \A k \in TriggerRevisions \X Events : f[k] # "none" => eventRuns[t][k] # "none"
    BY <1>1, <1>5 DEF EventRunEnds
  <2>2. eventRuns' = [eventRuns EXCEPT ![t] = f] /\ received' = received
    BY <1>5 DEF EventRunEnds
  <2> HIDE DEF f
  <2>3. eventRuns'[t] = f /\ eventRuns' = [eventRuns EXCEPT ![t] = eventRuns'[t]]
    BY <1>1, <2>2
  <2>4. RunsStarted(t)
    BY <2>1, <2>3 DEF RunsStarted
  <2> QED BY <1>1, <1>2, <1>3, <2>2, <2>4, QuietEventStep
<1> QED BY <1>4, <1>5

\* The Run of an event is started, or its start is denied or its answer lost.
LEMMA StartEventKeeps ==
  ASSUME EventInv, NEW t \in Triggers, NEW admissible \in BOOLEAN, NEW answered \in BOOLEAN,
         StartEventRun(t, admissible, answered)
  PROVE  EventInv' /\ (HistoryFits /\ RunsKnown => RunsKnown')
<1> DEFINE e == eventDispatch[t].event
           key == <<eventDispatch[t].revision, e>>
           f == [eventRuns[t] EXCEPT ![key] = IF @ = "none" /\ admissible THEN "working" ELSE @]
<1>1. /\ received[t] \in [Events -> Received] /\ EventFollows(t)
      /\ triggers[t] \in Trigger /\ triggers = [triggers EXCEPT ![t] = triggers[t]]
      /\ eventRuns[t] \in [TriggerRevisions \X Events -> {"none", "working", "ended"}]
      /\ eventRuns \in [Triggers -> [TriggerRevisions \X Events -> {"none", "working", "ended"}]]
      /\ received = [received EXCEPT ![t] = received[t]]
      /\ eventDispatch[t] \in [event : Events \cup {0}, revision : 0..MaxTriggerRevision,
                               stage : {"idle", "inspect", "start", "record"}]
      /\ eventDispatch \in [Triggers ->
              [event : Events \cup {0}, revision : 0..MaxTriggerRevision,
               stage : {"idle", "inspect", "start", "record"}]]
  BY EventSame
<1>2. UNCHANGED operationVars /\ UNCHANGED <<triggers, updating, instance, calls, late>>
      /\ eventDispatch[t].stage = "start"
  BY DEF StartEventRun, operationVars
<1>3. /\ e \in PendingEvents(t) /\ e \in Events /\ received[t][e].status = "pending"
      /\ eventDispatch[t].revision = triggers[t].revision
      /\ received[t][e].revision = triggers[t].revision
      /\ triggers[t].revision \in TriggerRevisions
  <2>1. e \in PendingEvents(t) /\ eventDispatch[t].revision = triggers[t].revision
    BY <1>1, <1>2 DEF EventFollows
  <2>2. triggers[t].status # "none" /\ triggers[t].revision >= 1
        /\ received[t][e].revision = triggers[t].revision
    BY <1>1, <2>1 DEF EventFollows, PendingEvents
  <2>3. triggers[t].revision \in 0..MaxTriggerRevision
    BY <1>1, TriggerFields
  <2>4. triggers[t].revision \in TriggerRevisions
    BY <2>2, <2>3, EventNumbers DEF TriggerRevisions
  <2> QED BY <2>1, <2>2, <2>4 DEF PendingEvents
<1>4. key \in TriggerRevisions \X Events
  BY <1>3
<1>5. /\ f \in [TriggerRevisions \X Events -> {"none", "working", "ended"}]
      /\ \A r \in TriggerRevisions, u \in Events : f[<<r, u>>] # "none" =>
           \/ eventRuns[t][<<r, u>>] # "none"
           \/ received[t][u].status = "pending" /\ received[t][u].revision = r
  <2>1. f \in [TriggerRevisions \X Events -> {"none", "working", "ended"}]
    BY <1>1, <1>4
  <2>2. ASSUME NEW r \in TriggerRevisions, NEW u \in Events, f[<<r, u>>] # "none",
               eventRuns[t][<<r, u>>] = "none"
        PROVE  r = triggers[t].revision /\ u = e
    <3>1. <<r, u>> = key
      BY <1>1, <1>4, <2>2
    <3> QED BY <1>3, <3>1
  <2> QED BY <1>3, <2>1, <2>2
<1>6. eventRuns' = [eventRuns EXCEPT ![t] = f]
  BY DEF StartEventRun
<1> HIDE DEF f
<1>7. eventRuns'[t] = f /\ eventRuns' = [eventRuns EXCEPT ![t] = eventRuns'[t]]
  BY <1>1, <1>6
<1>10. RunsStarted(t) /\ RowStays(t)
  BY <1>2, <1>5, <1>7, NoRunStarted DEF RunsStarted
<1>8. CASE /\ Close(t, e, "skipped")
           /\ eventDispatch' = [eventDispatch EXCEPT ![t] = NoEventDispatch]
  BY <1>2, <1>3, <1>8, <1>10, CloseKeeps
<1>9. CASE /\ eventDispatch' = [eventDispatch EXCEPT ![t].stage = "record"]
           /\ UNCHANGED received
  <2>1. eventDispatch'[t] = [eventDispatch[t] EXCEPT !.stage = "record"]
        /\ eventDispatch' = [eventDispatch EXCEPT ![t] = eventDispatch'[t]]
    BY <1>1, <1>9
  <2>2. /\ eventDispatch'[t] \in [event : Events \cup {0}, revision : 0..MaxTriggerRevision,
                                  stage : {"idle", "inspect", "start", "record"}]
        /\ eventDispatch'[t].event = e
        /\ eventDispatch'[t].revision = eventDispatch[t].revision
    BY <1>1, <2>1
  <2>3. /\ received' = [received EXCEPT ![t] = received'[t]] /\ received'[t] = received[t]
        /\ eventDispatch'[t].stage # "idle" =>
             /\ eventDispatch'[t].event \in Events
             /\ received[t][eventDispatch'[t].event].status = "pending"
             /\ eventDispatch'[t].revision = triggers[t].revision
    BY <1>1, <1>3, <1>9, <2>2
  <2> HIDE DEF e, key
  <2> QED BY <1>1, <1>2, <1>10, <2>1, <2>2, <2>3, QuietEventStep
<1> QED BY <1>8, <1>9 DEF StartEventRun

\* The Run is recorded as the trigger's last one, or cancelled.
LEMMA RecordEventKeeps ==
  ASSUME EventInv, NEW t \in Triggers, RecordEventRun(t)
  PROVE  EventInv' /\ (HistoryFits /\ RunsKnown => RunsKnown')
<1> DEFINE e == eventDispatch[t].event
           key == <<eventDispatch[t].revision, e>>
           f == [eventRuns[t] EXCEPT ![key] = "ended"]
           x == [triggers[t] EXCEPT !.lastRun = key]
<1>1. /\ EventFollows(t) /\ triggers[t] \in Trigger
      /\ triggers = [triggers EXCEPT ![t] = triggers[t]]
      /\ eventRuns[t] \in [TriggerRevisions \X Events -> {"none", "working", "ended"}]
      /\ eventRuns = [eventRuns EXCEPT ![t] = eventRuns[t]]
  BY EventSame
<1>2. /\ UNCHANGED <<updating, instance, calls, late>>
      /\ eventDispatch[t].stage = "record"
      /\ eventDispatch' = [eventDispatch EXCEPT ![t] = NoEventDispatch]
  BY DEF RecordEventRun
<1>3. /\ e \in PendingEvents(t) /\ e \in Events /\ received[t][e].status = "pending"
      /\ eventDispatch[t].revision = received[t][e].revision
      /\ eventDispatch[t].revision \in TriggerRevisions
  <2>1. e \in PendingEvents(t) /\ eventDispatch[t].revision = triggers[t].revision
    BY <1>1, <1>2 DEF EventFollows
  <2>2. triggers[t].status # "none" /\ triggers[t].revision >= 1
        /\ received[t][e].revision = triggers[t].revision
    BY <1>1, <2>1 DEF EventFollows, PendingEvents
  <2>3. triggers[t].revision \in 0..MaxTriggerRevision
    BY <1>1, TriggerFields
  <2>4. triggers[t].revision \in TriggerRevisions
    BY <2>2, <2>3, EventNumbers DEF TriggerRevisions
  <2> QED BY <2>1, <2>2, <2>4 DEF PendingEvents
<1>4. key \in TriggerRevisions \X Events
  BY <1>3
<1>5. /\ f \in [TriggerRevisions \X Events -> {"none", "working", "ended"}]
      /\ \A r \in TriggerRevisions, u \in Events : f[<<r, u>>] # "none" =>
           \/ eventRuns[t][<<r, u>>] # "none"
           \/ received[t][u].status = "pending" /\ received[t][u].revision = r
  <2>1. f \in [TriggerRevisions \X Events -> {"none", "working", "ended"}]
    BY <1>1, <1>4
  <2>2. ASSUME NEW r \in TriggerRevisions, NEW u \in Events, f[<<r, u>>] # "none",
               eventRuns[t][<<r, u>>] = "none"
        PROVE  r = eventDispatch[t].revision /\ u = e
    <3>1. <<r, u>> = key
      BY <1>1, <1>4, <2>2
    <3> QED BY <3>1
  <2> QED BY <1>3, <2>1, <2>2
<1>6. /\ x \in Trigger /\ x.status = triggers[t].status /\ x.revision = triggers[t].revision
      /\ x.operation = triggers[t].operation /\ x.id = triggers[t].id
  <2>1. x \in Trigger
    BY <1>1, <1>4, TriggerWrites
  <2> HIDE DEF key
  <2> QED BY <1>1, <2>1 DEF Trigger
<1>7. CASE /\ triggers' = [triggers EXCEPT ![t].lastRun = key] /\ eventRuns' = eventRuns
           /\ Close(t, e, "dispatched")
  <2>1. triggers' = [triggers EXCEPT ![t] = x]
    BY <1>1, <1>7
  <2> HIDE DEF x
  <2>2. triggers'[t] = x /\ triggers' = [triggers EXCEPT ![t] = triggers'[t]]
    BY <2>1, EventSame
  <2>3. RunsStarted(t) /\ RowStays(t)
    BY <1>6, <1>7, <2>2, NoRunStarted DEF RowStays
  <2> QED BY <1>2, <1>3, <1>7, <2>3, CloseKeeps
<1>8. CASE /\ triggers' = triggers /\ eventRuns' = [eventRuns EXCEPT ![t][key] = "ended"]
           /\ Close(t, e, "skipped")
  <2>1. eventRuns' = [eventRuns EXCEPT ![t] = f]
    BY <1>1, <1>8
  <2> HIDE DEF f
  <2>2. eventRuns'[t] = f /\ eventRuns' = [eventRuns EXCEPT ![t] = eventRuns'[t]]
    BY <2>1, EventSame
  <2>3. RunsStarted(t) /\ RowStays(t)
    BY <1>5, <1>8, <2>2, NoRunStarted DEF RunsStarted
  <2> QED BY <1>2, <1>3, <1>8, <2>3, CloseKeeps
<1> QED BY <1>7, <1>8 DEF RecordEventRun

\* A request that was given up lands late or never.
LEMMA LateKeepsEvents ==
  ASSUME EventInv, NEW request \in late, LateRequestLands(request) \/ LateRequestLost(request)
  PROVE  EventInv' /\ UNCHANGED eventVars
<1>1. EventTriggersTypeOK
  BY DEF EventInv
<1>2. instance' \in ProviderInstance
  <2>1. CASE UNCHANGED instance
    BY <1>1, <2>1 DEF EventTriggersTypeOK
  <2>2. CASE LateRequestLands(request)
    <3>1. CanMake(request.kind) /\ instance' = AfterRequest(request.trigger, request.kind, request.id)
      BY <2>2 DEF LateRequestLands
    <3> QED BY <1>1, <3>1, InstanceTyped
  <2> QED BY <2>1, <2>2 DEF LateRequestLost
<1>3. UNCHANGED <<triggers, updating, calls>> /\ UNCHANGED eventVars /\ late' \subseteq late
  BY DEF LateRequestLands, LateRequestLost
<1>4. EventTriggersTypeOK'
  BY <1>1, <1>2, <1>3 DEF EventTriggersTypeOK, eventVars
<1>5. \A t \in Triggers : EventFollows(t)'
  BY <1>3 DEF EventInv, EventFollows, PendingEvents, eventVars
<1> QED BY <1>3, <1>4, <1>5 DEF EventInv

\* Every step keeps what events rest on, and the history what their Runs rest on.
LEMMA EventStepInv ==
  ASSUME EventInv, [EventTriggersNext]_eventTriggerVars
  PROVE  EventInv' /\ (HistoryFits /\ RunsKnown => RunsKnown')
<1>1. ASSUME UNCHANGED eventVars
      PROVE  RunsKnown => RunsKnown'
  BY <1>1 DEF RunsKnown, eventVars
<1>2. CASE \E t \in Triggers :
             \/ CreateTrigger(t) \/ BeginUpdate(t) \/ EndUpdate(t)
             \/ \E operation \in {"pausing", "resuming", "deleting"} : Lifecycle(t, operation)
  <2>1. UNCHANGED eventVars
    BY <1>2 DEF CreateTrigger, BeginUpdate, EndUpdate, Lifecycle
  <2> QED BY <1>1, <1>2, <2>1, OwnerKeepsEvents
<1>3. CASE \E t \in Triggers :
             \/ \E requested, connected \in BOOLEAN : Recover(t, requested, connected)
             \/ OperationDue(t) \/ ProviderActs(t)
             \/ \E lands \in BOOLEAN : CallLost(t, lands)
             \/ Created(t) \/ Found(t) \/ Managed(t)
  <2>1. UNCHANGED eventVars
    BY <1>3 DEF Recover, OperationDue, ProviderActs, CallLost, Created, Found, Managed
  <2> QED BY <1>1, <1>3, <2>1, RecoveryKeepsEvents
<1>4. CASE \E request \in late : LateRequestLands(request) \/ LateRequestLost(request)
  BY <1>1, <1>4, LateKeepsEvents
<1>5. CASE EventNext
  <2>1. PICK t \in Triggers :
          \/ \E e \in Events, admissible \in BOOLEAN : Receive(t, e, admissible)
          \/ EventAlarm(t) \/ AbandonEvent(t)
          \/ \E e \in Events : EventDue(t, e)
          \/ \E key \in TriggerRevisions \X Events : EventRunEnds(t, key)
    BY <1>5 DEF EventNext
  <2>2. CASE \E e \in Events, admissible \in BOOLEAN : Receive(t, e, admissible)
    BY <2>2, ReceiveKeeps
  <2>3. CASE EventAlarm(t)
    BY <2>3, ClaimEventKeeps, RecordEventKeeps, InspectKeeps, StartEventKeeps DEF EventAlarm
  <2>4. CASE AbandonEvent(t)
    BY <2>4, InspectKeeps
  <2>5. CASE \/ \E e \in Events : EventDue(t, e)
             \/ \E key \in TriggerRevisions \X Events : EventRunEnds(t, key)
    BY <2>5, TimesKeep
  <2> QED BY <2>1, <2>2, <2>3, <2>4, <2>5
<1>6. CASE UNCHANGED eventTriggerVars
  <2>1. /\ UNCHANGED <<triggers, updating, instance, calls, late>>
        /\ UNCHANGED <<received, eventRuns, eventDispatch>>
    BY <1>6 DEF eventTriggerVars, operationVars, eventVars
  <2>2. EventTriggersTypeOK' /\ \A t \in Triggers : EventFollows(t)'
    <3>1. EventTriggersTypeOK'
      BY <2>1 DEF EventInv, EventTriggersTypeOK
    <3>2. \A t \in Triggers : PendingEvents(t)' = PendingEvents(t)
      BY <2>1 DEF PendingEvents
    <3> QED BY <2>1, <3>1, <3>2 DEF EventInv, EventFollows
  <2> QED BY <1>1, <2>1, <2>2 DEF EventInv, eventVars
<1> QED BY <1>2, <1>3, <1>4, <1>5, <1>6 DEF EventTriggersNext, OperationNext

\* One revision of an event has a Run at most.
LEMMA KnownRunsAreSingle ==
  ASSUME RunsKnown
  PROVE  OneRunPerEvent
<1>1. ASSUME NEW t \in Triggers, NEW e \in Events
      PROVE  Cardinality({r \in TriggerRevisions : eventRuns[t][<<r, e>>] # "none"}) <= 1
  <2>1. AtMostOne({r \in TriggerRevisions : eventRuns[t][<<r, e>>] # "none"})
    BY DEF RunsKnown, AtMostOne
  <2> QED BY <2>1, AtMostOneCounts
<1> QED BY <1>1 DEF OneRunPerEvent

\* The rows of the triggers, the provider's instance, the history and the dispatches
\* keep their types (event-triggers/module.ts).
THEOREM EventTriggersTypeCorrect == EventTriggersSpec => []EventTriggersTypeOK
<1>1. EventInv => EventTriggersTypeOK
  BY DEF EventInv
<1> QED BY <1>1, EventInitInv, EventStepInv, PTL DEF EventTriggersSpec

\* However often an event is delivered, claimed and tried, and whatever the owner does
\* to its trigger in between, it starts one Run at most, as long as the history has room
\* for the events there are (receive, claimDue, #dispatchEventTriggerRun).
THEOREM EventsRunOnce ==
  ASSUME IsFiniteSet(Events), Cardinality(Events) <= MaxRetainedEvents
  PROVE  EventTriggersSpec => []OneRunPerEvent
<1>1. HistoryFits
  BY DEF HistoryFits
<1>2. EventTriggersInit => EventInv /\ RunsKnown
  BY EventInitInv
<1>3. EventInv /\ RunsKnown /\ [EventTriggersNext]_eventTriggerVars => EventInv' /\ RunsKnown'
  BY <1>1, EventStepInv
<1>4. RunsKnown => OneRunPerEvent
  BY KnownRunsAreSingle
<1> QED BY <1>2, <1>3, <1>4, PTL DEF EventTriggersSpec

-----------------------------------------------------------------------------
(* Event triggers: the provider's instance *)

\* Identifiers of instances are given once, and are kept by one trigger at most.
IdsGiven ==
  /\ instance.id <= instance.made
  /\ \A t \in Triggers : /\ triggers[t].id <= instance.made /\ calls[t].id <= instance.made
                         /\ \A u \in Triggers : triggers[t].id # 0 /\ u # t =>
                              triggers[u].id # triggers[t].id
  /\ \A request \in late : request.id <= instance.made

\* The states a row may be in.
RowSound(t) ==
  LET row == triggers[t] IN
  /\ row.status = "none" => row.operation = "stable" /\ row.id = 0
  /\ row.status = "deleted" => row.operation \in {"stable", "deleting"}
  /\ Live(t) /\ row.id = 0 => row.operation = "creating"
  /\ row.operation = "creating" => row.id = 0 /\ Live(t)
  /\ row.operation \in {"pausing", "resuming"} => Live(t)
  /\ row.operation = "deleting" => row.status # "none"

\* The identifier is that of the provider's instance, or of another trigger.
Taken(t, id) == instance.id = id \/ \E u \in Triggers \ {t} : triggers[u].id = id

\* The last search for an instance whose creation was not confirmed found none.
FoundNone(t) == LastSearch(t) /\ calls[t].acted /\ calls[t].id = 0

\* What a leased recovery knows of the row and of the instance.
CallSound(t) ==
  LET call == calls[t]
      row == triggers[t] IN
  /\ call.kind = "upsert" => call.operation = "creating" /\ row.operation \in {"creating", "deleting"}
  /\ call.kind \in {"find", "delete"} => call.operation = "deleting" /\ row.operation = "deleting"
  /\ call.kind = "disable" => call.operation = "pausing" /\ row.operation \in {"pausing", "deleting"}
  /\ call.kind = "enable" => call.operation = "resuming" /\ row.operation \in {"resuming", "deleting"}
  /\ call.kind \in {"upsert", "find"} => row.id = 0
  /\ call.kind \in {"delete", "enable", "disable"} => call.id = row.id /\ row.id # 0
  /\ call.kind = "upsert" /\ call.acted => call.id # 0
  /\ call.kind \in {"upsert", "find"} /\ call.acted /\ call.id # 0 => Taken(t, call.id)
  /\ call.kind = "delete" /\ call.acted => instance.id # call.id
  /\ call.acted /\ LastSearch(t) => NoUpsertLate(t)

\* What a request that was given up may still do.
LateSound(request) ==
  LET t == request.trigger IN
  /\ request.kind = "upsert" =>
       triggers[t].status # "none" /\ (DeletedForGood(t) => triggers[t].id # 0)
  /\ request.kind # "upsert" => request.id = triggers[t].id /\ request.id # 0
  /\ request.kind = "delete" => triggers[t].operation = "deleting" \/ DeletedForGood(t)

\* The row of a trigger against the instance.
InstanceSound(t) ==
  /\ Live(t) /\ triggers[t].operation \in {"stable", "pausing", "resuming"} =>
       instance.id = triggers[t].id
  /\ DeletedForGood(t) /\ triggers[t].id # 0 => instance.id # triggers[t].id

\* A trigger that will still find out about an instance it may have made.
Searching(t) ==
  /\ triggers[t].id = 0 /\ triggers[t].operation \in {"creating", "deleting"}
  /\ ~FoundNone(t)

\* The instance has an owner among the triggers, or is a stray.
InstanceOwned ==
  instance.id # 0 =>
    \/ \E t \in Triggers : triggers[t].id = instance.id
    \/ instance.enabled /\ \E t \in Triggers : Searching(t)
    \/ instance.stray

InstanceInv ==
  /\ IdsGiven /\ InstanceOwned
  /\ \A t \in Triggers : RowSound(t) /\ CallSound(t) /\ InstanceSound(t)
  /\ \A request \in late : LateSound(request)

\* The numbers and the members of the rows that follow.
LEMMA InstanceNumbers ==
  ASSUME EventTriggersTypeOK
  PROVE  /\ instance.id \in Nat /\ instance.made \in Nat
         /\ instance.enabled \in BOOLEAN /\ instance.stray \in BOOLEAN
         /\ \A t \in Triggers :
              /\ triggers[t].id \in Nat /\ calls[t].id \in Nat
              /\ triggers[t].status \in {"none", "active", "paused", "deleted"}
              /\ triggers[t].operation \in Operations
              /\ calls[t].kind \in {"none", "upsert", "find", "delete", "enable", "disable"}
              /\ calls[t].acted \in BOOLEAN
         /\ \A request \in late :
              /\ request.trigger \in Triggers /\ request.id \in Nat
              /\ request.kind \in {"upsert", "delete", "enable", "disable"}
<1>1. instance \in ProviderInstance
  BY DEF EventTriggersTypeOK
<1>2. 0..MaxInstances \subseteq Nat
  BY EventNumbers
<1>3. ASSUME NEW t \in Triggers
      PROVE  /\ triggers[t].id \in Nat /\ calls[t].id \in Nat
             /\ triggers[t].status \in {"none", "active", "paused", "deleted"}
             /\ triggers[t].operation \in Operations
             /\ calls[t].kind \in {"none", "upsert", "find", "delete", "enable", "disable"}
             /\ calls[t].acted \in BOOLEAN
  <2>1. triggers[t] \in Trigger /\ calls[t] \in Call
    BY DEF EventTriggersTypeOK
  <2> QED BY <1>2, <2>1, TriggerFields, CallWrites
<1>4. \A request \in late :
              /\ request.trigger \in Triggers /\ request.id \in Nat
              /\ request.kind \in {"upsert", "delete", "enable", "disable"}
  BY <1>2 DEF EventTriggersTypeOK
<1> QED BY <1>1, <1>2, <1>3, <1>4 DEF ProviderInstance

\* Nothing is there in the beginning.
LEMMA InstanceInit ==
  ASSUME EventTriggersInit
  PROVE  InstanceInv
<1>1. IdsGiven /\ InstanceOwned /\ late = {}
  BY DEF EventTriggersInit, IdsGiven, InstanceOwned, NoCall
<1>2. \A t \in Triggers : RowSound(t) /\ CallSound(t) /\ InstanceSound(t)
  BY DEF EventTriggersInit, RowSound, CallSound, InstanceSound, Live, DeletedForGood, NoCall, LastSearch
<1> QED BY <1>1, <1>2 DEF InstanceInv

\* A step of one trigger that changes neither the instance nor an identifier.
LEMMA RowStep ==
  ASSUME EventTriggersTypeOK, EventTriggersTypeOK', InstanceInv, NEW t \in Triggers,
         \A u \in Triggers \ {t} : triggers'[u] = triggers[u] /\ calls'[u] = calls[u],
         instance' = instance, triggers'[t].id = triggers[t].id,
         late \subseteq late',
         \A r \in late' \ late : r.trigger = t /\ r.id <= instance.made,
         \A r \in late' : r.trigger = t => LateSound(r)',
         calls'[t].id <= instance.made,
         RowSound(t)', CallSound(t)', InstanceSound(t)', Searching(t) => Searching(t)'
  PROVE  InstanceInv'
<1>1. IdsGiven'
  BY DEF InstanceInv, IdsGiven
<1>2. \A u \in Triggers \ {t} : Searching(u)' <=> Searching(u)
  BY DEF Searching, FoundNone, LastSearch
<1>3. InstanceOwned'
  BY <1>2 DEF InstanceInv, InstanceOwned
<1>4. ASSUME NEW u \in Triggers \ {t}
      PROVE  RowSound(u)' /\ CallSound(u)' /\ InstanceSound(u)'
  <2>1. RowSound(u)' /\ InstanceSound(u)'
    BY DEF InstanceInv, RowSound, InstanceSound, Live, DeletedForGood
  <2>2. NoUpsertLate(u)' <=> NoUpsertLate(u)
    BY DEF NoUpsertLate
  <2>3. \A i : Taken(u, i)' <=> Taken(u, i)
    BY DEF Taken
  <2>4. CallSound(u)'
    BY <2>2, <2>3 DEF InstanceInv, CallSound, LastSearch
  <2> QED BY <2>1, <2>4
<1>5. ASSUME NEW r \in late'
      PROVE  LateSound(r)'
  <2>1. CASE r.trigger # t
    <3>1. r.trigger \in Triggers /\ r \in late
      BY <2>1, InstanceNumbers
    <3> QED BY <2>1, <3>1 DEF InstanceInv, LateSound, DeletedForGood
  <2> QED BY <2>1
<1> QED BY <1>1, <1>3, <1>4, <1>5 DEF InstanceInv

\* The owner's requests write a row and call nobody.
LEMMA OwnerKeepsInstance ==
  ASSUME EventInv, EventInv', InstanceInv, NEW t \in Triggers,
         \/ CreateTrigger(t) \/ BeginUpdate(t) \/ EndUpdate(t)
         \/ \E operation \in {"pausing", "resuming", "deleting"} : Lifecycle(t, operation)
  PROVE  InstanceInv'
<1>0. /\ EventTriggersTypeOK /\ EventTriggersTypeOK' /\ UNCHANGED <<calls, late, instance>>
      /\ triggers \in [Triggers -> Trigger] /\ triggers[t] \in Trigger
  BY EventTyped DEF EventInv, CreateTrigger, BeginUpdate, EndUpdate, Lifecycle
<1>1. /\ calls[t].id <= instance.made /\ RowSound(t) /\ CallSound(t) /\ InstanceSound(t)
      /\ \A r \in late : LateSound(r)
  BY DEF InstanceInv, IdsGiven
<1>2. \A u \in Triggers \ {t} : triggers'[u] = triggers[u]
  BY <1>0 DEF CreateTrigger, BeginUpdate, EndUpdate, Lifecycle
<1>3. NoUpsertLate(t)' <=> NoUpsertLate(t)
  BY <1>0 DEF NoUpsertLate
<1>4. ASSUME triggers'[t].id = triggers[t].id
      PROVE  \A i : Taken(t, i)' <=> Taken(t, i)
  BY <1>0, <1>2 DEF Taken
<1>5. CASE CreateTrigger(t)
  <2>1. /\ triggers[t].status = "none" /\ triggers'[t].status = "active"
        /\ triggers'[t].operation = "creating" /\ triggers'[t].id = triggers[t].id
    BY <1>0, <1>5 DEF CreateTrigger, Trigger
  <2>2. /\ triggers[t].id = 0 /\ triggers[t].operation = "stable" /\ calls[t].kind = "none"
    BY <1>1, <2>1 DEF EventInv, EventFollows
  <2>3. \A r \in late : r.trigger # t
    BY <1>0, <1>1, <2>1, <2>2, InstanceNumbers DEF LateSound
  <2>4. RowSound(t)' /\ CallSound(t)' /\ InstanceSound(t)' /\ (Searching(t) => Searching(t)')
    BY <1>0, <2>1, <2>2 DEF RowSound, CallSound, InstanceSound, Live, DeletedForGood, Searching, LastSearch
  <2> QED BY <1>0, <1>1, <1>2, <2>1, <2>3, <2>4, RowStep
<1>6. CASE \/ BeginUpdate(t) \/ EndUpdate(t)
  <2>1. /\ triggers'[t].status = triggers[t].status
        /\ triggers'[t].operation = triggers[t].operation /\ triggers'[t].id = triggers[t].id
    BY <1>0, <1>6 DEF BeginUpdate, EndUpdate, Trigger
  <2>2. RowSound(t)' /\ InstanceSound(t)' /\ (Searching(t) => Searching(t)')
    BY <1>0, <1>1, <2>1 DEF RowSound, InstanceSound, Live, DeletedForGood, Searching, FoundNone, LastSearch
  <2>3. CallSound(t)'
    BY <1>0, <1>1, <1>3, <1>4, <2>1 DEF CallSound, LastSearch
  <2>4. \A r \in late : r.trigger = t => LateSound(r)'
    BY <1>0, <1>1, <2>1 DEF LateSound, DeletedForGood
  <2> QED BY <1>0, <1>1, <1>2, <2>1, <2>2, <2>3, <2>4, RowStep
<1>7. ASSUME NEW operation \in {"pausing", "resuming", "deleting"}, Lifecycle(t, operation)
      PROVE  InstanceInv'
  <2>1. /\ Live(t) /\ triggers'[t].operation = operation /\ triggers'[t].id = triggers[t].id
        /\ triggers'[t].status = IF operation = "deleting" /\ triggers[t].id = 0
                                 THEN "deleted" ELSE triggers[t].status
        /\ operation # "deleting" => triggers[t].operation = "stable"
    BY <1>0, <1>7 DEF Lifecycle, Permitted, Trigger
  <2>2. RowSound(t)' /\ InstanceSound(t)' /\ (Searching(t) => Searching(t)')
    BY <1>0, <1>1, <2>1
       DEF RowSound, InstanceSound, Live, DeletedForGood, Searching, FoundNone, LastSearch
  <2>3. CallSound(t)'
    BY <1>0, <1>1, <1>3, <1>4, <2>1 DEF CallSound, LastSearch
  <2>4. \A r \in late : r.trigger = t => LateSound(r)'
    BY <1>0, <1>1, <2>1 DEF LateSound, DeletedForGood, Live
  <2> QED BY <1>0, <1>1, <1>2, <2>1, <2>2, <2>3, <2>4, RowStep
<1> QED BY <1>5, <1>6, <1>7

\* A recovery begins, or its call fails or is given up.
LEMMA RecoveryKeepsInstance ==
  ASSUME EventInv, EventInv', InstanceInv, NEW t \in Triggers,
         \/ \E requested, connected \in BOOLEAN : Recover(t, requested, connected)
         \/ OperationDue(t) \/ \E lands \in BOOLEAN : CallLost(t, lands)
  PROVE  InstanceInv'
<1>0. /\ EventTriggersTypeOK /\ EventTriggersTypeOK' /\ UNCHANGED instance
      /\ triggers \in [Triggers -> Trigger] /\ triggers[t] \in Trigger
      /\ calls \in [Triggers -> Call]
  BY EventTyped DEF EventInv, Recover, OperationDue, CallLost
<1>1. /\ calls[t].id <= instance.made /\ RowSound(t) /\ CallSound(t) /\ InstanceSound(t)
      /\ triggers[t].id <= instance.made /\ \A r \in late : LateSound(r)
  BY DEF InstanceInv, IdsGiven
<1>2. \A u \in Triggers \ {t} : triggers'[u] = triggers[u] /\ calls'[u] = calls[u]
  BY <1>0 DEF Recover, OperationDue, CallLost
<1>3. /\ triggers'[t].status = triggers[t].status
      /\ triggers'[t].operation = triggers[t].operation /\ triggers'[t].id = triggers[t].id
  BY <1>0 DEF Recover, OperationDue, CallLost, Trigger
<1>4. RowSound(t)' /\ InstanceSound(t)'
  BY <1>0, <1>1, <1>3 DEF RowSound, InstanceSound, Live, DeletedForGood
<1>5. \A r \in late : r.trigger = t => LateSound(r)'
  BY <1>0, <1>1, <1>3 DEF LateSound, DeletedForGood
<1>6. \A i : Taken(t, i)' <=> Taken(t, i)
  BY <1>0, <1>2 DEF Taken
<1>7. CASE UNCHANGED <<calls, late>>
  <2>1. CallSound(t)' /\ (Searching(t) => Searching(t)')
    BY <1>0, <1>1, <1>3, <1>6, <1>7 DEF CallSound, Searching, FoundNone, LastSearch, NoUpsertLate
  <2> QED BY <1>0, <1>1, <1>2, <1>3, <1>4, <1>5, <1>7, <2>1, RowStep
<1>8. ASSUME NEW requested \in BOOLEAN, NEW connected \in BOOLEAN,
             Recover(t, requested, connected), ~UNCHANGED <<calls, late>>
      PROVE  InstanceInv'
  <2>1. /\ triggers[t].operation # "stable" /\ UNCHANGED late
        /\ calls'[t].kind = KindOf(triggers[t]) /\ calls'[t].operation = triggers[t].operation
        /\ calls'[t].id = triggers[t].id /\ calls'[t].acted = FALSE
    BY <1>0, <1>8 DEF Recover, OperationRecoverable
  <2>2. CallSound(t)'
    BY <1>0, <1>1, <1>3, <2>1, InstanceNumbers
       DEF CallSound, RowSound, KindOf, Operations, Live
  <2>3. Searching(t) => Searching(t)'
    BY <1>3, <2>1 DEF Searching, FoundNone
  <2> QED BY <1>0, <1>1, <1>2, <1>3, <1>4, <1>5, <2>1, <2>2, <2>3, RowStep
<1>9. ASSUME NEW lands \in BOOLEAN, CallLost(t, lands)
      PROVE  InstanceInv'
  <2>1. /\ calls'[t] = NoCall /\ calls[t].kind # "none"
        /\ UNCHANGED late \/ \E r \in late' : /\ late' = late \cup {r} /\ r.trigger = t
                                             /\ r.kind = calls[t].kind /\ r.id = calls[t].id
                                             /\ calls[t].kind # "find" /\ ~calls[t].acted
    BY <1>0, <1>9 DEF CallLost, Leased
  <2>2. CallSound(t)' /\ (Searching(t) => Searching(t)') /\ calls'[t].id = 0
    BY <1>3, <2>1 DEF CallSound, NoCall, Searching, FoundNone, LastSearch
  <2>3. ASSUME NEW r \in late', r.trigger = t
        PROVE  LateSound(r)' /\ r.id <= instance.made
    <3>1. CASE r \in late
      BY <1>5, <2>3, <3>1 DEF InstanceInv, IdsGiven
    <3>2. CASE r \notin late
      <4>1. r.kind = calls[t].kind /\ r.id = calls[t].id /\ r.kind \notin {"none", "find"}
        BY <2>1, <3>2
      <4>2. r.kind = "upsert" => triggers[t].status # "none" /\ ~DeletedForGood(t)
        BY <1>1, <4>1 DEF CallSound, RowSound, DeletedForGood
      <4>3. /\ r.kind # "upsert" => r.id = triggers[t].id /\ r.id # 0
            /\ r.kind = "delete" => triggers[t].operation = "deleting"
        BY <1>0, <1>1, <4>1, InstanceNumbers DEF CallSound
      <4> QED BY <1>1, <1>3, <2>3, <4>1, <4>2, <4>3 DEF LateSound, DeletedForGood
    <3> QED BY <3>1, <3>2
  <2>4. \A r \in late' \ late : r.trigger = t
    BY <2>1
  <2>5. late \subseteq late' /\ 0 <= instance.made
    BY <1>0, <2>1, InstanceNumbers
  <2> QED BY <1>0, <1>1, <1>2, <1>3, <1>4, <2>2, <2>3, <2>4, <2>5, RowStep
<1>10. OperationDue(t) => UNCHANGED <<calls, late>>
  BY DEF OperationDue
<1> QED BY <1>7, <1>8, <1>9, <1>10

\* A recovery that ended says nothing about the instance.
LEMMA NoCallSound ==
  ASSUME NEW t \in Triggers, calls'[t] = NoCall
  PROVE  CallSound(t)' /\ calls'[t].id = 0
         /\ (triggers'[t].id = 0 /\ triggers'[t].operation \in {"creating", "deleting"}
               => Searching(t)')
BY DEF CallSound, NoCall, LastSearch, Searching, FoundNone

\* A trigger takes the identifier of the instance into its row.
LEMMA IdTaken ==
  ASSUME EventTriggersTypeOK, EventTriggersTypeOK', InstanceInv, NEW t \in Triggers,
         \A u \in Triggers \ {t} : triggers'[u] = triggers[u] /\ calls'[u] = calls[u],
         UNCHANGED <<instance, late>>, triggers[t].id = 0,
         instance.id # 0, triggers'[t].id = instance.id,
         \A u \in Triggers \ {t} : triggers[u].id # instance.id,
         calls'[t].id <= instance.made, triggers'[t].status # "none", ~DeletedForGood(t)',
         RowSound(t)', CallSound(t)'
  PROVE  InstanceInv'
<1>1. IdsGiven'
  BY InstanceNumbers DEF InstanceInv, IdsGiven
<1>2. InstanceOwned'
  BY DEF InstanceOwned
<1>3. InstanceSound(t)'
  BY DEF InstanceSound
<1>4. ASSUME NEW u \in Triggers \ {t}
      PROVE  RowSound(u)' /\ CallSound(u)' /\ InstanceSound(u)'
  <2>1. RowSound(u)' /\ InstanceSound(u)'
    BY DEF InstanceInv, RowSound, InstanceSound, Live, DeletedForGood
  <2>2. NoUpsertLate(u)' <=> NoUpsertLate(u)
    BY DEF NoUpsertLate
  <2>3. \A i : i # 0 /\ Taken(u, i) => Taken(u, i)'
    BY DEF Taken
  <2>4. CallSound(u)'
    BY <2>2, <2>3 DEF InstanceInv, CallSound, LastSearch
  <2> QED BY <2>1, <2>4
<1>5. ASSUME NEW r \in late'
      PROVE  LateSound(r)'
  <2>1. r \in late /\ r.trigger \in Triggers /\ LateSound(r)
    BY InstanceNumbers DEF InstanceInv
  <2>2. CASE r.trigger # t
    BY <2>1, <2>2 DEF LateSound, DeletedForGood
  <2>3. CASE r.trigger = t
    BY <2>1, <2>3 DEF LateSound
  <2> QED BY <2>2, <2>3
<1> QED BY <1>1, <1>2, <1>3, <1>4, <1>5 DEF InstanceInv

\* The provider's answer to a recovery is used.
LEMMA AnswerKeepsInstance ==
  ASSUME EventInv, EventInv', InstanceInv, NEW t \in Triggers, Created(t) \/ Found(t) \/ Managed(t)
  PROVE  InstanceInv'
<1>0. /\ EventTriggersTypeOK /\ EventTriggersTypeOK' /\ UNCHANGED <<instance, late>>
      /\ triggers \in [Triggers -> Trigger] /\ triggers[t] \in Trigger
      /\ calls \in [Triggers -> Call] /\ calls[t] \in Call
      /\ calls[t].kind # "none" /\ calls[t].acted
  BY EventTyped DEF EventInv, Created, Found, Managed
<1>1. /\ calls[t].id <= instance.made /\ RowSound(t) /\ CallSound(t) /\ InstanceSound(t)
      /\ triggers[t].id <= instance.made /\ \A r \in late : LateSound(r)
      /\ 0 <= instance.made
  BY <1>0, InstanceNumbers DEF InstanceInv, IdsGiven
<1>2. \A u \in Triggers \ {t} : triggers'[u] = triggers[u] /\ calls'[u] = calls[u]
  BY <1>0 DEF Created, Found, Managed
<1>3. \A r \in late : r.trigger = t /\ r.kind # "upsert" => r.id = triggers[t].id /\ r.id # 0
  BY <1>1 DEF LateSound
<1>4. CASE triggers' = triggers /\ calls'[t] = NoCall
  <2>1. /\ RowSound(t)' /\ InstanceSound(t)' /\ CallSound(t)' /\ calls'[t].id = 0
        /\ Searching(t) => Searching(t)'
    BY <1>0, <1>1, <1>4, NoCallSound DEF RowSound, InstanceSound, Live, DeletedForGood, Searching
  <2>2. \A r \in late : r.trigger = t => LateSound(r)'
    BY <1>0, <1>1, <1>4 DEF LateSound, DeletedForGood
  <2> QED BY <1>0, <1>1, <1>2, <1>4, <2>1, <2>2, RowStep
<1>5. CASE Created(t) /\ triggers' # triggers
  <2>1. /\ StillClaimed(t) /\ UnclaimedByOthers(t, calls[t].id) /\ calls[t].kind = "upsert"
        /\ calls'[t] = NoCall
        /\ triggers' = [triggers EXCEPT ![t] =
             [Settled(triggers[t], triggers[t].status) EXCEPT !.id = calls[t].id]]
    BY <1>0, <1>5 DEF Created
  <2>2. /\ triggers'[t].id = calls[t].id /\ triggers'[t].operation = "stable"
        /\ triggers'[t].status = triggers[t].status
    BY <1>0, <2>1 DEF Settled, Trigger
  <2>3. /\ triggers[t].id = 0 /\ calls[t].id # 0 /\ instance.id = calls[t].id /\ Live(t)
        /\ \A u \in Triggers \ {t} : triggers[u].id # instance.id
    BY <1>0, <1>1, <2>1 DEF CallSound, RowSound, StillClaimed, UnclaimedByOthers, Taken
  <2>4. /\ RowSound(t)' /\ CallSound(t)' /\ calls'[t].id <= instance.made
        /\ triggers'[t].status # "none" /\ ~DeletedForGood(t)'
    BY <1>1, <2>1, <2>2, <2>3, NoCallSound DEF RowSound, Live, DeletedForGood
  <2> QED BY <1>0, <1>2, <2>2, <2>3, <2>4, IdTaken
<1>6. CASE Found(t) /\ calls'[t] # NoCall
  <2>1. /\ calls[t].id # 0 /\ StillClaimed(t) /\ UnclaimedByOthers(t, calls[t].id)
        /\ calls[t].kind = "find"
        /\ triggers' = [triggers EXCEPT ![t].id = calls[t].id]
        /\ calls' = [calls EXCEPT ![t].kind = "delete", ![t].acted = FALSE]
    BY <1>0, <1>6 DEF Found
  <2>2. /\ triggers'[t].id = calls[t].id /\ triggers'[t].status = triggers[t].status
        /\ triggers'[t].operation = triggers[t].operation
        /\ calls'[t].kind = "delete" /\ calls'[t].acted = FALSE
        /\ calls'[t].id = calls[t].id /\ calls'[t].operation = calls[t].operation
    BY <1>0, <2>1 DEF Trigger, Call
  <2>3. /\ triggers[t].id = 0 /\ instance.id = calls[t].id
        /\ triggers[t].operation = "deleting" /\ calls[t].operation = "deleting"
        /\ \A u \in Triggers \ {t} : triggers[u].id # instance.id
    BY <1>0, <1>1, <2>1 DEF CallSound, UnclaimedByOthers, Taken
  <2>4. /\ RowSound(t)' /\ CallSound(t)' /\ triggers'[t].status # "none" /\ ~DeletedForGood(t)'
    BY <1>1, <2>1, <2>2, <2>3 DEF RowSound, CallSound, LastSearch, Live, DeletedForGood
  <2> QED BY <1>0, <1>1, <1>2, <2>1, <2>2, <2>3, <2>4, IdTaken
<1>7. CASE Found(t) /\ calls'[t] = NoCall /\ triggers' # triggers
  <2>1. /\ Absent(t) /\ calls[t].kind = "find"
        /\ triggers' = [triggers EXCEPT ![t] = Settled(triggers[t], "deleted")]
    BY <1>0, <1>7 DEF Found, NoCall
  <2>2. /\ triggers'[t].id = triggers[t].id /\ triggers'[t].status = "deleted"
        /\ triggers'[t].operation = "stable"
    BY <1>0, <2>1 DEF Settled, Trigger
  <2>3. FoundNone(t) /\ ~Searching(t) /\ triggers[t].id = 0 /\ NoUpsertLate(t)
    BY <1>0, <1>1, <2>1 DEF Absent, LastSearch, FoundNone, Searching, CallSound
  <2>4. \A r \in late : r.trigger # t
    BY <1>3, <2>3 DEF NoUpsertLate
  <2>5. RowSound(t)' /\ InstanceSound(t)' /\ CallSound(t)' /\ calls'[t].id <= instance.made
    BY <1>1, <1>7, <2>2, <2>3, NoCallSound DEF RowSound, InstanceSound, Live, DeletedForGood
  <2> QED BY <1>0, <1>2, <2>2, <2>3, <2>4, <2>5, RowStep
<1>8. CASE Managed(t) /\ triggers' # triggers
  <2>1. PICK s \in {"deleted", "paused", "active"} :
          triggers' = [triggers EXCEPT ![t] = Settled(triggers[t], s)]
          /\ (s = "deleted" <=> calls[t].kind = "delete")
    BY <1>8 DEF Managed
  <2>2. /\ StillClaimed(t) /\ calls'[t] = NoCall /\ calls[t].kind \in {"delete", "enable", "disable"}
        /\ calls[t].kind = "delete" \/ instance.id = calls[t].id
    BY <1>0, <1>8 DEF Managed
  <2>3. /\ triggers'[t].id = triggers[t].id /\ triggers'[t].status = s
        /\ triggers'[t].operation = "stable"
    BY <1>0, <2>1 DEF Settled, Trigger
  <2>4. /\ triggers[t].id # 0 /\ calls[t].id = triggers[t].id
        /\ calls[t].kind = "delete" => instance.id # calls[t].id
        /\ calls[t].kind # "delete" => triggers[t].operation \in {"pausing", "resuming"}
    BY <1>0, <1>1, <2>2 DEF CallSound, StillClaimed
  <2>5. /\ RowSound(t)' /\ InstanceSound(t)' /\ CallSound(t)' /\ calls'[t].id <= instance.made
    BY <1>0, <1>1, <2>1, <2>2, <2>3, <2>4, NoCallSound DEF RowSound, InstanceSound, Live, DeletedForGood
  <2>6. \A r \in late : r.trigger = t => LateSound(r)'
    BY <1>0, <1>1, <2>1, <2>2, <2>3, <2>4 DEF LateSound, DeletedForGood
  <2>7. ~Searching(t)
    BY <2>4 DEF Searching
  <2> QED BY <1>0, <1>2, <2>3, <2>5, <2>6, <2>7, RowStep
<1>9. calls'[t] = NoCall \/ Found(t)
  BY <1>0 DEF Created, Managed
<1> QED BY <1>4, <1>5, <1>6, <1>7, <1>8, <1>9

\* What a request may do to the instance: leave it, make it, or delete it for the
\* trigger that holds it and is being deleted.
ProviderMoves(t) ==
  \/ instance'.id = instance.id /\ instance'.made = instance.made
  \/ instance.id = 0 /\ instance'.id = instance.made + 1 /\ instance'.made = instance.made + 1
  \/ /\ instance.id # 0 /\ instance'.id = 0 /\ instance'.made = instance.made
     /\ triggers[t].id = instance.id
     /\ triggers[t].operation = "deleting" \/ DeletedForGood(t)

\* A recovery that is not concerned keeps what it knows when the provider acts.
LEMMA CallKept ==
  ASSUME EventTriggersTypeOK, InstanceInv, NEW t \in Triggers, NEW u \in Triggers,
         triggers' = triggers, late' \subseteq late, calls'[u] = calls[u], ProviderMoves(t)
  PROVE  CallSound(u)'
<1>1. /\ CallSound(u) /\ calls[u].id <= instance.made /\ calls[u].id \in Nat
      /\ instance.made \in Nat /\ instance.id \in Nat
      /\ \A v \in Triggers : triggers[v].id # 0 /\ v # t => triggers[v].id # triggers[t].id
  BY InstanceNumbers DEF InstanceInv, IdsGiven
<1>2. NoUpsertLate(u) => NoUpsertLate(u)'
  BY DEF NoUpsertLate
<1>3. ASSUME calls[u].kind \in {"upsert", "find"}, calls[u].acted, calls[u].id # 0
      PROVE  Taken(u, calls[u].id)'
  <2>1. Taken(u, calls[u].id) /\ triggers[u].id = 0
    BY <1>1, <1>3 DEF CallSound
  <2>2. CASE instance'.id = instance.id \/ instance.id # calls[u].id
    BY <2>1, <2>2, <1>3 DEF Taken
  <2>3. CASE instance'.id # instance.id /\ instance.id = calls[u].id
    <3>1. triggers[t].id = instance.id /\ t # u
      BY <1>3, <2>1, <2>3 DEF ProviderMoves
    <3> QED BY <2>3, <3>1 DEF Taken
  <2> QED BY <2>2, <2>3
<1>4. calls[u].kind = "delete" /\ calls[u].acted => instance'.id # calls[u].id
  BY <1>1 DEF CallSound, ProviderMoves
<1> QED BY <1>1, <1>2, <1>3, <1>4 DEF CallSound, LastSearch

\* The provider acts on the instance, for one trigger.
LEMMA InstanceStep ==
  ASSUME EventTriggersTypeOK, InstanceInv, NEW t \in Triggers,
         triggers' = triggers, late' \subseteq late, ProviderMoves(t),
         \A u \in Triggers \ {t} : calls'[u] = calls[u],
         calls'[t].id <= instance'.made, CallSound(t)', InstanceOwned'
  PROVE  InstanceInv'
<1>1. /\ instance.made \in Nat /\ instance.id \in Nat /\ instance.id <= instance.made
      /\ instance'.made \in Nat /\ instance.made <= instance'.made /\ instance'.id <= instance'.made
  BY InstanceNumbers DEF InstanceInv, IdsGiven, ProviderMoves
<1>2. IdsGiven'
  <2>1. ASSUME NEW u \in Triggers
        PROVE  /\ triggers[u].id <= instance'.made /\ calls'[u].id <= instance'.made
               /\ \A v \in Triggers : triggers[u].id # 0 /\ v # u => triggers[v].id # triggers[u].id
    <3>1. /\ triggers[u].id <= instance.made /\ calls[u].id <= instance.made
          /\ triggers[u].id \in Nat /\ calls[u].id \in Nat
          /\ \A v \in Triggers : triggers[u].id # 0 /\ v # u => triggers[v].id # triggers[u].id
      BY InstanceNumbers DEF InstanceInv, IdsGiven
    <3>2. u = t \/ calls'[u] = calls[u]
      OBVIOUS
    <3> QED BY <1>1, <3>1, <3>2
  <2>2. ASSUME NEW r \in late'
        PROVE  r.id <= instance'.made
    <3>1. r \in late /\ r.id \in Nat /\ r.id <= instance.made
      BY InstanceNumbers DEF InstanceInv, IdsGiven
    <3> QED BY <1>1, <3>1
  <2> QED BY <1>1, <2>1, <2>2 DEF IdsGiven
<1>3. ASSUME NEW u \in Triggers
      PROVE  RowSound(u)' /\ CallSound(u)' /\ InstanceSound(u)'
  <2>1. /\ RowSound(u) /\ InstanceSound(u) /\ triggers[u].id <= instance.made
        /\ triggers[u].id \in Nat
        /\ triggers[u].id # 0 /\ u # t => triggers[u].id # triggers[t].id
    BY InstanceNumbers DEF InstanceInv, IdsGiven
  <2>2. RowSound(u)'
    BY <2>1 DEF RowSound, Live
  <2>3. InstanceSound(u)'
    BY <1>1, <2>1 DEF RowSound, InstanceSound, Live, DeletedForGood, ProviderMoves
  <2>4. CallSound(u)'
    BY CallKept
  <2> QED BY <2>2, <2>3, <2>4
<1>4. ASSUME NEW r \in late'
      PROVE  LateSound(r)'
  <2>1. r \in late /\ LateSound(r)
    BY DEF InstanceInv
  <2> QED BY <2>1 DEF LateSound, DeletedForGood
<1> QED BY <1>2, <1>3, <1>4 DEF InstanceInv

\* What a request does to the instance.
LEMMA RequestMoves ==
  ASSUME EventTriggersTypeOK, NEW t, NEW kind, NEW id, instance' = AfterRequest(t, kind, id)
  PROVE  /\ kind = "upsert" /\ instance.id = 0 =>
              /\ instance'.id = instance.made + 1 /\ instance'.made = instance.made + 1
              /\ triggers[t].id # 0 => instance'.stray
         /\ kind = "upsert" => instance'.enabled
         /\ ~(kind = "upsert" /\ instance.id = 0) /\ ~(kind = "delete" /\ instance.id = id) =>
              /\ instance'.id = instance.id /\ instance'.made = instance.made
              /\ instance.enabled => instance'.enabled \/ (kind = "disable" /\ instance.id = id)
              /\ instance.stray => instance'.stray \/ (kind = "upsert" /\ triggers[t].id = 0)
         /\ kind = "delete" /\ instance.id = id =>
              instance'.id = 0 /\ instance'.made = instance.made
<1>1. instance \in ProviderInstance
  BY DEF EventTriggersTypeOK
<1> QED BY <1>1 DEF AfterRequest, ProviderInstance

\* The provider acts on the call of a recovery.
LEMMA ProviderKeepsInstance ==
  ASSUME EventInv, EventInv', InstanceInv, NEW t \in Triggers, ProviderActs(t)
  PROVE  InstanceInv'
<1>0. /\ EventTriggersTypeOK /\ EventTriggersTypeOK' /\ UNCHANGED <<triggers, late>>
      /\ calls \in [Triggers -> Call] /\ calls[t] \in Call
      /\ instance' = AfterRequest(t, calls[t].kind, calls[t].id)
      /\ calls[t].kind # "none" /\ ~calls[t].acted
      /\ LastSearch(t) => NoUpsertLate(t)
  BY EventTyped DEF EventInv, ProviderActs, Leased
<1>1. /\ calls[t].id <= instance.made /\ RowSound(t) /\ CallSound(t) /\ InstanceOwned
      /\ instance.id \in Nat /\ instance.made \in Nat /\ instance.id <= instance.made
  BY <1>0, InstanceNumbers DEF InstanceInv, IdsGiven
<1>2. \A u \in Triggers \ {t} : calls'[u] = calls[u]
  BY <1>0 DEF ProviderActs
<1>3. /\ calls'[t].kind = calls[t].kind /\ calls'[t].acted
      /\ calls'[t].operation = calls[t].operation /\ calls'[t].attempts = calls[t].attempts
      /\ calls[t].kind = "upsert" => calls'[t].id = instance'.id
      /\ calls[t].kind = "find" => calls'[t].id = IF instance.enabled THEN instance.id ELSE 0
      /\ calls[t].kind \notin {"upsert", "find"} => calls'[t].id = calls[t].id
  BY <1>0 DEF ProviderActs, Call
<1>4. /\ calls[t].kind \in {"delete", "enable", "disable"} => calls[t].id = triggers[t].id
      /\ calls[t].kind \in {"upsert", "find"} =>
           triggers[t].id = 0 /\ triggers[t].operation \in {"creating", "deleting"}
      /\ calls[t].kind = "delete" => triggers[t].operation = "deleting" /\ calls[t].id # 0
  BY <1>1 DEF CallSound
<1>5. ProviderMoves(t)
  BY <1>0, <1>1, <1>4, RequestMoves DEF ProviderMoves
<1>6. calls'[t].id <= instance'.made
  BY <1>0, <1>1, <1>3, RequestMoves DEF ProviderMoves
<1>7. CallSound(t)'
  <2>1. LastSearch(t)' <=> LastSearch(t)
    BY <1>3 DEF LastSearch
  <2>2. NoUpsertLate(t)' <=> NoUpsertLate(t)
    BY <1>0 DEF NoUpsertLate
  <2>3. calls[t].kind = "upsert" => calls'[t].id # 0 /\ calls'[t].id = instance'.id
    BY <1>0, <1>1, <1>3, RequestMoves
  <2>4. calls[t].kind = "find" /\ calls'[t].id # 0 => calls'[t].id = instance'.id
    BY <1>0, <1>1, <1>3, RequestMoves
  <2>5. calls[t].kind = "delete" => instance'.id # calls[t].id
    BY <1>0, <1>1, <1>4, RequestMoves
  <2> QED BY <1>0, <1>1, <1>3, <2>1, <2>2, <2>3, <2>4, <2>5 DEF CallSound, Taken
<1>8. InstanceOwned'
  <2>1. CASE calls[t].kind = "upsert"
    <3>1. Searching(t)' /\ instance'.enabled
      BY <1>0, <1>3, <1>4, <2>1, RequestMoves DEF Searching, FoundNone, LastSearch
    <3> QED BY <3>1 DEF InstanceOwned
  <2>2. CASE instance'.id = 0
    BY <2>2 DEF InstanceOwned
  <2>3. CASE instance'.id # 0 /\ calls[t].kind # "upsert"
    <3>1. /\ instance'.id = instance.id /\ (instance.stray => instance'.stray)
          /\ instance.enabled =>
               instance'.enabled \/ (calls[t].kind = "disable" /\ instance.id = calls[t].id)
      BY <1>0, <2>3, RequestMoves
    <3>2. CASE instance.stray \/ \E u \in Triggers : triggers[u].id = instance.id
      BY <1>0, <3>1, <3>2 DEF InstanceOwned
    <3>3. CASE instance.enabled /\ \E u \in Triggers : Searching(u)
      <4>1. PICK u \in Triggers : Searching(u)
        BY <3>3
      <4>2. CASE calls[t].kind = "disable" /\ instance.id = calls[t].id
        BY <1>0, <1>4, <3>1, <4>2 DEF InstanceOwned
      <4>3. Searching(u)'
        <5>1. CASE u # t
          BY <1>0, <1>2, <4>1, <5>1 DEF Searching, FoundNone, LastSearch
        <5>2. CASE u = t
          BY <1>0, <1>3, <2>3, <3>1, <3>3, <4>1, <5>2 DEF Searching, FoundNone, LastSearch
        <5> QED BY <5>1, <5>2
      <4>4. CASE ~(calls[t].kind = "disable" /\ instance.id = calls[t].id)
        BY <3>1, <3>3, <4>3, <4>4 DEF InstanceOwned
      <4> QED BY <4>2, <4>4
    <3> QED BY <1>1, <2>3, <3>1, <3>2, <3>3 DEF InstanceOwned
  <2> QED BY <2>1, <2>2, <2>3
<1> QED BY <1>0, <1>2, <1>5, <1>6, <1>7, <1>8, InstanceStep

\* A request that was given up lands, or is lost for good.
LEMMA LateKeepsInstance ==
  ASSUME EventInv, InstanceInv, NEW r \in late, LateRequestLands(r) \/ LateRequestLost(r)
  PROVE  InstanceInv'
<1> DEFINE t == r.trigger
<1>0. /\ EventTriggersTypeOK /\ UNCHANGED <<triggers, calls>> /\ late' = late \ {r}
      /\ t \in Triggers /\ r.kind \in {"upsert", "delete", "enable", "disable"} /\ r.id \in Nat
  BY InstanceNumbers DEF EventInv, LateRequestLands, LateRequestLost
<1>1. /\ LateSound(r) /\ RowSound(t) /\ CallSound(t) /\ InstanceOwned /\ calls[t].id <= instance.made
      /\ instance.id \in Nat /\ instance.made \in Nat /\ instance.id <= instance.made
      /\ triggers[t].status \in {"none", "active", "paused", "deleted"}
      /\ calls[t].id \in Nat
  BY <1>0, InstanceNumbers DEF InstanceInv, IdsGiven
<1>2. \A u \in Triggers : Searching(u)' <=> Searching(u)
  BY <1>0 DEF Searching, FoundNone, LastSearch
<1>3. /\ r.kind # "upsert" => r.id = triggers[t].id /\ r.id # 0
      /\ r.kind = "delete" => triggers[t].operation = "deleting" \/ DeletedForGood(t)
  BY <1>0, <1>1 DEF LateSound
<1>4. r.kind = "upsert" /\ triggers[t].id = 0 => Searching(t)
  <2>1. ASSUME r.kind = "upsert", triggers[t].id = 0
        PROVE  triggers[t].status # "none" /\ ~DeletedForGood(t) /\ ~NoUpsertLate(t)
    BY <1>0, <1>1, <2>1 DEF LateSound, NoUpsertLate
  <2>2. ASSUME r.kind = "upsert", triggers[t].id = 0
        PROVE  triggers[t].operation \in {"creating", "deleting"}
    BY <1>1, <2>1, <2>2 DEF RowSound, Live, DeletedForGood
  <2> QED BY <1>1, <2>1, <2>2 DEF Searching, FoundNone, CallSound
<1>5. CASE LateRequestLost(r)
  <2>1. ProviderMoves(t) /\ InstanceOwned'
    BY <1>0, <1>1, <1>2, <1>5 DEF LateRequestLost, ProviderMoves, InstanceOwned
  <2>2. CallSound(t)' /\ calls'[t].id <= instance'.made
    BY <1>0, <1>1, <1>5, <2>1, CallKept DEF LateRequestLost
  <2> QED BY <1>0, <2>1, <2>2, InstanceStep
<1>6. CASE LateRequestLands(r)
  <2>1. instance' = AfterRequest(t, r.kind, r.id)
    BY <1>6 DEF LateRequestLands
  <2>2. ProviderMoves(t)
    BY <1>0, <1>1, <1>3, <2>1, RequestMoves DEF ProviderMoves
  <2>3. CallSound(t)'
    BY <1>0, <2>2, CallKept
  <2>4. calls'[t].id <= instance'.made
    BY <1>0, <1>1, <2>2 DEF ProviderMoves
  <2>5. InstanceOwned'
    <3>1. CASE r.kind = "upsert" /\ triggers[t].id = 0
      BY <1>0, <1>2, <1>4, <2>1, <3>1, RequestMoves DEF InstanceOwned
    <3>2. CASE r.kind = "upsert" /\ instance.id = 0 /\ triggers[t].id # 0
      BY <2>1, <1>0, <3>2, RequestMoves DEF InstanceOwned
    <3>3. CASE /\ instance'.id # 0 /\ ~(r.kind = "upsert" /\ instance.id = 0)
               /\ ~(r.kind = "upsert" /\ triggers[t].id = 0)
      <4>1. /\ instance'.id = instance.id /\ (instance.stray => instance'.stray)
            /\ instance.enabled => instance'.enabled \/ (r.kind = "disable" /\ instance.id = r.id)
        BY <1>0, <2>1, <3>3, RequestMoves
      <4>2. CASE r.kind = "disable" /\ instance.id = r.id
        BY <1>0, <1>3, <4>1, <4>2 DEF InstanceOwned
      <4>3. CASE ~(r.kind = "disable" /\ instance.id = r.id)
        BY <1>0, <1>1, <1>2, <4>1, <4>3 DEF InstanceOwned
      <4> QED BY <4>2, <4>3
    <3> QED BY <3>1, <3>2, <3>3 DEF InstanceOwned
  <2> QED BY <1>0, <2>2, <2>3, <2>4, <2>5, InstanceStep
<1> QED BY <1>5, <1>6

\* What happens to events leaves the instance, its callers and what the rows say of it.
LEMMA EventsKeepInstance ==
  ASSUME EventInv, EventInv', InstanceInv, NEW t \in Triggers,
         \/ \E e \in Events, admissible \in BOOLEAN : Receive(t, e, admissible)
         \/ EventAlarm(t) \/ AbandonEvent(t)
         \/ \E e \in Events : EventDue(t, e)
         \/ \E key \in TriggerRevisions \X Events : EventRunEnds(t, key)
  PROVE  InstanceInv'
<1>0. /\ EventTriggersTypeOK /\ EventTriggersTypeOK' /\ UNCHANGED <<calls, late, instance>>
      /\ triggers \in [Triggers -> Trigger] /\ triggers[t] \in Trigger
  BY EventTyped DEF EventInv, operationVars, Receive, EventAlarm, AbandonEvent, EventDue,
     EventRunEnds, ClaimEvent, RecordEventRun, InspectLastRun, StartEventRun
<1>1. \/ triggers' = triggers
      \/ \E x : triggers' = [triggers EXCEPT ![t].lastRun = x]
  BY DEF operationVars, Receive, EventAlarm, AbandonEvent, EventDue,
     EventRunEnds, ClaimEvent, RecordEventRun, InspectLastRun, StartEventRun
<1>2. /\ triggers'[t].status = triggers[t].status /\ triggers'[t].id = triggers[t].id
      /\ triggers'[t].operation = triggers[t].operation
      /\ \A u \in Triggers \ {t} : triggers'[u] = triggers[u]
  BY <1>0, <1>1 DEF Trigger
<1>3. /\ calls[t].id <= instance.made /\ RowSound(t) /\ CallSound(t) /\ InstanceSound(t)
      /\ \A r \in late : LateSound(r)
  BY DEF InstanceInv, IdsGiven
<1>4. \A i : Taken(t, i)' <=> Taken(t, i)
  BY <1>0, <1>2 DEF Taken
<1>5. RowSound(t)' /\ InstanceSound(t)' /\ (Searching(t) => Searching(t)')
  BY <1>0, <1>2, <1>3 DEF RowSound, InstanceSound, Live, DeletedForGood, Searching, FoundNone, LastSearch
<1>6. CallSound(t)'
  BY <1>0, <1>2, <1>3, <1>4 DEF CallSound, LastSearch, NoUpsertLate
<1>7. \A r \in late : r.trigger = t => LateSound(r)'
  BY <1>0, <1>2, <1>3 DEF LateSound, DeletedForGood
<1> QED BY <1>0, <1>2, <1>3, <1>5, <1>6, <1>7, RowStep

\* Every step keeps the instance and the triggers that may own it together.
LEMMA InstanceStepInv ==
  ASSUME EventInv, EventInv', InstanceInv, [EventTriggersNext]_eventTriggerVars
  PROVE  InstanceInv'
<1>1. CASE OperationNext
  BY <1>1, OwnerKeepsInstance, RecoveryKeepsInstance, ProviderKeepsInstance,
     AnswerKeepsInstance, LateKeepsInstance DEF OperationNext
<1>2. CASE EventNext
  BY <1>2, EventsKeepInstance DEF EventNext
<1>3. CASE UNCHANGED eventTriggerVars
  <2>1. UNCHANGED <<triggers, calls, late, instance>>
    BY <1>3 DEF eventTriggerVars, operationVars
  <2> QED BY <2>1 DEF InstanceInv, IdsGiven, InstanceOwned, RowSound, CallSound, InstanceSound,
       LateSound, Live, DeletedForGood, Taken, LastSearch, FoundNone, Searching, NoUpsertLate
<1> QED BY <1>1, <1>2, <1>3 DEF EventTriggersNext

\* Owner and provider agree where nobody is about to change anything.
LEMMA SoundInstanceAgrees ==
  ASSUME InstanceInv
  PROVE  InstanceAgrees
<1>1. ASSUME NEW t \in Triggers, Live(t), triggers[t].operation = "stable"
      PROVE  instance.id = triggers[t].id
  BY <1>1 DEF InstanceInv, InstanceSound
<1>2. ASSUME NEW t \in Triggers, DeletedForGood(t), triggers[t].id # 0
      PROVE  instance.id # triggers[t].id
  BY <1>2 DEF InstanceInv, InstanceSound
<1>3. ASSUME \A t \in Triggers : triggers[t].status = "none" \/ DeletedForGood(t),
             instance.id # 0, ~instance.stray
      PROVE  FALSE
  <2>1. \A t \in Triggers : ~Searching(t)
    BY <1>3 DEF Searching, DeletedForGood, InstanceInv, RowSound
  <2>2. PICK t \in Triggers : triggers[t].id = instance.id
    BY <1>3, <2>1 DEF InstanceInv, InstanceOwned
  <2>3. CASE triggers[t].status = "none"
    BY <1>3, <2>2, <2>3 DEF InstanceInv, RowSound
  <2>4. CASE DeletedForGood(t)
    BY <1>2, <1>3, <2>2, <2>4
  <2> QED BY <1>3, <2>2, <2>3, <2>4
<1> QED BY <1>1, <1>2, <1>3 DEF InstanceAgrees

\* The provider's instance of a source is the one of the live, settled trigger, never
\* that of a deleted one, and once every trigger is deleted for good there is none but
\* a stray, whatever calls failed, were repeated by another recovery or landed late,
\* deletions beside creations included (#recoverOperation).
THEOREM InstanceStays == EventTriggersSpec => []InstanceAgrees
<1>1. EventTriggersInit => EventInv /\ InstanceInv
  BY EventInitInv, InstanceInit
<1>2. EventInv /\ InstanceInv /\ [EventTriggersNext]_eventTriggerVars => EventInv' /\ InstanceInv'
  BY EventStepInv, InstanceStepInv
<1>3. InstanceInv => InstanceAgrees
  BY SoundInstanceAgrees
<1> QED BY <1>1, <1>2, <1>3, PTL DEF EventTriggersSpec


-----------------------------------------------------------------------------
(* Schedules and Event triggers side by side *)

\* A step of both is a step of each of them, or leaves it alone.
LEMMA StandingStep ==
  ASSUME [StandingNext]_standingVars
  PROVE  [ScheduleNext]_scheduleVars /\ [EventTriggersNext]_eventTriggerVars
BY DEF StandingNext, OneTriggerStep, standingVars

\* The rows of Schedules and of Event triggers are well typed in every behaviour of
\* the two.
THEOREM StandingTypeCorrect == StandingSpec => []StandingTypeOK
<1>1. StandingInit => ScheduleInv /\ EventInv
  BY ScheduleInitInv, EventInitInv DEF StandingInit
<1>2. ScheduleInv /\ EventInv /\ [StandingNext]_standingVars => (ScheduleInv /\ EventInv)'
  BY StandingStep, ScheduleStepInv, EventStepInv
<1>3. ScheduleInv /\ EventInv => StandingTypeOK
  BY DEF ScheduleInv, EventInv, StandingTypeOK
<1> QED BY <1>1, <1>2, <1>3, PTL DEF StandingSpec
=============================================================================
