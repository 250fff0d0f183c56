--------------------------- MODULE AgentRuns_proofs ---------------------------
(***************************************************************************)
(* What is proved of the Runs of an Agent: the session of a Run, the inbox *)
(* and the directory of sessions.                                          *)
(***************************************************************************)
EXTENDS MCAgentRuns, FiniteSetTheorems, WellFoundedInduction, TLAPS

-----------------------------------------------------------------------------
(* The session of a Run *)

\* The turn, its callback and the answer of the submission: a turn that is drained is
\* over and none begins any more, nor after a proven restart, after the deadline has
\* been passed by the clean-up, or once the storage is given up.
TurnSound(r) ==
  /\ r.turn = "model" => r.submission \in {"running", "aborted"}
  /\ r.turn = "callback" => Ended(r)
  /\ r.drained => r.turn = "none" /\ (Ended(r) \/ r.storage = "deleted")
  /\ r.restart = "earlier" \/ r.storage # "live" \/ r.clock = 2 \/ r.repair = "recover" =>
       r.turn = "none"
  /\ r.restart # "none" \/ r.storage # "live" => Late(r)

\* A repair is of a structured output nobody has accepted yet, and what completes a
\* Run is an answer that the framework completed.
OutputSound(r) ==
  /\ r.repair # "none" =>
       /\ r.output # "valid"
       /\ r.storage = "deleted" \/ (r.submission = "completed" /\ r.output # "absent")
  /\ r.output \in {"repairing", "valid"} => r.submission = "completed" /\ r.message # "pending"
  /\ r.repair # "none" \/ r.retry # NoRetry => Json(r)
  /\ r.approval => r.submission = "completed" /\ (r.message = "pending" \/ r.terminal = "cancelled")
  /\ r.terminal = "completed" => r.submission = "completed" /\ (Json(r) => r.output = "valid")

\* What was reported as completed is completed, or can only be committed as that.
ReportSound(r) ==
  r.reported /\ ~r.deleting =>
    /\ r.submission = "completed"
    /\ r.terminal # "completed" =>
         /\ r.terminal = "none" /\ ~r.blocked /\ ~r.approval /\ r.message # "pending"
         /\ Json(r) => r.output = "valid"

CrewSound(r) == r \in CrewRun /\ TurnSound(r) /\ OutputSound(r) /\ ReportSound(r)

\* The fields of the record.
LEMMA CrewFields ==
  ASSUME NEW r \in CrewRun
  PROVE  /\ r.contract \in Contracts /\ r.clock \in 0..2
         /\ r.accepting \in {"none", "verifying", "confirming", "resuming"}
         /\ r.record \in {"none", "stored", "cleaned"}
         /\ r.submission \in {"none", "running", "completed", "aborted", "error"}
         /\ r.turn \in {"none", "model", "callback"}
         /\ r.action \in {"none", "executing"}
         /\ r.approval \in BOOLEAN /\ r.branch \in BOOLEAN
         /\ r.message \in {"none", "pending", "good", "bad"}
         /\ r.output \in {"absent", "repairing", "valid", "invalid"}
         /\ r.repair \in {"none", "callback", "retry", "recover", "inspect"}
         /\ r.retry \in -1..MaxOutputRetries /\ r.blocked \in BOOLEAN
         /\ r.terminal \in {"none"} \cup Terminals /\ r.drained \in BOOLEAN
         /\ r.restart \in {"none", "this", "earlier"}
         /\ r.storage \in {"live", "settled", "deleted"}
         /\ r.reported \in BOOLEAN /\ r.deleting \in BOOLEAN
BY DEF CrewRun

\* A field of the record is written.
LEMMA CrewWrites ==
  ASSUME NEW r \in CrewRun
  PROVE  /\ \A v \in 0..2 : [r EXCEPT !.clock = v] \in CrewRun
         /\ \A v \in {"none", "verifying", "confirming", "resuming"} :
              [r EXCEPT !.accepting = v] \in CrewRun
         /\ \A v \in {"none", "stored", "cleaned"} : [r EXCEPT !.record = v] \in CrewRun
         /\ \A v \in {"none", "running", "completed", "aborted", "error"} :
              [r EXCEPT !.submission = v] \in CrewRun
         /\ \A v \in {"none", "model", "callback"} : [r EXCEPT !.turn = v] \in CrewRun
         /\ \A v \in {"none", "executing"} : [r EXCEPT !.action = v] \in CrewRun
         /\ \A v \in {"none", "pending", "good", "bad"} : [r EXCEPT !.message = v] \in CrewRun
         /\ \A v \in {"absent", "repairing", "valid", "invalid"} :
              [r EXCEPT !.output = v] \in CrewRun
         /\ \A v \in {"none", "callback", "retry", "recover", "inspect"} :
              [r EXCEPT !.repair = v] \in CrewRun
         /\ \A v \in -1..MaxOutputRetries : [r EXCEPT !.retry = v] \in CrewRun
         /\ \A v \in {"none"} \cup Terminals : [r EXCEPT !.terminal = v] \in CrewRun
         /\ \A v \in {"none", "this", "earlier"} : [r EXCEPT !.restart = v] \in CrewRun
         /\ \A v \in {"live", "settled", "deleted"} : [r EXCEPT !.storage = v] \in CrewRun
         /\ \A v \in BOOLEAN : /\ [r EXCEPT !.approval = v] \in CrewRun
                               /\ [r EXCEPT !.branch = v] \in CrewRun
                               /\ [r EXCEPT !.blocked = v] \in CrewRun
                               /\ [r EXCEPT !.drained = v] \in CrewRun
                               /\ [r EXCEPT !.reported = v] \in CrewRun
                               /\ [r EXCEPT !.deleting = v] \in CrewRun
<1>1. /\ \A v \in 0..2 : [r EXCEPT !.clock = v] \in CrewRun
      /\ \A v \in {"none", "verifying", "confirming", "resuming"} :
           [r EXCEPT !.accepting = v] \in CrewRun
      /\ \A v \in {"none", "stored", "cleaned"} : [r EXCEPT !.record = v] \in CrewRun
      /\ \A v \in {"none", "running", "completed", "aborted", "error"} :
           [r EXCEPT !.submission = v] \in CrewRun
  BY DEF CrewRun
<1>2. /\ \A v \in {"none", "model", "callback"} : [r EXCEPT !.turn = v] \in CrewRun
      /\ \A v \in {"none", "executing"} : [r EXCEPT !.action = v] \in CrewRun
  BY DEF CrewRun
<1>7. /\ \A v \in {"none", "pending", "good", "bad"} : [r EXCEPT !.message = v] \in CrewRun
      /\ \A v \in {"absent", "repairing", "valid", "invalid"} :
           [r EXCEPT !.output = v] \in CrewRun
      /\ \A v \in {"none", "callback", "retry", "recover", "inspect"} :
           [r EXCEPT !.repair = v] \in CrewRun
  BY DEF CrewRun
<1>3. \A v \in -1..MaxOutputRetries : [r EXCEPT !.retry = v] \in CrewRun
  BY DEF CrewRun
<1>5. \A v \in {"none"} \cup Terminals : [r EXCEPT !.terminal = v] \in CrewRun
  BY DEF CrewRun
<1>6. /\ \A v \in {"none", "this", "earlier"} : [r EXCEPT !.restart = v] \in CrewRun
      /\ \A v \in {"live", "settled", "deleted"} : [r EXCEPT !.storage = v] \in CrewRun
  BY DEF CrewRun
<1>4. ASSUME NEW v \in BOOLEAN
      PROVE  /\ [r EXCEPT !.approval = v] \in CrewRun /\ [r EXCEPT !.branch = v] \in CrewRun
             /\ [r EXCEPT !.blocked = v] \in CrewRun /\ [r EXCEPT !.drained = v] \in CrewRun
             /\ [r EXCEPT !.reported = v] \in CrewRun /\ [r EXCEPT !.deleting = v] \in CrewRun
  BY DEF CrewRun
<1> QED BY <1>1, <1>2, <1>3, <1>4, <1>5, <1>6, <1>7

\* What a commit of an output or of a status leaves as it is.
Kept(r, s) ==
  /\ s.contract = r.contract /\ s.clock = r.clock /\ s.record = r.record
  /\ s.submission = r.submission /\ s.turn = r.turn /\ s.approval = r.approval
  /\ s.blocked = r.blocked /\ s.drained = r.drained /\ s.restart = r.restart
  /\ s.storage = r.storage /\ s.reported = r.reported /\ s.deleting = r.deleting

\* The first status that is proposed stays.
LEMMA CommitTerminalSound ==
  ASSUME NEW r, CrewSound(r), NEW status \in Terminals,
         r.terminal = "none" /\ status = "completed" =>
           r.submission = "completed" /\ (Json(r) => r.output = "valid"),
         r.terminal = "none" /\ r.reported /\ ~r.deleting => status = "completed"
  PROVE  /\ CrewSound(CommitTerminal(r, status)) /\ Kept(r, CommitTerminal(r, status))
         /\ CommitTerminal(r, status).output = r.output
         /\ CommitTerminal(r, status).repair = r.repair
         /\ CommitTerminal(r, status).retry = r.retry
         /\ CommitTerminal(r, status).terminal = IF r.terminal = "none" THEN status ELSE r.terminal
<1>1. r \in CrewRun
  BY DEF CrewSound
<1>2. CASE r.terminal # "none"
  BY <1>2 DEF CommitTerminal, Kept
<1>3. CASE r.terminal = "none"
  <2> DEFINE s == [r EXCEPT !.terminal = status]
  <2>1. s \in CrewRun
    BY <1>1, CrewWrites
  <2>2. /\ Kept(r, s) /\ s.terminal = status /\ s.output = r.output /\ s.repair = r.repair
        /\ s.retry = r.retry /\ s.message = r.message
    BY <1>1 DEF CrewRun, Kept
  <2>3. CommitTerminal(r, status) = s
    BY <1>3 DEF CommitTerminal
  <2> HIDE DEF s
  <2>4. CrewSound(s)
    BY <1>3, <2>1, <2>2, CrewFields DEF CrewSound, Kept, TurnSound, OutputSound, ReportSound, Ended, Late, Json, Terminals
  <2> QED BY <1>3, <2>2, <2>3, <2>4
<1> QED BY <1>2, <1>3

\* The branch of a Run that is cancelled or was never submitted goes.
LEMMA DiscardSound ==
  ASSUME NEW r, CrewSound(r), r.terminal = "cancelled" \/ ~r.approval
  PROVE  /\ CrewSound(DiscardBranch(r)) /\ Kept(r, DiscardBranch(r))
         /\ DiscardBranch(r).output = r.output /\ DiscardBranch(r).repair = r.repair
         /\ DiscardBranch(r).retry = r.retry /\ DiscardBranch(r).terminal = r.terminal
<1> DEFINE s == DiscardBranch(r)
<1>1. r \in CrewRun
  BY DEF CrewSound
<1>2. s \in CrewRun
  BY <1>1, CrewWrites DEF DiscardBranch
<1>3. /\ Kept(r, s) /\ s.terminal = r.terminal /\ s.output = r.output /\ s.repair = r.repair
      /\ s.retry = r.retry /\ s.message = "none"
  BY <1>1 DEF CrewRun, Kept, DiscardBranch
<1> HIDE DEF s
<1>4. CrewSound(s)
  BY <1>2, <1>3 DEF CrewSound, Kept, TurnSound, OutputSound, ReportSound, Ended, Late, Json
<1> QED BY <1>3, <1>4 DEF s

\* An output is finalised: left alone, accepted, given up or repaired by the caller.
LEMMA FinalizedSound ==
  ASSUME NEW r, CrewSound(r), Json(r), r.storage # "deleted",
         NEW caller \in {"callback", "retry", "recover", "inspect"},
         caller = "recover" => r.turn = "none"
  PROVE  /\ CrewSound(Finalized(r, caller)) /\ Kept(r, Finalized(r, caller))
         /\ Finalized(r, caller).terminal = r.terminal
         /\ Finalized(r, caller).retry = r.retry
         /\ Finalized(r, caller).message = r.message
         /\ Finalized(r, caller).repair \in {r.repair, caller}
<1>1. r \in CrewRun
  BY DEF CrewSound
<1>2. CASE Finalized(r, caller) = r
  BY <1>2 DEF Kept
<1>3. CASE r.repair = "none" /\ r.output # "valid"
           /\ Finalized(r, caller) = [r EXCEPT !.output = "invalid"]
  <2> DEFINE s == [r EXCEPT !.output = "invalid"]
  <2>1. s \in CrewRun
    BY <1>1, CrewWrites
  <2>2. /\ Kept(r, s) /\ s.terminal = r.terminal /\ s.output = "invalid" /\ s.repair = r.repair
        /\ s.retry = r.retry /\ s.message = r.message
    BY <1>1 DEF CrewRun, Kept
  <2> HIDE DEF s
  <2>3. CrewSound(s)
    BY <1>3, <2>1, <2>2 DEF CrewSound, Kept, TurnSound, OutputSound, ReportSound, Ended, Late, Json
  <2> QED BY <1>3, <2>2, <2>3 DEF s
<1>4. CASE /\ r.output = "absent" /\ r.terminal = "none"
           /\ r.submission = "completed" /\ r.message = "good"
           /\ Finalized(r, caller) = [r EXCEPT !.output = "valid"]
  <2> DEFINE s == [r EXCEPT !.output = "valid"]
  <2>1. s \in CrewRun
    BY <1>1, CrewWrites
  <2>2. /\ Kept(r, s) /\ s.terminal = r.terminal /\ s.output = "valid" /\ s.repair = r.repair
        /\ s.retry = r.retry /\ s.message = r.message
    BY <1>1 DEF CrewRun, Kept
  <2> HIDE DEF s
  <2>3. CrewSound(s)
    BY <1>4, <2>1, <2>2 DEF CrewSound, Kept, TurnSound, OutputSound, ReportSound, Ended, Late, Json
  <2> QED BY <1>4, <2>2, <2>3 DEF s
<1>5. CASE /\ r.output = "absent" /\ r.terminal = "none" /\ r.submission = "completed"
           /\ r.message = "bad"
           /\ Finalized(r, caller) = [r EXCEPT !.output = "repairing", !.repair = caller]
  <2> DEFINE s == [r EXCEPT !.output = "repairing", !.repair = caller]
  <2>1. s \in CrewRun
    BY <1>1, CrewWrites
  <2>2. /\ Kept(r, s) /\ s.terminal = r.terminal /\ s.output = "repairing" /\ s.repair = caller
        /\ s.retry = r.retry /\ s.message = r.message
    BY <1>1 DEF CrewRun, Kept
  <2> HIDE DEF s
  <2>3. CrewSound(s)
    BY <1>5, <2>1, <2>2 DEF CrewSound, Kept, TurnSound, OutputSound, ReportSound, Ended, Late, Json
  <2> QED BY <1>5, <2>2, <2>3 DEF s
<1>6. /\ r.repair # "none" => r.output # "absent"
      /\ r.output \in {"absent", "repairing", "valid", "invalid"}
  BY <1>1, CrewFields DEF CrewSound, OutputSound
<1> QED BY <1>2, <1>3, <1>4, <1>5, <1>6 DEF Finalized, CommitValid, Committed

\* The status of a Run is committed from what the framework and the output say.
LEMMA PublishSound ==
  ASSUME NEW r, CrewSound(r), NEW framework \in {"completed", "cancelled", "error"}, NEW output,
         framework = "completed" /\ output # "invalid" =>
           r.submission = "completed" /\ (Json(r) => r.output = "valid"),
         r.terminal = "none" /\ r.reported /\ ~r.deleting =>
           framework = "completed" /\ output # "invalid"
  PROVE  /\ CrewSound(Publish(r, framework, output)) /\ Kept(r, Publish(r, framework, output))
         /\ Publish(r, framework, output).output = r.output
         /\ Publish(r, framework, output).repair = r.repair
         /\ Publish(r, framework, output).retry = r.retry
<1> DEFINE derived == IF output = "invalid" \/ (framework = "completed" /\ r.blocked) THEN "failed"
                      ELSE IF framework = "error" THEN "failed" ELSE framework
           s == CommitTerminal(r, derived)
<1>1. derived \in Terminals /\ (derived = "completed" => framework = "completed" /\ output # "invalid")
  BY DEF Terminals
<1>2. r.terminal = "none" /\ r.reported /\ ~r.deleting => derived = "completed"
  BY DEF CrewSound, ReportSound
<1> HIDE DEF derived
<1>3. /\ CrewSound(s) /\ Kept(r, s) /\ s.output = r.output /\ s.repair = r.repair
      /\ s.retry = r.retry
  BY <1>1, <1>2, CommitTerminalSound
<1>4. Publish(r, framework, output) = IF s.terminal = "cancelled" THEN DiscardBranch(s) ELSE s
  BY DEF Publish, derived
<1> HIDE DEF s
<1>5. CASE s.terminal = "cancelled"
  BY <1>3, <1>4, <1>5, DiscardSound DEF Kept
<1>6. CASE s.terminal # "cancelled"
  BY <1>3, <1>4, <1>6
<1> QED BY <1>5, <1>6

\* The callback of a turn is over.
LEMMA DrainedSound ==
  ASSUME NEW r, CrewSound(r), Ended(r) \/ r.storage = "deleted"
  PROVE  CrewSound(Drained(r))
<1>1. r \in CrewRun
  BY DEF CrewSound
<1> DEFINE s == Drained(r)
<1>2. s \in CrewRun
  BY <1>1, CrewWrites DEF Drained
<1>3. /\ s.turn = "none" /\ s.drained /\ s.contract = r.contract /\ s.clock = r.clock
      /\ s.submission = r.submission /\ s.approval = r.approval /\ s.blocked = r.blocked
      /\ s.restart = r.restart /\ s.storage = r.storage /\ s.reported = r.reported
      /\ s.deleting = r.deleting /\ s.terminal = r.terminal /\ s.output = r.output
      /\ s.repair = r.repair /\ s.retry = r.retry /\ s.message = r.message
  BY <1>1 DEF CrewRun, Drained
<1> HIDE DEF s
<1>4. CrewSound(s)
  BY <1>2, <1>3 DEF CrewSound, TurnSound, OutputSound, ReportSound, Ended, Late, Json
<1> QED BY <1>4 DEF s

\* A retry of the finalisation is scheduled or not.
LEMMA RetrySound ==
  ASSUME NEW r, CrewSound(r), NEW attempt \in Nat, Json(r)
  PROVE  /\ CrewSound(ScheduleRetry(r, attempt)) /\ Kept(r, ScheduleRetry(r, attempt))
<1>1. r \in CrewRun
  BY DEF CrewSound
<1>2. PICK v \in -1..MaxOutputRetries : ScheduleRetry(r, attempt) = [r EXCEPT !.retry = v]
  <2>1. NoRetry \in -1..MaxOutputRetries
    BY AdmittedRunsAssumption DEF NoRetry
  <2>2. attempt <= MaxOutputRetries => attempt \in -1..MaxOutputRetries
    BY AdmittedRunsAssumption
  <2> QED BY <2>1, <2>2, AdmittedRunsAssumption DEF ScheduleRetry
<1> DEFINE s == [r EXCEPT !.retry = v]
<1>3. s \in CrewRun
  BY <1>1, CrewWrites
<1>4. /\ Kept(r, s) /\ s.terminal = r.terminal /\ s.output = r.output /\ s.repair = r.repair
      /\ s.message = r.message
  BY <1>1 DEF CrewRun, Kept
<1> HIDE DEF s
<1>5. CrewSound(s)
  BY <1>3, <1>4 DEF CrewSound, Kept, TurnSound, OutputSound, ReportSound, Ended, Late, Json
<1> QED BY <1>2, <1>4, <1>5 DEF s

\* Acceptance writes the record and the branch, and starts a turn in time only.
LEMMA AcceptanceSound ==
  ASSUME CrewSound(crew),
         \/ AcceptRunAdmission \/ ResumeRunAdmission \/ DiscardRejectedSessionRun
         \/ \E ok \in BOOLEAN : VerifyAnswered(ok)
         \/ \E ok, submitted \in BOOLEAN : SubmitAdmittedRun(ok, submitted)
  PROVE  CrewSound(crew')
<1>0. crew \in CrewRun /\ TurnSound(crew) /\ OutputSound(crew) /\ ReportSound(crew)
  BY DEF CrewSound
<1>1. CASE AcceptRunAdmission \/ ResumeRunAdmission
  <2>1. PICK v \in {"verifying", "confirming", "resuming"} : crew' = [crew EXCEPT !.accepting = v]
    BY <1>1 DEF AcceptRunAdmission, ResumeRunAdmission
  <2>2. crew' \in CrewRun
    BY <1>0, <2>1, CrewWrites
  <2> QED BY <1>0, <2>1, <2>2
       DEF CrewSound, CrewRun, TurnSound, OutputSound, ReportSound, Ended, Late, Json
<1>2. CASE DiscardRejectedSessionRun
  <2>1. crew' = [[DiscardBranch(crew) EXCEPT !.record = "none"] EXCEPT !.terminal = "none"]
    BY <1>2 DEF DiscardRejectedSessionRun
  <2>2. crew' \in CrewRun
    BY <1>0, <2>1, CrewWrites DEF DiscardBranch
  <2> QED BY <1>0, <1>2, <2>2
       DEF DiscardRejectedSessionRun, DiscardBranch, CrewSound, CrewRun, TurnSound, OutputSound,
           ReportSound, Ended, Late, Json
<1>3. ASSUME NEW ok \in BOOLEAN, VerifyAnswered(ok)
      PROVE  CrewSound(crew')
  <2>1. crew' \in CrewRun
    BY <1>0, <1>3, CrewWrites DEF VerifyAnswered
  <2>2. CASE ok
    BY <1>0, <1>3, <2>1, <2>2
       DEF VerifyAnswered, CrewSound, CrewRun, TurnSound, OutputSound, ReportSound, Ended, Late, Json
  <2>3. CASE ~ok
    BY <1>0, <1>3, <2>1, <2>3
       DEF VerifyAnswered, CrewSound, CrewRun, TurnSound, OutputSound, ReportSound, Ended, Late, Json
  <2> QED BY <2>2, <2>3
<1>4. ASSUME NEW ok \in BOOLEAN, NEW submitted \in BOOLEAN, SubmitAdmittedRun(ok, submitted)
      PROVE  CrewSound(crew')
  <2>1. CASE crew' = [crew EXCEPT !.accepting = "none"]
    <3>1. crew' \in CrewRun
      BY <1>0, <2>1, CrewWrites
    <3> QED BY <1>0, <2>1, <3>1
         DEF CrewSound, CrewRun, TurnSound, OutputSound, ReportSound, Ended, Late, Json
  <2>2. CASE crew' = [[crew EXCEPT !.accepting = "none"] EXCEPT !.branch = TRUE]
    <3>1. crew' \in CrewRun
      BY <1>0, <2>2, CrewWrites
    <3> QED BY <1>0, <2>2, <3>1
         DEF CrewSound, CrewRun, TurnSound, OutputSound, ReportSound, Ended, Late, Json
  <2>3. CASE /\ crew' = [[[crew EXCEPT !.accepting = "none"] EXCEPT !.branch = TRUE]
                            EXCEPT !.submission = "running", !.turn = "model"]
             /\ ~Late(crew) /\ crew.submission = "none"
    <3>1. crew' \in CrewRun
      BY <1>0, <2>3, CrewWrites
    <3>2. /\ crew'.submission = "running" /\ crew'.turn = "model" /\ crew'.contract = crew.contract
          /\ crew'.clock = crew.clock /\ crew'.drained = crew.drained
          /\ crew'.approval = crew.approval /\ crew'.blocked = crew.blocked
          /\ crew'.restart = crew.restart /\ crew'.storage = crew.storage
          /\ crew'.reported = crew.reported /\ crew'.deleting = crew.deleting
          /\ crew'.terminal = crew.terminal /\ crew'.output = crew.output
          /\ crew'.repair = crew.repair /\ crew'.retry = crew.retry
          /\ crew'.message = crew.message
      BY <1>0, <2>3 DEF CrewRun
    <3>3. crew.clock \in 0..2
      BY <1>0, CrewFields
    <3> QED BY <1>0, <2>3, <3>1, <3>2, <3>3
         DEF CrewSound, TurnSound, OutputSound, ReportSound, Ended, Late, Json
  <2> QED BY <1>4, <2>1, <2>2, <2>3 DEF SubmitAdmittedRun
<1> QED BY <1>1, <1>2, <1>3, <1>4

\* A turn ends, is continued while there is time, and time passes.
LEMMA TurnsSound ==
  ASSUME CrewSound(crew),
         \/ \E status \in {"completed", "aborted", "error"},
               message \in {"none", "pending", "good", "bad"},
               blocked \in BOOLEAN : TurnEnds(status, message, blocked)
         \/ ContinueTurn \/ RunTimePasses \/ DecideApproval
         \/ \E message \in {"good", "bad"} : DecisionEnds(message)
  PROVE  CrewSound(crew')
<1>0. crew \in CrewRun /\ TurnSound(crew) /\ OutputSound(crew) /\ ReportSound(crew)
  BY DEF CrewSound
<1>1. ASSUME NEW status \in {"completed", "aborted", "error"},
             NEW message \in {"none", "pending", "good", "bad"},
             NEW blocked \in BOOLEAN, TurnEnds(status, message, blocked)
      PROVE  CrewSound(crew')
  <2> DEFINE branch == (crew.branch \/ message # "none")
             approval == (message = "pending")
  <2>0. branch \in BOOLEAN /\ approval \in BOOLEAN
    OBVIOUS
  <2>1. crew' = [crew EXCEPT !.turn = "callback", !.submission = status, !.message = message,
                             !.branch = branch, !.approval = approval, !.blocked = blocked]
    BY <1>1 DEF TurnEnds
  <2> HIDE DEF branch
  <2>2. crew' \in CrewRun
    <3> HIDE DEF approval
    <3> DEFINE m == [crew EXCEPT !.turn = "callback", !.submission = status, !.message = message]
    <3>1. m \in CrewRun
      BY <1>0, CrewWrites
    <3>2. crew' = [m EXCEPT !.branch = branch, !.approval = approval, !.blocked = blocked]
      BY <2>1
    <3> HIDE DEF m
    <3> QED BY <2>0, <3>1, <3>2, CrewWrites
  <2>3. /\ crew'.submission = status /\ crew'.turn = "callback" /\ crew'.message = message
        /\ crew'.approval = (message = "pending")
        /\ crew'.contract = crew.contract /\ crew'.clock = crew.clock
        /\ crew'.drained = crew.drained /\ crew'.restart = crew.restart
        /\ crew'.storage = crew.storage /\ crew'.reported = crew.reported
        /\ crew'.deleting = crew.deleting /\ crew'.terminal = crew.terminal
        /\ crew'.output = crew.output /\ crew'.repair = crew.repair /\ crew'.retry = crew.retry
    BY <1>0, <2>1 DEF CrewRun
  <2>4. /\ crew.turn = "model" /\ crew.submission # "completed"
        /\ message = "pending" => status = "completed"
    BY <1>0, <1>1 DEF TurnEnds, TurnSound
  <2> QED BY <1>0, <2>2, <2>3, <2>4
       DEF CrewSound, TurnSound, OutputSound, ReportSound, Ended, Late, Json
<1>2. CASE ContinueTurn
  <2>1. crew' \in CrewRun
    BY <1>0, <1>2, CrewWrites DEF ContinueTurn
  <2> QED BY <1>0, <1>2, <2>1, CrewFields
       DEF ContinueTurn, Live, CrewSound, CrewRun, TurnSound, OutputSound, ReportSound, Ended, Late, Json
<1>3. CASE RunTimePasses
  <2>1. crew.clock \in 0..1 /\ crew' = [crew EXCEPT !.clock = crew.clock + 1]
    BY <1>0, <1>3, CrewFields DEF RunTimePasses
  <2>2. crew' \in CrewRun
    <3>1. crew.clock + 1 \in 0..2
      BY <2>1
    <3> QED BY <1>0, <2>1, <3>1, CrewWrites
  <2> QED BY <1>0, <1>3, <2>1, <2>2
       DEF RunTimePasses, CrewSound, CrewRun, TurnSound, OutputSound, ReportSound, Ended, Late, Json
<1>4. CASE DecideApproval
  <2>1. crew' \in CrewRun
    BY <1>0, <1>4, CrewWrites DEF DecideApproval
  <2> QED BY <1>0, <1>4, <2>1
       DEF DecideApproval, CrewSound, CrewRun, TurnSound, OutputSound, ReportSound, Ended, Late, Json
<1>5. ASSUME NEW message \in {"good", "bad"}, DecisionEnds(message)
      PROVE  CrewSound(crew')
  <2>1. PICK v \in {"none", "good", "bad"} :
          crew' = [crew EXCEPT !.action = "none", !.approval = FALSE, !.message = v]
    BY <1>5 DEF DecisionEnds
  <2>2. crew' \in CrewRun
    BY <1>0, <2>1, CrewWrites
  <2> QED BY <1>0, <2>1, <2>2
       DEF CrewSound, CrewRun, TurnSound, OutputSound, ReportSound, Ended, Late, Json
<1> QED BY <1>1, <1>2, <1>3, <1>4, <1>5

\* What the callers of these do at last: forget a retry, or drain a turn that is over.
LEMMA LastWriteSound ==
  ASSUME NEW r, CrewSound(r)
  PROVE  /\ CrewSound([r EXCEPT !.retry = NoRetry])
         /\ r.turn = "none" /\ (Ended(r) \/ r.storage = "deleted") =>
              CrewSound([r EXCEPT !.drained = TRUE])
<1>1. r \in CrewRun
  BY DEF CrewSound
<1>2. CrewSound([r EXCEPT !.retry = NoRetry])
  <2>1. [r EXCEPT !.retry = NoRetry] \in CrewRun
    <3>1. NoRetry \in -1..MaxOutputRetries
      BY AdmittedRunsAssumption DEF NoRetry
    <3> QED BY <1>1, <3>1, CrewWrites
  <2> QED BY <1>1, <2>1
       DEF CrewSound, CrewRun, TurnSound, OutputSound, ReportSound, Ended, Late, Json
<1>3. ASSUME r.turn = "none", Ended(r) \/ r.storage = "deleted"
      PROVE  CrewSound([r EXCEPT !.drained = TRUE])
  <2>1. [r EXCEPT !.drained = TRUE] \in CrewRun
    BY <1>1, CrewWrites
  <2> QED BY <1>1, <1>3, <2>1
       DEF CrewSound, CrewRun, TurnSound, OutputSound, ReportSound, Ended, Late, Json
<1> QED BY <1>2, <1>3

\* A repair ends with an output, or finds that the deadline has decided.
LEMMA RepairedSound ==
  ASSUME NEW r, CrewSound(r), r.repair # "none", NEW s,
         \/ s = [r EXCEPT !.repair = "none"] /\ r.output = "invalid"
         \/ s = [r EXCEPT !.output = "invalid", !.repair = "none"]
         \/ s = [r EXCEPT !.output = "valid", !.repair = "none"] /\ r.output = "repairing"
  PROVE  /\ CrewSound(s) /\ Kept(r, s) /\ s.terminal = r.terminal
         /\ s.output = "valid" => s.submission = "completed"
         /\ s.output \in {"valid", "invalid"}
<1>1. r \in CrewRun
  BY DEF CrewSound
<1> DEFINE Wrote == /\ Kept(r, s) /\ s.terminal = r.terminal /\ s.repair = "none"
                    /\ s.retry = r.retry /\ s.message = r.message
                    /\ s.output \in {"valid", "invalid"}
                    /\ s.output = "valid" => r.output = "repairing"
<1>2. s \in CrewRun /\ Wrote
  <2>1. CASE s = [r EXCEPT !.repair = "none"] /\ r.output = "invalid"
    <3>1. s \in CrewRun
      BY <1>1, <2>1, CrewWrites
    <3>2. Wrote
      BY <1>1, <2>1 DEF CrewRun, Kept
    <3> QED BY <3>1, <3>2
  <2>2. CASE s = [r EXCEPT !.output = "invalid", !.repair = "none"]
    <3>1. s \in CrewRun
      BY <1>1, <2>2, CrewWrites
    <3>2. Wrote
      BY <1>1, <2>2 DEF CrewRun, Kept
    <3> QED BY <3>1, <3>2
  <2>3. CASE s = [r EXCEPT !.output = "valid", !.repair = "none"] /\ r.output = "repairing"
    <3>1. s \in CrewRun
      BY <1>1, <2>3, CrewWrites
    <3>2. Wrote
      BY <1>1, <2>3 DEF CrewRun, Kept
    <3> QED BY <3>1, <3>2
  <2> QED BY <2>1, <2>2, <2>3
<1>3. Wrote
  BY <1>2
<1>4. CrewSound(s)
  BY <1>2, <1>3 DEF CrewSound, Kept, TurnSound, OutputSound, ReportSound, Ended, Late, Json
<1> QED BY <1>3, <1>4 DEF CrewSound, OutputSound, Kept

\* onChatResponse settles the output and the status of the Run.
LEMMA ChatResponseSound ==
  ASSUME CrewSound(crew), ChatResponse
  PROVE  CrewSound(crew')
<1>0. crew \in CrewRun /\ TurnSound(crew) /\ OutputSound(crew) /\ ReportSound(crew)
  BY DEF CrewSound
<1>1. crew.turn = "callback" /\ Ended(crew)
  BY <1>0 DEF ChatResponse, TurnSound
<1>2. CASE ~Live(crew)
  <2>1. crew' = [crew EXCEPT !.turn = "none"]
    BY <1>2 DEF ChatResponse
  <2>2. crew' \in CrewRun
    BY <1>0, <2>1, CrewWrites
  <2> QED BY <1>0, <2>1, <2>2
       DEF CrewSound, CrewRun, TurnSound, OutputSound, ReportSound, Ended, Late, Json
<1>3. CASE Live(crew) /\ crew.approval
  BY <1>1, <1>3, DrainedSound DEF ChatResponse
<1>4. CASE /\ Live(crew) /\ ~crew.approval
           /\ crew.submission = "completed" /\ Json(crew) /\ crew.terminal # "cancelled"
  <2> DEFINE final == Finalized(crew, "callback")
  <2>1. /\ CrewSound(final) /\ Kept(crew, final) /\ Json(final) /\ Ended(final)
        /\ final.submission = "completed"
    BY <1>1, <1>4, FinalizedSound DEF Kept, Json, Ended, Live
  <2>2. crew' = IF final.repair = "callback" THEN final
                ELSE IF OutputPending(final) THEN Drained(ScheduleRetry(final, 0))
                ELSE Drained(Publish(final, "completed", final.output))
    BY <1>4 DEF ChatResponse
  <2>3. ~OutputPending(final) => final.output \in {"valid", "invalid"}
    BY <2>1, CrewFields DEF CrewSound, OutputPending
  <2> HIDE DEF final
  <2>4. CrewSound(Drained(ScheduleRetry(final, 0)))
    <3>1. CrewSound(ScheduleRetry(final, 0)) /\ Kept(final, ScheduleRetry(final, 0))
      BY <2>1, RetrySound
    <3> QED BY <2>1, <3>1, DrainedSound DEF Kept, Ended
  <2>5. ASSUME ~OutputPending(final)
        PROVE  CrewSound(Drained(Publish(final, "completed", final.output)))
    <3>1. final.terminal = "none" /\ final.reported /\ ~final.deleting => final.output # "invalid"
      BY <2>1 DEF CrewSound, ReportSound, Json
    <3>2. /\ CrewSound(Publish(final, "completed", final.output))
          /\ Kept(final, Publish(final, "completed", final.output))
      BY <2>1, <2>3, <2>5, <3>1, PublishSound
    <3> QED BY <2>1, <3>2, DrainedSound DEF Kept, Ended
  <2> QED BY <2>1, <2>2, <2>4, <2>5
<1>5. CASE /\ Live(crew) /\ ~crew.approval
           /\ ~(crew.submission = "completed" /\ Json(crew) /\ crew.terminal # "cancelled")
  <2>1. crew' = Drained(Publish(crew, Framework(crew), "absent"))
    BY <1>5 DEF ChatResponse
  <2>2. /\ Framework(crew) \in {"completed", "cancelled", "error"}
        /\ Framework(crew) = "completed" => crew.submission = "completed"
    BY <1>1 DEF Framework, Ended
  <2>3. crew.terminal = "none" /\ crew.reported /\ ~crew.deleting => Framework(crew) = "completed"
    BY <1>0 DEF ReportSound, Framework
  <2>4. CASE crew.terminal # "cancelled"
    <3>1. Framework(crew) = "completed" => ~Json(crew)
      BY <1>5, <2>2, <2>4
    <3>2. /\ CrewSound(Publish(crew, Framework(crew), "absent"))
          /\ Kept(crew, Publish(crew, Framework(crew), "absent"))
      BY <2>2, <2>3, <3>1, PublishSound
    <3> QED BY <1>1, <2>1, <3>2, DrainedSound DEF Kept, Ended
  <2>5. CASE crew.terminal = "cancelled"
    <3>1. Publish(crew, Framework(crew), "absent") = DiscardBranch(crew)
      BY <2>5 DEF Publish, CommitTerminal
    <3>2. /\ CrewSound(Publish(crew, Framework(crew), "absent"))
          /\ Kept(crew, Publish(crew, Framework(crew), "absent"))
      BY <2>5, <3>1, DiscardSound
    <3> QED BY <1>1, <2>1, <3>2, DrainedSound DEF Kept, Ended
  <2> QED BY <2>4, <2>5
<1> QED BY <1>2, <1>3, <1>4, <1>5

\* A scheduled retry finalises the output once more.
LEMMA RetryOutputSound ==
  ASSUME CrewSound(crew), RetryStructuredOutput
  PROVE  CrewSound(crew')
<1> DEFINE final == Finalized(crew, "retry")
<1>0. crew \in CrewRun /\ OutputSound(crew) /\ crew.retry # NoRetry /\ Json(crew)
  BY DEF CrewSound, RetryStructuredOutput, OutputSound
<1>1. CASE crew' = [crew EXCEPT !.retry = NoRetry]
  BY <1>1, LastWriteSound
<1>2. CASE Live(crew) /\ crew.submission = "completed"
           /\ crew' = IF final.repair = "retry" THEN final
                      ELSE IF OutputPending(final) THEN ScheduleRetry(final, crew.retry + 1)
                      ELSE [Publish(final, "completed", final.output) EXCEPT !.retry = NoRetry]
  <2>1. /\ CrewSound(final) /\ Kept(crew, final) /\ Json(final) /\ final.submission = "completed"
    BY <1>0, <1>2, FinalizedSound DEF Kept, Json, Live
  <2>2. crew.retry + 1 \in Nat
    BY <1>0, CrewFields, AdmittedRunsAssumption
  <2>3. ~OutputPending(final) => final.output \in {"valid", "invalid"}
    BY <2>1, CrewFields DEF CrewSound, OutputPending
  <2> HIDE DEF final
  <2>4. CrewSound(ScheduleRetry(final, crew.retry + 1))
    BY <2>1, <2>2, RetrySound
  <2>5. ASSUME ~OutputPending(final)
        PROVE  CrewSound([Publish(final, "completed", final.output) EXCEPT !.retry = NoRetry])
    <3>1. final.terminal = "none" /\ final.reported /\ ~final.deleting => final.output # "invalid"
      BY <2>1 DEF CrewSound, ReportSound, Json
    <3>2. CrewSound(Publish(final, "completed", final.output))
      BY <2>1, <2>3, <2>5, <3>1, PublishSound
    <3> QED BY <3>2, LastWriteSound
  <2> QED BY <1>2, <2>1, <2>4, <2>5
<1> QED BY <1>1, <1>2 DEF RetryStructuredOutput

\* A repair ends and its caller goes on.
LEMMA RepairEndsSound ==
  ASSUME CrewSound(crew), NEW ok \in BOOLEAN, RepairEnds(ok)
  PROVE  CrewSound(crew')
<1> DEFINE repaired == [(IF ~ok THEN [crew EXCEPT !.output = "invalid"]
                         ELSE IF Late(crew) THEN DeadlineFailure(crew)
                         ELSE CommitValid(crew, "repairing")) EXCEPT !.repair = "none"]
           published == Publish(repaired, "completed", repaired.output)
<1>0. crew \in CrewRun /\ TurnSound(crew) /\ OutputSound(crew) /\ crew.repair # "none" /\ Json(crew)
  BY DEF CrewSound, RepairEnds, OutputSound
<1>1. \/ repaired = [crew EXCEPT !.repair = "none"] /\ crew.output = "invalid"
      \/ repaired = [crew EXCEPT !.output = "invalid", !.repair = "none"]
      \/ repaired = [crew EXCEPT !.output = "valid", !.repair = "none"] /\ crew.output = "repairing"
  BY <1>0 DEF OutputSound, DeadlineFailure, CommitValid, Committed
<1>2. crew' = CASE crew.repair = "callback" -> Drained(published)
                [] crew.repair = "retry" -> [published EXCEPT !.retry = NoRetry]
                [] crew.repair = "recover" -> [published EXCEPT !.drained = TRUE]
                [] crew.repair = "inspect" -> repaired
  BY DEF RepairEnds
<1> HIDE DEF repaired
<1>3. /\ CrewSound(repaired) /\ Kept(crew, repaired)
      /\ repaired.output = "valid" => repaired.submission = "completed"
      /\ repaired.output \in {"valid", "invalid"} /\ repaired.terminal = crew.terminal
  BY <1>0, <1>1, RepairedSound
<1>4. repaired.terminal = "none" /\ repaired.reported /\ ~repaired.deleting =>
        repaired.output # "invalid"
  BY <1>0, <1>3 DEF CrewSound, ReportSound, OutputSound, Kept, Json
<1>5. CrewSound(published) /\ Kept(repaired, published)
  BY <1>3, <1>4, PublishSound
<1> HIDE DEF published
<1>6. /\ Ended(published) \/ published.storage = "deleted"
      /\ crew.repair = "recover" => published.turn = "none"
  BY <1>0, <1>3, <1>5 DEF OutputSound, TurnSound, Kept, Ended
<1>7. crew.repair \in {"callback", "retry", "recover", "inspect"}
  BY <1>0, CrewFields
<1> QED BY <1>2, <1>3, <1>5, <1>6, <1>7, DrainedSound, LastWriteSound

\* A submission without an answer is aborted, a pending approval is dropped.
LEMMA StoppedSound ==
  ASSUME NEW r, CrewSound(r)
  PROVE  /\ ~Ended(r) => /\ CrewSound(Aborted(r)) /\ Ended(Aborted(r))
                         /\ Aborted(r).turn = r.turn /\ Aborted(r).terminal = r.terminal
                         /\ Aborted(r).clock = r.clock /\ Aborted(r).storage = r.storage
         /\ /\ CrewSound([r EXCEPT !.approval = FALSE]) /\ ~[r EXCEPT !.approval = FALSE].approval
            /\ [r EXCEPT !.approval = FALSE].terminal = r.terminal
            /\ [r EXCEPT !.approval = FALSE].contract = r.contract
            /\ [r EXCEPT !.approval = FALSE].submission = r.submission
            /\ [r EXCEPT !.approval = FALSE].output = r.output
<1>1. r \in CrewRun
  BY DEF CrewSound
<1>2. ASSUME ~Ended(r)
      PROVE  /\ CrewSound(Aborted(r)) /\ Ended(Aborted(r))
             /\ Aborted(r).turn = r.turn /\ Aborted(r).terminal = r.terminal
             /\ Aborted(r).clock = r.clock /\ Aborted(r).storage = r.storage
  <2> DEFINE s == Aborted(r)
  <2>1. s \in CrewRun
    BY <1>1, CrewWrites DEF Aborted
  <2>2. /\ s.submission = "aborted" /\ s.turn = r.turn /\ s.drained = r.drained
        /\ s.contract = r.contract /\ s.clock = r.clock /\ s.approval = r.approval
        /\ s.restart = r.restart /\ s.storage = r.storage /\ s.reported = r.reported
        /\ s.deleting = r.deleting /\ s.terminal = r.terminal /\ s.output = r.output
        /\ s.repair = r.repair /\ s.retry = r.retry /\ s.message = r.message
    BY <1>1 DEF CrewRun, Aborted
  <2> HIDE DEF s
  <2>3. CrewSound(s)
    BY <1>2, <2>1, <2>2 DEF CrewSound, TurnSound, OutputSound, ReportSound, Ended, Late, Json
  <2> QED BY <2>2, <2>3 DEF Ended, s
<1>3. /\ CrewSound([r EXCEPT !.approval = FALSE]) /\ ~[r EXCEPT !.approval = FALSE].approval
      /\ [r EXCEPT !.approval = FALSE].terminal = r.terminal
      /\ [r EXCEPT !.approval = FALSE].contract = r.contract
      /\ [r EXCEPT !.approval = FALSE].submission = r.submission
      /\ [r EXCEPT !.approval = FALSE].output = r.output
  <2>1. [r EXCEPT !.approval = FALSE] \in CrewRun
    BY <1>1, CrewWrites
  <2> QED BY <1>1, <2>1
       DEF CrewSound, CrewRun, TurnSound, OutputSound, ReportSound, Ended, Late, Json
<1> QED BY <1>2, <1>3

\* The owner's inspection reports what can only be committed as it was reported.
LEMMA InspectionSound ==
  ASSUME CrewSound(crew), InspectAdmittedRun \/ InspectSessionRunState
  PROVE  CrewSound(crew')
<1>0. crew \in CrewRun /\ ReportSound(crew) /\ OutputSound(crew)
  BY DEF CrewSound
<1>1. CASE InspectAdmittedRun
  <2> DEFINE final == IF Json(crew) /\ crew.terminal # "cancelled" /\ crew.submission # "none"
                      THEN Finalized(crew, "inspect") ELSE crew
             pending == IF Json(crew) THEN OutputPending(final) ELSE crew.message = "pending"
             done == \/ final.terminal = "completed"
                     \/ /\ final.terminal = "none" /\ final.submission = "completed" /\ ~pending
                        /\ ~crew.blocked /\ final.output # "invalid"
             told == (final.reported \/ done)
  <2>1. CrewSound(final) /\ Kept(crew, final) /\ final.message = crew.message
    BY <1>1, FinalizedSound DEF InspectAdmittedRun, Live, Kept
  <2>2. crew' = final \/ crew' = [final EXCEPT !.reported = told]
    BY <1>1 DEF InspectAdmittedRun
  <2>3. ASSUME done
        PROVE  /\ final.submission = "completed"
               /\ final.terminal # "completed" =>
                    /\ final.terminal = "none" /\ ~final.blocked /\ ~final.approval
                    /\ final.message # "pending" /\ (Json(final) => final.output = "valid")
    <3>1. Json(final) <=> Json(crew)
      BY <2>1 DEF Kept, Json
    <3>2. final \in CrewRun /\ OutputSound(final)
      BY <2>1 DEF CrewSound
    <3>3. final.output \in {"absent", "repairing", "valid", "invalid"}
      BY <3>2, CrewFields
    <3> HIDE DEF final
    <3>4. final.terminal # "completed" => /\ Json(final) => final.output = "valid"
                                          /\ final.message # "pending"
      BY <2>1, <2>3, <3>1, <3>2, <3>3 DEF OutputPending, OutputSound
    <3> QED BY <2>1, <2>3, <3>2, <3>4 DEF OutputSound, Kept
  <2>4. told \in BOOLEAN
    OBVIOUS
  <2> HIDE DEF final, done
  <2>5. CrewSound([final EXCEPT !.reported = told])
    <3> DEFINE s == [final EXCEPT !.reported = told]
    <3>1. final \in CrewRun
      BY <2>1 DEF CrewSound
    <3>2. s \in CrewRun
      <4> HIDE DEF told
      <4> QED BY <2>4, <3>1, CrewWrites
    <3>3. /\ s.reported = told /\ s.submission = final.submission /\ s.turn = final.turn
          /\ s.drained = final.drained /\ s.blocked = final.blocked
          /\ s.contract = final.contract /\ s.clock = final.clock /\ s.approval = final.approval
          /\ s.restart = final.restart /\ s.storage = final.storage
          /\ s.deleting = final.deleting /\ s.terminal = final.terminal
          /\ s.output = final.output /\ s.repair = final.repair /\ s.retry = final.retry
          /\ s.message = final.message
      BY <3>1 DEF CrewRun
    <3> HIDE DEF s
    <3>4. TurnSound(s) /\ OutputSound(s)
      BY <2>1, <3>3 DEF CrewSound, TurnSound, OutputSound, Ended, Late, Json
    <3>5. ReportSound(s)
      <4>1. CASE done
        BY <2>3, <3>3, <4>1 DEF ReportSound, Json
      <4>2. CASE ~done
        BY <2>1, <3>3, <4>2 DEF CrewSound, ReportSound, Json
      <4> QED BY <4>1, <4>2
    <3> QED BY <3>2, <3>4, <3>5 DEF CrewSound, s
  <2> QED BY <2>1, <2>2, <2>5
<1>2. CASE InspectSessionRunState
  <2>1. \/ crew' = crew
        \/ crew' = DiscardBranch(crew) /\ crew.terminal = "cancelled"
        \/ crew' = Finalized(crew, "inspect") /\ Json(crew) /\ crew.storage # "deleted"
    BY <1>2 DEF InspectSessionRunState, Live
  <2> QED BY <2>1, DiscardSound, FinalizedSound
<1> QED BY <1>1, <1>2

\* A cancellation is committed only over a Run that has not ended or waits.
LEMMA CancelSound ==
  ASSUME CrewSound(crew), NEW aborts \in BOOLEAN, CancelAdmittedRun(aborts)
  PROVE  CrewSound(crew')
<1> DEFINE fenced == CommitTerminal(crew, "cancelled")
           silenced == [fenced EXCEPT !.approval = FALSE]
<1>1. ~(crew.reported /\ ~crew.deleting /\ crew.terminal = "none")
  BY DEF CrewSound, ReportSound, CancelAdmittedRun, Cancellable, Waiting, Ended
<1>2. CrewSound(fenced) /\ Kept(crew, fenced)
  BY <1>1, CommitTerminalSound DEF Terminals
<1>3. crew' = IF fenced.terminal # "cancelled" THEN crew
              ELSE IF crew.submission = "none"
                THEN IF Late(crew) THEN DiscardBranch(silenced) ELSE silenced
              ELSE IF Waiting(crew) THEN DiscardBranch(silenced)
              ELSE IF aborts THEN DiscardBranch(Aborted(silenced))
              ELSE silenced
  BY DEF CancelAdmittedRun
<1>4. Cancellable(crew)
  BY DEF CancelAdmittedRun
<1> HIDE DEF fenced
<1>5. /\ CrewSound(silenced) /\ silenced.terminal = fenced.terminal /\ ~silenced.approval
      /\ silenced.submission = crew.submission
  BY <1>2, StoppedSound DEF Kept
<1> HIDE DEF silenced
<1>6. CrewSound(DiscardBranch(silenced))
  BY <1>5, DiscardSound
<1>7. ASSUME ~Ended(crew), fenced.terminal = "cancelled"
      PROVE  CrewSound(DiscardBranch(Aborted(silenced)))
  <2>1. CrewSound(Aborted(silenced)) /\ Aborted(silenced).terminal = "cancelled"
    BY <1>5, <1>7, StoppedSound DEF Ended
  <2> QED BY <2>1, DiscardSound
<1> QED BY <1>3, <1>4, <1>5, <1>6, <1>7 DEF Cancellable

\* The deadline commits a status, of what was reported the same one.
LEMMA ExpireSound ==
  ASSUME CrewSound(crew), NEW aborts \in BOOLEAN, ExpireAdmittedRun(aborts)
  PROVE  CrewSound(crew')
<1>0. crew \in CrewRun /\ ReportSound(crew)
  BY DEF CrewSound
<1>1. CASE crew.terminal # "none"
  BY <1>1, DiscardSound DEF ExpireAdmittedRun
<1>2. CASE crew.terminal = "none" /\ crew.submission = "none"
  <2>1. crew' = CommitTerminal(crew, "failed")
    BY <1>2 DEF ExpireAdmittedRun
  <2> QED BY <1>0, <1>2, <2>1, CommitTerminalSound DEF ReportSound, Terminals
<1>3. CASE crew.terminal = "none" /\ Ended(crew)
  <2> DEFINE silenced == [crew EXCEPT !.approval = FALSE]
             final == IF Waiting(crew) \/ crew.submission # "completed" THEN silenced
                      ELSE DeadlineFailure(silenced)
  <2>1. crew' = ExpireEnded(crew)
    BY <1>3 DEF ExpireAdmittedRun, Ended
  <2>2. /\ CrewSound(silenced) /\ silenced.terminal = "none" /\ silenced.contract = crew.contract
        /\ silenced.submission = crew.submission /\ silenced.output = crew.output
    BY <1>3, StoppedSound
  <2>3. /\ silenced.reported = crew.reported /\ silenced.deleting = crew.deleting
        /\ silenced.storage = crew.storage
    BY <1>0 DEF CrewRun
  <2>4. /\ Framework(crew) \in {"completed", "cancelled", "error"}
        /\ Framework(crew) = "completed" <=> crew.submission = "completed"
    BY <1>3 DEF Framework, Ended
  <2>5. CASE ~Json(crew)
    <3> DEFINE framework == IF Waiting(crew) \/ crew.message = "pending" THEN "cancelled"
                            ELSE Framework(crew)
    <3>1. crew' = Publish(silenced, framework, "absent")
      BY <2>1, <2>5 DEF ExpireEnded
    <3>2. /\ framework \in {"completed", "cancelled", "error"}
          /\ framework = "completed" => silenced.submission = "completed" /\ ~Json(silenced)
      BY <2>2, <2>4, <2>5 DEF Json
    <3>3. silenced.reported /\ ~silenced.deleting => framework = "completed"
      BY <1>0, <1>3, <2>3, <2>4 DEF ReportSound, Waiting
    <3> HIDE DEF framework, silenced
    <3> QED BY <2>2, <3>1, <3>2, <3>3, PublishSound
  <2>6. CASE Json(crew) /\ (Waiting(crew) \/ crew.submission # "completed")
    <3> DEFINE framework == IF Waiting(crew) THEN "cancelled" ELSE Framework(crew)
    <3>1. crew' = Publish(silenced, framework, "absent")
      BY <2>1, <2>6 DEF ExpireEnded
    <3>2. framework \in {"cancelled", "error"}
      BY <2>4, <2>6
    <3>3. ~(silenced.reported /\ ~silenced.deleting)
      BY <1>0, <1>3, <2>3, <2>6 DEF ReportSound, Waiting
    <3> HIDE DEF framework, silenced
    <3> QED BY <2>2, <3>1, <3>2, <3>3, PublishSound
  <2>7. CASE Json(crew) /\ ~Waiting(crew) /\ crew.submission = "completed"
    <3> DEFINE s == DeadlineFailure(silenced)
    <3>1. crew' = Publish(s, "completed", s.output)
      BY <2>1, <2>4, <2>7 DEF ExpireEnded, Framework
    <3>2. CASE Committed(silenced)
      <4>1. s = silenced /\ s.output \in {"valid", "invalid"}
        BY <3>2 DEF DeadlineFailure, Committed
      <4>2. silenced.reported /\ ~silenced.deleting => silenced.output = "valid"
        BY <1>0, <1>3, <2>2, <2>3, <2>7 DEF ReportSound
      <4> HIDE DEF s, silenced
      <4> QED BY <2>2, <2>7, <3>1, <4>1, <4>2, PublishSound DEF Json
    <3>3. CASE ~Committed(silenced)
      <4>1. s = [silenced EXCEPT !.output = "invalid"] /\ crew.output # "valid"
        BY <2>2, <3>3 DEF DeadlineFailure, Committed
      <4>2. ~(silenced.reported /\ ~silenced.deleting)
        BY <1>0, <1>3, <2>3, <2>7, <4>1 DEF ReportSound
      <4> HIDE DEF s, silenced
      <4>3. silenced \in CrewRun /\ s \in CrewRun
        BY <2>2, <4>1, CrewWrites DEF CrewSound
      <4>4. /\ Kept(silenced, s) /\ s.output = "invalid" /\ s.repair = silenced.repair
            /\ s.retry = silenced.retry /\ s.message = silenced.message
            /\ s.terminal = silenced.terminal
        BY <4>1, <4>3 DEF CrewRun, Kept
      <4>5. CrewSound(s)
        BY <2>2, <2>7, <4>2, <4>3, <4>4
           DEF CrewSound, Kept, TurnSound, OutputSound, ReportSound, Ended, Late, Json
      <4> QED BY <3>1, <4>2, <4>4, <4>5, PublishSound DEF Kept
    <3> QED BY <3>2, <3>3
  <2> QED BY <2>5, <2>6, <2>7
<1>4. CASE crew.terminal = "none" /\ ~Ended(crew) /\ crew.submission # "none"
  <2> DEFINE fenced == CommitTerminal(crew, "cancelled")
  <2>1. crew' = DiscardBranch(IF aborts THEN Aborted(fenced) ELSE fenced)
    BY <1>4 DEF ExpireAdmittedRun
  <2>2. CrewSound(fenced) /\ Kept(crew, fenced) /\ fenced.terminal = "cancelled"
    BY <1>0, <1>4, CommitTerminalSound DEF ReportSound, Ended, Terminals
  <2> HIDE DEF fenced
  <2>3. ~Ended(fenced)
    BY <1>4, <2>2 DEF Kept, Ended
  <2>4. CrewSound(Aborted(fenced)) /\ Aborted(fenced).terminal = "cancelled"
    BY <2>2, <2>3, StoppedSound
  <2> QED BY <2>1, <2>2, <2>4, DiscardSound
<1> QED BY <1>1, <1>2, <1>3, <1>4

\* A record that has nothing in it but what is in memory and the messages.
LEMMA FreshSound ==
  ASSUME NEW contract \in Contracts, NEW clock \in 0..2
  PROVE  /\ CrewSound(Fresh(contract, clock))
         /\ Fresh(contract, clock) \in CrewRun
<1>1. NoRetry \in -1..MaxOutputRetries
  BY AdmittedRunsAssumption DEF NoRetry
<1>2. Fresh(contract, clock) \in CrewRun
  BY <1>1 DEF Fresh, CrewRun
<1> QED BY <1>2 DEF Fresh, CrewSound, TurnSound, OutputSound, ReportSound, Ended, Late, Json

\* The record is cleaned and the storage deleted after the turn is over.
LEMMA RemovalSound ==
  ASSUME CrewSound(crew), CleanupAdmittedRun \/ DeleteSessionStorage
  PROVE  CrewSound(crew')
<1>0. /\ crew \in CrewRun /\ TurnSound(crew) /\ OutputSound(crew)
      /\ crew.contract \in Contracts /\ crew.clock \in 0..2
  BY CrewFields DEF CrewSound
<1>1. CASE CleanupAdmittedRun
  <2> DEFINE f == Fresh(crew.contract, 2)
             m == [f EXCEPT !.record = "cleaned", !.branch = crew.branch, !.message = crew.message]
  <2>0. f \in CrewRun
    BY <1>0, FreshSound
  <2>1. /\ f.contract = crew.contract /\ f.clock = 2 /\ f.submission = "none"
        /\ ~f.approval /\ ~f.drained /\ f.restart = "none" /\ ~f.reported /\ ~f.deleting
        /\ f.terminal = "none" /\ f.output = "absent" /\ f.repair = "none"
        /\ f.retry = NoRetry
    BY DEF Fresh
  <2>2. crew' = [m EXCEPT !.turn = crew.turn, !.action = crew.action, !.storage = crew.storage,
                          !.accepting = crew.accepting]
    BY <1>1 DEF CleanupAdmittedRun
  <2> HIDE DEF f
  <2>3. m \in CrewRun
    BY <1>0, <2>0, CrewFields, CrewWrites
  <2>4. /\ m.contract = f.contract /\ m.clock = f.clock /\ m.submission = f.submission
        /\ m.approval = f.approval /\ m.drained = f.drained /\ m.restart = f.restart
        /\ m.reported = f.reported /\ m.deleting = f.deleting /\ m.terminal = f.terminal
        /\ m.output = f.output /\ m.repair = f.repair /\ m.retry = f.retry
    BY <2>0 DEF CrewRun
  <2> HIDE DEF m
  <2>5. crew' \in CrewRun
    BY <1>0, <2>2, <2>3, CrewFields, CrewWrites
  <2>6. /\ crew'.contract = m.contract /\ crew'.clock = m.clock /\ crew'.submission = m.submission
        /\ crew'.approval = m.approval /\ crew'.drained = m.drained /\ crew'.restart = m.restart
        /\ crew'.reported = m.reported /\ crew'.deleting = m.deleting
        /\ crew'.terminal = m.terminal /\ crew'.output = m.output /\ crew'.repair = m.repair
        /\ crew'.retry = m.retry /\ crew'.turn = crew.turn /\ crew'.storage = crew.storage
    BY <2>2, <2>3 DEF CrewRun
  <2>7. crew.turn = "none"
    BY <1>0, <1>1 DEF CleanupAdmittedRun, TurnSound
  <2> QED BY <2>1, <2>4, <2>5, <2>6, <2>7
       DEF CrewSound, TurnSound, OutputSound, ReportSound, Ended, Late, Json
<1>2. CASE DeleteSessionStorage
  <2> DEFINE f == Fresh(crew.contract, crew.clock)
             m == [f EXCEPT !.storage = "deleted", !.turn = crew.turn]
  <2>0. f \in CrewRun
    BY <1>0, FreshSound
  <2>1. /\ f.contract = crew.contract /\ f.clock = crew.clock
        /\ f.submission = "none"
        /\ ~f.approval /\ ~f.drained /\ f.restart = "none" /\ ~f.reported /\ ~f.deleting
        /\ f.terminal = "none" /\ f.output = "absent" /\ f.retry = NoRetry
    BY DEF Fresh
  <2>2. crew' = [m EXCEPT !.action = crew.action, !.repair = crew.repair,
                          !.accepting = crew.accepting]
    BY <1>2 DEF DeleteSessionStorage
  <2> HIDE DEF f
  <2>3. m \in CrewRun
    BY <1>0, <2>0, CrewFields, CrewWrites
  <2>4. /\ m.contract = f.contract /\ m.clock = f.clock /\ m.submission = f.submission
        /\ m.approval = f.approval /\ m.drained = f.drained /\ m.restart = f.restart
        /\ m.reported = f.reported /\ m.deleting = f.deleting /\ m.terminal = f.terminal
        /\ m.output = f.output /\ m.retry = f.retry /\ m.turn = crew.turn
        /\ m.storage = "deleted"
    BY <2>0 DEF CrewRun
  <2> HIDE DEF m
  <2>5. crew' \in CrewRun
    BY <1>0, <2>2, <2>3, CrewFields, CrewWrites
  <2>6. /\ crew'.contract = m.contract /\ crew'.clock = m.clock /\ crew'.submission = m.submission
        /\ crew'.approval = m.approval /\ crew'.drained = m.drained /\ crew'.restart = m.restart
        /\ crew'.reported = m.reported /\ crew'.deleting = m.deleting
        /\ crew'.terminal = m.terminal /\ crew'.output = m.output /\ crew'.repair = crew.repair
        /\ crew'.retry = m.retry /\ crew'.turn = m.turn /\ crew'.storage = m.storage
    BY <2>2, <2>3 DEF CrewRun
  <2>7. crew.turn = "none" /\ Late(crew)
    BY <1>0, <1>2 DEF DeleteSessionStorage, TurnSound
  <2> QED BY <1>0, <2>1, <2>4, <2>5, <2>6, <2>7
       DEF CrewSound, TurnSound, OutputSound, ReportSound, Ended, Late, Json
<1> QED BY <1>1, <1>2

\* A restart of the isolate leaves what is stored.
LEMMA RestartedSound ==
  ASSUME NEW r, CrewSound(r)
  PROVE  /\ CrewSound(Restarted(r)) /\ Restarted(r).turn = "none" /\ Restarted(r).repair = "none"
         /\ Restarted(r).submission = r.submission /\ Restarted(r).contract = r.contract
         /\ Restarted(r).storage = r.storage
<1> DEFINE restart == IF r.restart = "this" THEN "earlier" ELSE r.restart
           m == [r EXCEPT !.turn = "none", !.action = "none", !.repair = "none"]
           s == Restarted(r)
<1>1. r \in CrewRun /\ restart \in {"none", "this", "earlier"}
  BY CrewFields DEF CrewSound
<1>2. s = [m EXCEPT !.accepting = "none", !.restart = restart]
  BY DEF Restarted
<1>3. m \in CrewRun
  BY <1>1, CrewWrites
<1> HIDE DEF restart, s
<1>4. s \in CrewRun
  <2> HIDE DEF m
  <2> QED BY <1>1, <1>2, <1>3, CrewWrites
<1>5. /\ m.turn = "none" /\ m.repair = "none" /\ m.contract = r.contract /\ m.clock = r.clock
      /\ m.submission = r.submission /\ m.approval = r.approval /\ m.drained = r.drained
      /\ m.blocked = r.blocked /\ m.storage = r.storage /\ m.reported = r.reported
      /\ m.deleting = r.deleting /\ m.terminal = r.terminal /\ m.output = r.output
      /\ m.retry = r.retry /\ m.message = r.message
  BY <1>1 DEF CrewRun
<1> HIDE DEF m
<1>6. /\ s.turn = m.turn /\ s.repair = m.repair /\ s.contract = m.contract /\ s.clock = m.clock
      /\ s.submission = m.submission /\ s.approval = m.approval /\ s.drained = m.drained
      /\ s.blocked = m.blocked /\ s.storage = m.storage /\ s.reported = m.reported
      /\ s.deleting = m.deleting /\ s.terminal = m.terminal /\ s.output = m.output
      /\ s.retry = m.retry /\ s.message = m.message /\ s.restart = restart
  BY <1>2, <1>3 DEF CrewRun
<1>7. CrewSound(s)
  BY <1>4, <1>5, <1>6
     DEF CrewSound, TurnSound, OutputSound, ReportSound, Ended, Late, Json, restart
<1> QED BY <1>5, <1>6, <1>7 DEF s

\* The session settles its Run before it is deleted: the storage is given up only
\* over a turn that is drained, or that a proven restart has ended.
LEMMA SettleSound ==
  ASSUME CrewSound(crew), NEW aborts \in BOOLEAN, SettleExpiredSessionRun(aborts)
  PROVE  CrewSound(crew')
<1> DEFINE terminated == CommitTerminal(crew, "cancelled")
           fenced == [terminated EXCEPT !.deleting = TRUE]
           tried == IF ~Ended(crew) /\ aborts /\ crew.submission # "none" THEN Aborted(fenced)
                    ELSE fenced
           settled == [tried EXCEPT !.drained = TRUE, !.storage = "settled"]
<1>0. crew \in CrewRun /\ TurnSound(crew) /\ OutputSound(crew) /\ Late(crew)
  BY DEF CrewSound, SettleExpiredSessionRun
<1>1. crew' = IF ~Ended(tried) THEN tried
              ELSE IF ~crew.drained /\ ~RestartProven(crew)
                THEN IF crew.restart = "none" THEN [tried EXCEPT !.restart = "this"]
                     ELSE Restarted(tried)
              ELSE IF tried.terminal = "cancelled"
                THEN DiscardBranch([settled EXCEPT !.approval = FALSE])
              ELSE settled
  BY DEF SettleExpiredSessionRun
<1>2. /\ CrewSound(fenced) /\ fenced.turn = crew.turn /\ fenced.clock = crew.clock
      /\ fenced.submission = crew.submission /\ fenced.storage = crew.storage
  <2>1. PICK status \in {"cancelled", crew.terminal} :
          /\ terminated = [crew EXCEPT !.terminal = status] \/ terminated = crew
          /\ terminated.terminal = status
          /\ status = "completed" => crew.terminal = "completed"
          /\ crew.approval /\ crew.message # "pending" => status = "cancelled"
    BY <1>0 DEF CommitTerminal, CrewRun, OutputSound
  <2>2. terminated \in CrewRun
    BY <1>0, CrewWrites DEF CommitTerminal, Terminals
  <2>3. /\ Kept(crew, terminated) /\ terminated.output = crew.output
        /\ terminated.repair = crew.repair /\ terminated.retry = crew.retry
        /\ terminated.message = crew.message
    BY <1>0 DEF CommitTerminal, CrewRun, Kept
  <2> HIDE DEF terminated
  <2>4. fenced \in CrewRun
    BY <2>2, CrewWrites
  <2>5. /\ fenced.contract = terminated.contract /\ fenced.clock = terminated.clock
        /\ fenced.submission = terminated.submission /\ fenced.turn = terminated.turn
        /\ fenced.approval = terminated.approval /\ fenced.drained = terminated.drained
        /\ fenced.restart = terminated.restart /\ fenced.storage = terminated.storage
        /\ fenced.deleting /\ fenced.output = terminated.output
        /\ fenced.repair = terminated.repair /\ fenced.retry = terminated.retry
        /\ fenced.message = terminated.message /\ fenced.terminal = terminated.terminal
    BY <2>2 DEF CrewRun
  <2> HIDE DEF fenced
  <2>6. CrewSound(fenced)
    BY <1>0, <2>1, <2>3, <2>4, <2>5
       DEF CrewSound, Kept, TurnSound, OutputSound, ReportSound, Ended, Late, Json
  <2> QED BY <2>3, <2>5, <2>6 DEF Kept
<1> HIDE DEF fenced
<1>3. /\ CrewSound(tried) /\ tried.turn = crew.turn /\ tried.clock = crew.clock
      /\ tried.storage = crew.storage
  BY <1>2, StoppedSound DEF Ended
<1> HIDE DEF tried
<1>4. tried \in CrewRun
  BY <1>3 DEF CrewSound
<1>5. CrewSound([tried EXCEPT !.restart = "this"])
  <2>1. [tried EXCEPT !.restart = "this"] \in CrewRun
    BY <1>4, CrewWrites
  <2> QED BY <1>0, <1>3, <1>4, <2>1
       DEF CrewSound, CrewRun, TurnSound, OutputSound, ReportSound, Ended, Late, Json
<1>6. CrewSound(Restarted(tried))
  BY <1>3, RestartedSound
<1>7. ASSUME Ended(tried), crew.drained \/ RestartProven(crew)
      PROVE  CrewSound(settled)
  <2>1. tried.turn = "none" /\ Late(tried)
    BY <1>0, <1>3, <1>7 DEF TurnSound, RestartProven, Late
  <2>2. settled \in CrewRun
    BY <1>4, CrewWrites
  <2>3. /\ settled.contract = tried.contract /\ settled.clock = tried.clock
        /\ settled.submission = tried.submission /\ settled.turn = tried.turn
        /\ settled.approval = tried.approval /\ settled.drained /\ settled.storage = "settled"
        /\ settled.restart = tried.restart /\ settled.blocked = tried.blocked
        /\ settled.deleting = tried.deleting /\ settled.output = tried.output
        /\ settled.repair = tried.repair /\ settled.retry = tried.retry
        /\ settled.message = tried.message /\ settled.terminal = tried.terminal
        /\ settled.reported = tried.reported
    BY <1>4 DEF CrewRun
  <2> HIDE DEF settled
  <2>4. TurnSound(settled)
    BY <1>3, <1>7, <2>1, <2>3 DEF CrewSound, TurnSound, Ended, Late
  <2>5. OutputSound(settled)
    <3>1. OutputSound(tried) /\ tried.storage # "deleted"
      BY <1>3 DEF CrewSound, SettleExpiredSessionRun, Live
    <3> QED BY <2>3, <3>1 DEF OutputSound, Json
  <2>6. ReportSound(settled)
    BY <1>3, <2>3 DEF CrewSound, ReportSound, Json
  <2> QED BY <2>2, <2>4, <2>5, <2>6 DEF CrewSound
<1> HIDE DEF settled
<1>8. ASSUME CrewSound(settled)
      PROVE  CrewSound(DiscardBranch([settled EXCEPT !.approval = FALSE]))
  BY <1>8, StoppedSound, DiscardSound
<1> QED BY <1>1, <1>3, <1>5, <1>6, <1>7, <1>8


\* What a new isolate does first: it finalises an output and settles the Run.
LEMMA OnStartSound ==
  ASSUME NEW r, CrewSound(r), r.turn = "none"
  PROVE  CrewSound(OnStart(r))
<1> DEFINE final == Finalized(r, "recover")
           lastWritten(s) == IF Ended(s) THEN [s EXCEPT !.drained = TRUE] ELSE s
<1>1. ASSUME NEW s, CrewSound(s), s.turn = "none"
      PROVE  CrewSound(lastWritten(s))
  BY <1>1, LastWriteSound
<1>2. CASE ~Live(r) \/ ~Json(r) \/ r.submission # "completed" \/ r.approval
  <2>1. OnStart(r) = r \/ OnStart(r) = lastWritten(r)
    BY <1>2 DEF OnStart
  <2> QED BY <1>1, <2>1
<1>3. CASE Live(r) /\ Json(r) /\ r.submission = "completed" /\ ~r.approval
  <2>1. /\ CrewSound(final) /\ Kept(r, final) /\ Json(final) /\ final.submission = "completed"
        /\ final.turn = "none"
    BY <1>3, FinalizedSound DEF Kept, Json, Live
  <2>2. OnStart(r) = IF final.repair = "recover" THEN final
                     ELSE IF OutputPending(final) THEN lastWritten(ScheduleRetry(final, 0))
                     ELSE lastWritten(Publish(final, "completed", final.output))
    BY <1>3 DEF OnStart
  <2>3. ~OutputPending(final) => final.output \in {"valid", "invalid"}
    BY <2>1, CrewFields DEF CrewSound, OutputPending
  <2> HIDE DEF final, lastWritten
  <2>4. CrewSound(lastWritten(ScheduleRetry(final, 0)))
    <3>1. CrewSound(ScheduleRetry(final, 0)) /\ Kept(final, ScheduleRetry(final, 0))
      BY <2>1, RetrySound
    <3> QED BY <1>1, <2>1, <3>1 DEF Kept
  <2>5. ASSUME ~OutputPending(final)
        PROVE  CrewSound(lastWritten(Publish(final, "completed", final.output)))
    <3>1. final.terminal = "none" /\ final.reported /\ ~final.deleting => final.output # "invalid"
      BY <2>1 DEF CrewSound, ReportSound, Json
    <3>2. /\ CrewSound(Publish(final, "completed", final.output))
          /\ Kept(final, Publish(final, "completed", final.output))
      BY <2>1, <2>3, <2>5, <3>1, PublishSound
    <3> QED BY <1>1, <2>1, <3>2 DEF Kept
  <2> QED BY <2>1, <2>2, <2>4, <2>5
<1> QED BY <1>2, <1>3

\* A restart may find that Think has failed a submission whose turn was lost.
LEMMA RestartSound ==
  ASSUME CrewSound(crew), NEW hook \in BOOLEAN,
         NEW recovered \in {"none", "running", "completed", "aborted", "error"},
         RestartIsolate(hook, recovered)
  PROVE  CrewSound(crew')
<1> DEFINE s == Restarted(crew)
           woken == [s EXCEPT !.submission = recovered]
<1>1. /\ CrewSound(s) /\ s.turn = "none" /\ s.repair = "none" /\ s.submission = crew.submission
  BY RestartedSound
<1>2. s \in CrewRun
  BY <1>1 DEF CrewSound
<1>3. recovered = s.submission \/ (s.submission = "running" /\ recovered = "error")
  BY <1>1 DEF RestartIsolate
<1>4. crew' = IF hook THEN OnStart(woken) ELSE woken
  BY DEF RestartIsolate
<1> HIDE DEF s
<1>5. woken \in CrewRun
  BY <1>2, CrewWrites
<1>6. /\ woken.submission = recovered /\ woken.turn = "none" /\ woken.repair = "none"
      /\ woken.contract = s.contract /\ woken.clock = s.clock /\ woken.approval = s.approval
      /\ woken.drained = s.drained /\ woken.blocked = s.blocked /\ woken.restart = s.restart
      /\ woken.storage = s.storage /\ woken.reported = s.reported /\ woken.deleting = s.deleting
      /\ woken.terminal = s.terminal /\ woken.output = s.output /\ woken.retry = s.retry
      /\ woken.message = s.message
  BY <1>1, <1>2 DEF CrewRun
<1> HIDE DEF woken
<1>7. CrewSound(woken)
  BY <1>1, <1>3, <1>5, <1>6
     DEF CrewSound, TurnSound, OutputSound, ReportSound, Ended, Late, Json
<1> QED BY <1>4, <1>6, <1>7, OnStartSound

\* Every step of the session keeps its record sound.
LEMMA CrewStep ==
  ASSUME CrewSound(crew), [AdmittedRunsNext]_crew
  PROVE  CrewSound(crew')
<1>1. CASE AcceptRunAdmission \/ ResumeRunAdmission \/ DiscardRejectedSessionRun
  BY <1>1, AcceptanceSound
<1>2. CASE \/ \E ok \in BOOLEAN : VerifyAnswered(ok)
           \/ \E ok, submitted \in BOOLEAN : SubmitAdmittedRun(ok, submitted)
  BY <1>2, AcceptanceSound
<1>3. CASE \/ \E status \in {"completed", "aborted", "error"},
                 message \in {"none", "pending", "good", "bad"},
                 blocked \in BOOLEAN : TurnEnds(status, message, blocked)
           \/ ContinueTurn \/ RunTimePasses \/ DecideApproval
           \/ \E message \in {"good", "bad"} : DecisionEnds(message)
  BY <1>3, TurnsSound
<1>4. CASE ChatResponse
  BY <1>4, ChatResponseSound
<1>5. CASE RetryStructuredOutput
  BY <1>5, RetryOutputSound
<1>6. CASE \E ok \in BOOLEAN : RepairEnds(ok)
  BY <1>6, RepairEndsSound
<1>7. CASE InspectAdmittedRun \/ InspectSessionRunState
  BY <1>7, InspectionSound
<1>8. CASE \E aborts \in BOOLEAN : CancelAdmittedRun(aborts)
  BY <1>8, CancelSound
<1>9. CASE \E aborts \in BOOLEAN : ExpireAdmittedRun(aborts)
  BY <1>9, ExpireSound
<1>10. CASE CleanupAdmittedRun \/ DeleteSessionStorage
  BY <1>10, RemovalSound
<1>11. CASE \E aborts \in BOOLEAN : SettleExpiredSessionRun(aborts)
  BY <1>11, SettleSound
<1>12. CASE \E hook \in BOOLEAN,
                recovered \in {"none", "running", "completed", "aborted", "error"} :
              RestartIsolate(hook, recovered)
  BY <1>12, RestartSound
<1>13. CASE UNCHANGED crew
  BY <1>13
<1> QED
  BY <1>1, <1>2, <1>3, <1>4, <1>5, <1>6, <1>7, <1>8, <1>9, <1>10, <1>11, <1>12, <1>13
     DEF AdmittedRunsNext

CrewInv == CrewSound(crew)

\* What the session keeps of a Run is sound in every order of callbacks, retries,
\* repairs, cancellations, deadlines, restarts and deletions.
THEOREM CrewInvariant == AdmittedRunsSpec => []CrewInv
<1>1. ASSUME AdmittedRunsInit
      PROVE  CrewInv
  <2>1. 0 \in 0..2
    OBVIOUS
  <2> QED BY <1>1, <2>1, FreshSound DEF AdmittedRunsInit, CrewInv
<1>2. CrewInv /\ [AdmittedRunsNext]_crew => CrewInv'
  BY CrewStep DEF CrewInv
<1> QED BY <1>1, <1>2, PTL DEF AdmittedRunsSpec

\* The record has the type the code's schema gives it.
THEOREM AdmittedRunsTypeCorrect == AdmittedRunsSpec => []AdmittedRunsTypeOK
<1>1. CrewInv => AdmittedRunsTypeOK
  BY DEF CrewInv, CrewSound, AdmittedRunsTypeOK
<1> QED BY <1>1, CrewInvariant, PTL

\* A Run with a JSON contract is durably completed only over a validated output, and a
\* Run that was reported completed is never made anything else, whichever of the
\* callback, a retry, a repair, a recovery, a cancellation and the deadline comes first.
THEOREM CompletedStands == AdmittedRunsSpec => []CompletedIsValidAndStands
<1>1. CrewInv => CompletedIsValidAndStands
  BY DEF CrewInv, CrewSound, OutputSound, ReportSound, CompletedIsValidAndStands
<1> QED BY <1>1, CrewInvariant, PTL

\* The storage of a session is given up only when the turn and its callback are gone
\* from memory: it was drained, or an isolate that a restart has replaced held it.
THEOREM DrainedBeforeDeletion == AdmittedRunsSpec => []TurnDrainedBeforeDeletion
<1>1. CrewInv => TurnDrainedBeforeDeletion
  BY DEF CrewInv, CrewSound, TurnSound, TurnDrainedBeforeDeletion
<1> QED BY <1>1, CrewInvariant, PTL


-----------------------------------------------------------------------------
(* The owner's inbox: what it keeps *)

Board == [ItemIds -> Items \cup {NoItem}]

\* The bounds of the inbox, and the identifiers of its items.
LEMMA InboxNumbers ==
  /\ ItemIds \subseteq Nat /\ IsFiniteSet(ItemIds) /\ Deferral \notin InboxRuns
  /\ InboxRuns \subseteq ItemIds /\ Deferral \in ItemIds
  /\ MaxItems \in Nat /\ MaxItems >= 1 /\ Retention \in Nat /\ MaxMoment \in Nat
<1>1. IsFiniteSet(InboxRuns) /\ InboxRuns \subseteq Nat \ {0}
  BY AgentInboxAssumption
<1>2. IsFiniteSet(InboxRuns \cup {Deferral})
  BY <1>1, FS_AddElement
<1> QED BY <1>1, <1>2, AgentInboxAssumption DEF ItemIds, Deferral

\* The fields of an item.
LEMMA ItemFields ==
  ASSUME NEW x \in Items
  PROVE  /\ x # NoItem /\ x.kind \in Kinds /\ x.at \in Nat /\ x.at \in 0..MaxMoment
         /\ x.status \in {"running", "completed", "failed", "cancelled", "none"}
         /\ Priority(x) \in Nat
         /\ NeedsAction(x) <=> Priority(x) = 2
         /\ Priority(x) <= 2
BY InboxNumbers DEF Items, NoItem, Kinds, Priority, NeedsAction

\* The items of a board.
LEMMA BoardFields ==
  ASSUME NEW b \in Board
  PROVE  /\ Stored(b) \subseteq ItemIds /\ Stored(b) \subseteq Nat
         /\ \A i \in Stored(b) : b[i] \in Items
         /\ \A i \in ItemIds : i \in Stored(b) <=> b[i] # NoItem
         /\ IsFiniteSet(Stored(b)) /\ Cardinality(Stored(b)) \in Nat
<1>1. /\ Stored(b) \subseteq ItemIds /\ Stored(b) \subseteq Nat
      /\ \A i \in Stored(b) : b[i] \in Items
      /\ \A i \in ItemIds : i \in Stored(b) <=> b[i] # NoItem
  BY InboxNumbers DEF Board, Stored
<1>2. IsFiniteSet(Stored(b))
  BY <1>1, InboxNumbers, FS_Subset
<1> QED BY <1>1, <1>2, FS_CardinalityType

\* A set of natural numbers that has a member has a smallest one.
LEMMA SmallestOf ==
  ASSUME NEW S, S \subseteq Nat, S # {}
  PROVE  \E x \in S : \A y \in S : x <= y
<1>1. IsWellFoundedOn(OpToRel(<, Nat), S)
  BY NatLessThanWellFounded, IsWellFoundedOnSubset
<1>2. PICK x \in S : \A y \in S : <<y, x>> \notin OpToRel(<, Nat)
  BY <1>1, WFMin
<1>3. x \in S /\ \A y \in S : ~(y < x)
  BY <1>2 DEF OpToRel
<1> QED BY <1>3

\* Of the items of a board, one comes after all others.
LEMMA LastItem ==
  ASSUME NEW b \in Board, Stored(b) # {}
  PROVE  \E e \in Stored(b) : \A j \in Stored(b) \ {e} : Before(b, j, e)
<1> DEFINE P == {Priority(b[i]) : i \in Stored(b)}
<1>1. \A i \in Stored(b) : Priority(b[i]) \in Nat /\ b[i].at \in Nat /\ i \in Nat
  BY BoardFields, ItemFields
<1>2. PICK p \in P : \A q \in P : p <= q
  <2>1. P \subseteq Nat /\ P # {}
    BY <1>1
  <2> HIDE DEF P
  <2> QED BY <2>1, SmallestOf
<1> DEFINE A == {i \in Stored(b) : Priority(b[i]) = p}
           T == {b[i].at : i \in A}
<1>3. PICK t \in T : \A q \in T : t <= q
  <2>1. T \subseteq Nat /\ T # {}
    BY <1>1, <1>2
  <2> HIDE DEF T
  <2> QED BY <2>1, SmallestOf
<1> DEFINE E == {i \in A : b[i].at = t}
<1>4. PICK e \in E : \A i \in E : e <= i
  <2>1. E \subseteq Nat /\ E # {}
    BY <1>1, <1>3
  <2> HIDE DEF E
  <2> QED BY <2>1, SmallestOf
<1>5. ASSUME NEW j \in Stored(b) \ {e}
      PROVE  Before(b, j, e)
  <2>1. e \in Stored(b) /\ Priority(b[e]) = p /\ b[e].at = t
    BY <1>4
  <2>2. Priority(b[j]) >= p
    BY <1>1, <1>2
  <2>3. Priority(b[j]) = p => b[j].at >= t
    BY <1>1, <1>3
  <2>4. Priority(b[j]) = p /\ b[j].at = t => j > e
    BY <1>1, <1>4
  <2> HIDE DEF A, T, E, P
  <2> QED BY <1>1, <2>1, <2>2, <2>3, <2>4 DEF Before
<1> QED BY <1>4, <1>5

\* What pruning to the capacity does to a board: it keeps or removes an item, all
\* of them as long as they fit, the last one if there is one too many, and of two
\* items the one that needs the owner rather than the one that needs nobody.
LEMMA PruningSound ==
  ASSUME NEW b \in Board
  PROVE  /\ PrunedItems(b) \in Board
         /\ \A i \in ItemIds : PrunedItems(b)[i] \in {b[i], NoItem}
         /\ Cardinality(Stored(b)) <= MaxItems => PrunedItems(b) = b
         /\ Cardinality(Stored(b)) <= MaxItems + 1 =>
              Cardinality(Stored(PrunedItems(b))) <= MaxItems
         /\ \A i, j \in ItemIds :
              /\ b[i] # NoItem /\ NeedsAction(b[i]) /\ PrunedItems(b)[i] = NoItem
              /\ PrunedItems(b)[j] # NoItem
              => NeedsAction(b[j])
<1> DEFINE first(i) == {j \in Stored(b) \ {i} : Before(b, j, i)}
           gone(i) == i \in Stored(b) /\ Cardinality(first(i)) >= MaxItems
           c == PrunedItems(b)
<1>1. c = [i \in ItemIds |-> IF gone(i) THEN NoItem ELSE b[i]]
  BY DEF PrunedItems
<1>2. ASSUME NEW i \in ItemIds
      PROVE  IsFiniteSet(first(i)) /\ Cardinality(first(i)) \in Nat
  <2>1. first(i) \subseteq Stored(b) /\ IsFiniteSet(Stored(b))
    BY BoardFields
  <2> QED BY <2>1, FS_Subset, FS_CardinalityType
<1>3. c \in Board /\ \A i \in ItemIds : c[i] \in {b[i], NoItem}
  <2> HIDE DEF gone, c
  <2> QED BY <1>1 DEF Board
<1>4. ASSUME Cardinality(Stored(b)) <= MaxItems
      PROVE  c = b
  <2>1. ASSUME NEW i \in ItemIds
        PROVE  ~gone(i)
    <3>1. CASE i \in Stored(b)
      <4>1. /\ IsFiniteSet(Stored(b) \ {i})
            /\ Cardinality(Stored(b) \ {i}) = Cardinality(Stored(b)) - 1
        BY <3>1, BoardFields, FS_RemoveElement
      <4>2. Cardinality(first(i)) <= Cardinality(Stored(b) \ {i})
        <5>1. first(i) \subseteq Stored(b) \ {i}
          OBVIOUS
        <5> HIDE DEF first
        <5> QED BY <4>1, <5>1, FS_Subset
      <4> HIDE DEF first
      <4> QED BY <1>2, <1>4, <4>1, <4>2, BoardFields, InboxNumbers
    <3>2. CASE i \notin Stored(b)
      BY <3>2
    <3> QED BY <3>1, <3>2
  <2> HIDE DEF gone, c
  <2> QED BY <1>1, <2>1 DEF Board
<1>5. ASSUME Cardinality(Stored(b)) <= MaxItems + 1
      PROVE  Cardinality(Stored(c)) <= MaxItems
  <2>1. CASE Cardinality(Stored(b)) <= MaxItems
    BY <1>4, <2>1
  <2>2. CASE Cardinality(Stored(b)) = MaxItems + 1
    <3>1. Stored(b) # {}
      BY <2>2, InboxNumbers, FS_EmptySet
    <3>2. PICK e \in Stored(b) : \A j \in Stored(b) \ {e} : Before(b, j, e)
      BY <3>1, LastItem
    <3>3. first(e) = Stored(b) \ {e}
      BY <3>2
    <3>4. /\ IsFiniteSet(Stored(b) \ {e})
          /\ Cardinality(Stored(b) \ {e}) = Cardinality(Stored(b)) - 1
      BY <3>2, BoardFields, FS_RemoveElement
    <3>5. gone(e) /\ e \in ItemIds
      <4> HIDE DEF first
      <4>1. Cardinality(first(e)) >= MaxItems
        BY <2>2, <3>3, <3>4, InboxNumbers
      <4> QED BY <3>2, <4>1, BoardFields
    <3>6. Stored(c) \subseteq Stored(b) \ {e}
      <4> HIDE DEF gone, c
      <4>1. c[e] = NoItem
        BY <1>1, <3>5
      <4> QED BY <1>3, <4>1 DEF Stored
    <3>7. Cardinality(Stored(c)) <= Cardinality(Stored(b) \ {e})
      BY <3>4, <3>6, FS_Subset
    <3> HIDE DEF c
    <3> QED BY <1>3, <2>2, <3>4, <3>7, BoardFields, InboxNumbers
  <2> QED BY <1>5, <2>1, <2>2, BoardFields, InboxNumbers
<1>6. ASSUME NEW i \in ItemIds, NEW j \in ItemIds, b[i] # NoItem, NeedsAction(b[i]),
             c[i] = NoItem, c[j] # NoItem
      PROVE  NeedsAction(b[j])
  <2> SUFFICES ASSUME ~NeedsAction(b[j])
               PROVE  FALSE
    OBVIOUS
  <2>1. gone(i) /\ ~gone(j) /\ b[j] # NoItem /\ i # j
    <3> HIDE DEF gone, c
    <3> QED BY <1>1, <1>6
  <2>2. i \in Stored(b) /\ j \in Stored(b) /\ b[i] \in Items /\ b[j] \in Items
    BY <2>1, BoardFields
  <2>3. Priority(b[i]) = 2 /\ Priority(b[j]) \in Nat /\ Priority(b[j]) < 2
    BY <1>6, <2>2, ItemFields
  <2>4. first(i) \subseteq first(j)
    <3> SUFFICES ASSUME NEW k \in first(i)
                 PROVE  k \in first(j)
      OBVIOUS
    <3>1. k \in Stored(b) /\ k # i /\ Before(b, k, i) /\ b[k] \in Items
      BY BoardFields
    <3>2. Priority(b[k]) \in Nat /\ Priority(b[k]) >= 2
      BY <2>3, <3>1, ItemFields DEF Before
    <3>3. Before(b, k, j) /\ k # j
      BY <2>3, <3>2 DEF Before
    <3> QED BY <3>1, <3>3
  <2>5. Cardinality(first(i)) <= Cardinality(first(j))
    BY <1>2, <2>4, FS_Subset
  <2> QED BY <1>2, <2>1, <2>2, <2>5, InboxNumbers
<1> HIDE DEF c
<1> QED BY <1>3, <1>4, <1>5, <1>6 DEF c


\* What the inbox keeps: its items fit, only a schedule leaves a deferral, and an
\* acknowledgement is of the version that its item has.
AckSound(b, acks) ==
  /\ acks \subseteq [item : ItemIds, version : 0..MaxMoment]
  /\ \A a \in acks : b[a.item] # NoItem /\ b[a.item].at = a.version

BoardSound(b) ==
  /\ b \in Board /\ Cardinality(Stored(b)) <= MaxItems
  /\ b[Deferral] # NoItem => b[Deferral].kind = "deferred"

\* What a step may make of the items.
Keeps(c) ==
  /\ \A r \in InboxRuns : items[r] # NoItem /\ c[r] # NoItem => c[r].at >= items[r].at
  /\ \A i \in ItemIds :
       /\ items[i] # NoItem /\ NeedsAction(items[i]) /\ c[i] = NoItem
       /\ items[i].at + Retention > moment
       => \A j \in ItemIds : c[j] # NoItem => NeedsAction(c[j])

\* A board that only has less than the inbox had.
LEMMA CleaningSound ==
  ASSUME NEW b \in Board, moment \in Nat
  PROVE  /\ Cleaned(b) \in Board
         /\ \A i \in ItemIds : Cleaned(b)[i] \in {b[i], NoItem}
         /\ \A i \in ItemIds : b[i] # NoItem /\ b[i].at + Retention > moment => Cleaned(b)[i] = b[i]
         /\ Stored(Cleaned(b)) \subseteq Stored(b)
<1>1. Cleaned(b) = [i \in ItemIds |->
        IF b[i] # NoItem /\ b[i].at + Retention <= moment THEN NoItem ELSE b[i]]
  BY DEF Cleaned
<1>2. Cleaned(b) \in Board /\ \A i \in ItemIds : Cleaned(b)[i] \in {b[i], NoItem}
  BY <1>1 DEF Board
<1>3. ASSUME NEW i \in ItemIds, b[i] # NoItem, b[i].at + Retention > moment
      PROVE  Cleaned(b)[i] = b[i]
  <2>1. b[i].at \in Nat
    BY <1>3, ItemFields DEF Board
  <2> QED BY <1>1, <1>3, <2>1, InboxNumbers
<1> QED BY <1>2, <1>3 DEF Stored

\* One item is written, of a later event than the one it takes the place of, and
\* the inbox is pruned.
LEMMA ReplacementSound ==
  ASSUME BoardSound(items), moment \in Nat, NEW r \in ItemIds, NEW x \in Items,
         r = Deferral => x.kind = "deferred",
         r \in InboxRuns /\ items[r] # NoItem => x.at >= items[r].at,
         NEW c,
         \/ c = PrunedItems(Cleaned([items EXCEPT ![r] = x]))
         \/ c = PrunedItems([Cleaned(items) EXCEPT ![r] = x])
  PROVE  /\ BoardSound(c) /\ Keeps(c)
         /\ \A i \in ItemIds \ {r} : c[i] \in {items[i], NoItem}
<1> DEFINE written == [items EXCEPT ![r] = x]
<1>0. items \in Board /\ Cardinality(Stored(items)) <= MaxItems
  BY DEF BoardSound
<1>1. PICK b \in Board :
        /\ c = PrunedItems(b)
        /\ \A i \in ItemIds \ {r} : b[i] \in {items[i], NoItem}
        /\ \A i \in ItemIds \ {r} :
             items[i] # NoItem /\ items[i].at + Retention > moment => b[i] = items[i]
        /\ b[r] \in {x, NoItem}
        /\ x.at + Retention > moment => b[r] = x
  <2>1. CASE c = PrunedItems(Cleaned(written))
    <3>1. written \in Board /\ written[r] = x /\ \A i \in ItemIds \ {r} : written[i] = items[i]
      BY <1>0 DEF Board
    <3>2. /\ Cleaned(written) \in Board
          /\ \A i \in ItemIds : Cleaned(written)[i] \in {written[i], NoItem}
          /\ \A i \in ItemIds : written[i] # NoItem /\ written[i].at + Retention > moment =>
               Cleaned(written)[i] = written[i]
      BY <3>1, CleaningSound
    <3> HIDE DEF written
    <3> QED BY <2>1, <3>1, <3>2, ItemFields
  <2>2. CASE c = PrunedItems([Cleaned(items) EXCEPT ![r] = x])
    <3> DEFINE b == [Cleaned(items) EXCEPT ![r] = x]
    <3>1. /\ Cleaned(items) \in Board
          /\ \A i \in ItemIds : Cleaned(items)[i] \in {items[i], NoItem}
          /\ \A i \in ItemIds : items[i] # NoItem /\ items[i].at + Retention > moment =>
               Cleaned(items)[i] = items[i]
      BY <1>0, CleaningSound
    <3>2. b \in Board /\ b[r] = x /\ \A i \in ItemIds \ {r} : b[i] = Cleaned(items)[i]
      BY <3>1 DEF Board
    <3> HIDE DEF b
    <3> QED BY <2>2, <3>1, <3>2 DEF b
  <2> QED BY <2>1, <2>2
<1>2. /\ c \in Board
      /\ \A i \in ItemIds : c[i] \in {b[i], NoItem}
      /\ Cardinality(Stored(b)) <= MaxItems => c = b
      /\ Cardinality(Stored(b)) <= MaxItems + 1 => Cardinality(Stored(c)) <= MaxItems
      /\ \A i, j \in ItemIds :
           /\ b[i] # NoItem /\ NeedsAction(b[i]) /\ c[i] = NoItem /\ c[j] # NoItem
           => NeedsAction(b[j])
  BY <1>1, PruningSound
<1>3. /\ Cardinality(Stored(b)) <= MaxItems + 1
      /\ items[r] # NoItem => Cardinality(Stored(b)) <= MaxItems
  <2>1. Stored(b) \subseteq Stored(items) \cup {r}
    BY <1>1 DEF Stored
  <2>2. /\ IsFiniteSet(Stored(items)) /\ Cardinality(Stored(items)) \in Nat
        /\ Cardinality(Stored(b)) \in Nat
    BY <1>0, BoardFields
  <2>3. CASE items[r] # NoItem
    <3>1. Stored(b) \subseteq Stored(items)
      BY <2>1, <2>3 DEF Stored
    <3>2. Cardinality(Stored(b)) <= Cardinality(Stored(items))
      BY <2>2, <3>1, FS_Subset
    <3> QED BY <1>0, <2>2, <3>2, InboxNumbers
  <2>4. CASE items[r] = NoItem
    <3>1. r \notin Stored(items)
      BY <2>4 DEF Stored
    <3>2. /\ IsFiniteSet(Stored(items) \cup {r})
          /\ Cardinality(Stored(items) \cup {r}) = Cardinality(Stored(items)) + 1
      BY <2>2, <3>1, FS_AddElement
    <3>3. Cardinality(Stored(b)) <= Cardinality(Stored(items) \cup {r})
      BY <2>1, <3>2, FS_Subset
    <3> QED BY <1>0, <2>2, <2>4, <3>2, <3>3, InboxNumbers
  <2> QED BY <2>3, <2>4
<1>4. BoardSound(c)
  <2>1. c[Deferral] # NoItem => c[Deferral].kind = "deferred"
    <3>1. c[Deferral] \in {b[Deferral], NoItem} /\ Deferral \in ItemIds
      BY <1>2, InboxNumbers
    <3>2. CASE r = Deferral
      BY <1>1, <3>1, <3>2
    <3>3. CASE r # Deferral
      BY <1>1, <3>1, <3>3 DEF BoardSound
    <3> QED BY <3>2, <3>3
  <2> QED BY <1>2, <1>3, <2>1 DEF BoardSound
<1>5. \A i \in ItemIds \ {r} : c[i] \in {items[i], NoItem}
  BY <1>1, <1>2
<1>6. Keeps(c)
  <2>1. ASSUME NEW s \in InboxRuns, items[s] # NoItem, c[s] # NoItem
        PROVE  c[s].at >= items[s].at
    <3>1. s \in ItemIds /\ items[s] \in Items
      BY <1>0, <2>1, InboxNumbers DEF Board
    <3>2. items[s].at \in Nat
      BY <3>1, ItemFields
    <3>3. CASE s = r
      <4>1. c[s] = x
        BY <1>1, <1>2, <2>1, <3>1, <3>3
      <4> QED BY <2>1, <3>3, <4>1
    <3>4. CASE s # r
      BY <1>5, <2>1, <3>1, <3>2, <3>4
    <3> QED BY <3>3, <3>4
  <2>2. ASSUME NEW i \in ItemIds, items[i] # NoItem, NeedsAction(items[i]), c[i] = NoItem,
               items[i].at + Retention > moment, NEW j \in ItemIds, c[j] # NoItem
        PROVE  NeedsAction(c[j])
    <3>1. c[j] = b[j]
      BY <1>2, <2>2
    <3>2. CASE i # r
      <4>1. b[i] = items[i]
        BY <1>1, <2>2, <3>2
      <4> QED BY <1>2, <2>2, <3>1, <4>1
    <3>3. CASE i = r
      <4>1. r # Deferral
        BY <2>2, <3>3 DEF BoardSound, NeedsAction
      <4>2. r \in InboxRuns /\ x.at >= items[r].at /\ items[r] \in Items
        BY <1>0, <2>2, <3>3, <4>1 DEF ItemIds, Board
      <4>3. x.at + Retention > moment
        BY <2>2, <3>3, <4>2, ItemFields, InboxNumbers
      <4>4. b[r] = x /\ c = b /\ x # NoItem
        BY <1>1, <1>2, <1>3, <2>2, <3>3, <4>3, ItemFields
      <4> QED BY <2>2, <3>3, <4>4
    <3> QED BY <3>2, <3>3
  <2> QED BY <2>1, <2>2 DEF Keeps
<1> QED BY <1>4, <1>5, <1>6

\* Acknowledgements of items that are written or gone go too.
LEMMA AckKept ==
  ASSUME AckSound(items, acknowledged), NEW r, NEW c, NEW acks,
         \A i \in ItemIds \ {r} : c[i] \in {items[i], NoItem},
         \/ acks \subseteq {a \in acknowledged : a.item # r /\ c[a.item] # NoItem}
         \/ /\ acks \subseteq {a \in acknowledged : a.item # r \/ c[r] = items[r]}
            /\ \A i \in ItemIds \ {r} : c[i] = items[i]
  PROVE  AckSound(c, acks)
<1>1. ASSUME NEW a \in acks
      PROVE  c[a.item] # NoItem /\ c[a.item].at = a.version /\ a \in acknowledged
  <2>1. a \in acknowledged
    OBVIOUS
  <2>2. a.item \in ItemIds /\ items[a.item] # NoItem /\ items[a.item].at = a.version
    BY <2>1 DEF AckSound
  <2>3. c[a.item] = items[a.item]
    BY <2>2
  <2> QED BY <2>1, <2>2, <2>3
<1> QED BY <1>1 DEF AckSound

\* A projection that reaches the owner.
LEMMA RecordRunSound ==
  ASSUME BoardSound(items), AckSound(items, acknowledged), moment \in Nat,
         NEW r \in InboxRuns, NEW event \in Projections, RecordRun(r, event)
  PROVE  BoardSound(items') /\ Keeps(items') /\ AckSound(items', acknowledged')
<1>0. /\ r \in ItemIds /\ r # Deferral
      /\ \A i \in ItemIds : items[i] # NoItem => items[i] \in Items /\ items[i].at \in Nat
  BY InboxNumbers, ItemFields DEF BoardSound, Board
<1>1. CASE UNCHANGED <<items, acknowledged>>
  BY <1>0, <1>1, InboxNumbers DEF Keeps
<1>2. CASE /\ ~StaleEvent(r, event)
           /\ items' = PrunedItems(Cleaned([items EXCEPT ![r] = Told(r, event)]))
           /\ acknowledged' = {a \in acknowledged : a.item # r /\ items'[a.item] # NoItem}
  <2>1. Told(r, event) \in Items /\ Told(r, event).at = event.at /\ event.at \in Nat
    <3>1. event \in Items /\ event.at \in Nat
      BY InboxNumbers DEF Projections, Items, Kinds
    <3> DEFINE failed == [event EXCEPT !.kind = "exception", !.status = "failed"]
    <3>3. failed \in Items /\ failed.at = event.at
      BY <3>1 DEF Items, Kinds
    <3> QED BY <3>1, <3>3 DEF Told
  <2>2. items[r] # NoItem => event.at >= items[r].at
    BY <1>0, <1>2, <2>1 DEF StaleEvent
  <2> DEFINE x == Told(r, event)
  <2>3. x \in Items /\ (items[r] # NoItem => x.at >= items[r].at)
        /\ items' = PrunedItems(Cleaned([items EXCEPT ![r] = x]))
    BY <1>2, <2>1, <2>2
  <2> HIDE DEF x
  <2>4. /\ BoardSound(items') /\ Keeps(items')
        /\ \A i \in ItemIds \ {r} : items'[i] \in {items[i], NoItem}
    BY <1>0, <2>3, ReplacementSound
  <2>5. AckSound(items', acknowledged')
    BY <1>2, <2>4, AckKept
  <2> QED BY <2>4, <2>5
<1> QED BY <1>1, <1>2 DEF RecordRun


\* A completed Run with an unresolved call becomes an exception, of the same version.
LEMMA RepairSound ==
  ASSUME BoardSound(items), NEW r \in InboxRuns
  PROVE  /\ BoardSound(RepairFailedRun(items, r)) /\ Keeps(RepairFailedRun(items, r))
         /\ \A i \in ItemIds \ {r} : RepairFailedRun(items, r)[i] = items[i]
<1> DEFINE c == RepairFailedRun(items, r)
           x == [items[r] EXCEPT !.kind = "exception", !.status = "failed"]
<1>0. /\ r \in ItemIds /\ r # Deferral /\ items \in Board
      /\ \A i \in ItemIds : items[i] # NoItem => items[i] \in Items /\ items[i].at \in Nat
  BY InboxNumbers, ItemFields DEF BoardSound, Board
<1>1. CASE c = items
  BY <1>0, <1>1, InboxNumbers DEF Keeps
<1>2. CASE items[r] # NoItem /\ c = [items EXCEPT ![r] = x]
  <2>1. x \in Items /\ x.at = items[r].at
    BY <1>0, <1>2 DEF Items, Kinds
  <2> HIDE DEF x, c
  <2>2. c \in Board /\ c[r] = x /\ \A i \in ItemIds \ {r} : c[i] = items[i]
    BY <1>0, <1>2, <2>1 DEF Board
  <2>3. x # NoItem
    BY <2>1, ItemFields
  <2>4. Stored(c) = Stored(items)
    BY <1>0, <1>2, <2>2, <2>3 DEF Stored
  <2>5. BoardSound(c)
    BY <1>0, <2>2, <2>4, InboxNumbers DEF BoardSound
  <2>6. ASSUME NEW s \in InboxRuns, items[s] # NoItem
        PROVE  c[s].at >= items[s].at
    <3>1. s \in ItemIds /\ items[s].at \in Nat
      BY <1>0, <2>6, InboxNumbers
    <3>2. c[s].at = items[s].at
      BY <2>1, <2>2, <3>1
    <3> QED BY <3>1, <3>2
  <2>7. \A i \in ItemIds : items[i] # NoItem => c[i] # NoItem
    BY <2>2, <2>3
  <2> QED BY <2>2, <2>5, <2>6, <2>7 DEF Keeps, c
<1>3. c = items \/ (items[r] # NoItem /\ c = [items EXCEPT ![r] = x])
  <2>1. [items EXCEPT ![r].kind = "exception", ![r].status = "failed"] = [items EXCEPT ![r] = x]
    BY <1>0 DEF Board
  <2> QED BY <2>1 DEF RepairFailedRun
<1> QED BY <1>1, <1>2, <1>3

\* A schedule's deferral is recorded and cleared, and an item is acknowledged.
LEMMA DeferralSound ==
  ASSUME BoardSound(items), AckSound(items, acknowledged), moment \in 0..MaxMoment,
         \/ RecordDeferral \/ ClearDeferral
         \/ \E i \in ItemIds, version \in 0..MaxMoment : Acknowledge(i, version)
  PROVE  BoardSound(items') /\ Keeps(items') /\ AckSound(items', acknowledged')
<1>0. /\ items \in Board /\ Deferral \in ItemIds /\ Deferral \notin InboxRuns /\ moment \in Nat
      /\ InboxRuns \subseteq ItemIds
      /\ \A i \in ItemIds : items[i] # NoItem => items[i] \in Items /\ items[i].at \in Nat
  BY InboxNumbers, ItemFields DEF BoardSound, Board
<1>1. CASE RecordDeferral
  <2> DEFINE x == [kind |-> "deferred", status |-> "none", at |-> moment]
  <2>1. x \in Items /\ x.kind = "deferred"
    BY DEF Items, Kinds
  <2>2. /\ items' = PrunedItems([Cleaned(items) EXCEPT ![Deferral] = x])
        /\ acknowledged' = {a \in acknowledged : a.item # Deferral /\ items'[a.item] # NoItem}
    BY <1>1 DEF RecordDeferral
  <2> HIDE DEF x
  <2>3. /\ BoardSound(items') /\ Keeps(items')
        /\ \A i \in ItemIds \ {Deferral} : items'[i] \in {items[i], NoItem}
    BY <1>0, <2>1, <2>2, ReplacementSound
  <2>4. AckSound(items', acknowledged')
    BY <2>2, <2>3, AckKept
  <2> QED BY <2>3, <2>4
<1>2. CASE ClearDeferral
  <2>1. /\ items' = [items EXCEPT ![Deferral] = NoItem] /\ items[Deferral] # NoItem
        /\ acknowledged' = {a \in acknowledged : a.item # Deferral}
    BY <1>2 DEF ClearDeferral
  <2>2. /\ items' \in Board /\ items'[Deferral] = NoItem
        /\ \A i \in ItemIds \ {Deferral} : items'[i] = items[i]
    BY <1>0, <2>1 DEF Board
  <2>3. BoardSound(items')
    <3>1. Stored(items') \subseteq Stored(items)
      BY <2>2 DEF Stored
    <3>2. Cardinality(Stored(items')) <= Cardinality(Stored(items))
      BY <1>0, <3>1, BoardFields, FS_Subset
    <3>3. Cardinality(Stored(items')) \in Nat /\ Cardinality(Stored(items)) \in Nat
      BY <1>0, <2>2, BoardFields
    <3> QED BY <2>2, <3>2, <3>3, InboxNumbers DEF BoardSound
  <2>4. Keeps(items')
    <3>1. ~NeedsAction(items[Deferral])
      BY <2>1 DEF BoardSound, NeedsAction
    <3> QED BY <1>0, <2>2, <3>1 DEF Keeps
  <2>5. AckSound(items', acknowledged')
    <3>1. acknowledged' \subseteq {a \in acknowledged : a.item # Deferral /\ items'[a.item] # NoItem}
      <4>1. \A a \in acknowledged : a.item \in ItemIds /\ items[a.item] # NoItem
        BY DEF AckSound
      <4> QED BY <2>1, <2>2, <4>1
    <3>2. \A i \in ItemIds \ {Deferral} : items'[i] \in {items[i], NoItem}
      BY <2>2
    <3> QED BY <3>1, <3>2, AckKept
  <2> QED BY <2>3, <2>4, <2>5
<1>3. ASSUME NEW i \in ItemIds, NEW version \in 0..MaxMoment, Acknowledge(i, version)
      PROVE  BoardSound(items') /\ Keeps(items') /\ AckSound(items', acknowledged')
  <2> DEFINE kept == Cleaned(items)
             mark == [item |-> i, version |-> version]
  <2>1. /\ kept[i] # NoItem /\ kept[i].at = version /\ items' = kept
        /\ acknowledged' = {a \in acknowledged : kept[a.item] # NoItem} \cup {mark}
    BY <1>3 DEF Acknowledge
  <2>2. /\ kept \in Board
        /\ \A j \in ItemIds : kept[j] \in {items[j], NoItem}
        /\ \A j \in ItemIds : items[j] # NoItem /\ items[j].at + Retention > moment => kept[j] = items[j]
        /\ Stored(kept) \subseteq Stored(items)
    BY <1>0, CleaningSound
  <2> HIDE DEF kept
  <2>3. BoardSound(kept)
    <3>1. Cardinality(Stored(kept)) <= Cardinality(Stored(items))
      BY <1>0, <2>2, BoardFields, FS_Subset
    <3>2. Cardinality(Stored(kept)) \in Nat /\ Cardinality(Stored(items)) \in Nat
      BY <1>0, <2>2, BoardFields
    <3>3. kept[Deferral] # NoItem => kept[Deferral].kind = "deferred"
      BY <1>0, <2>2 DEF BoardSound
    <3> QED BY <2>2, <3>1, <3>2, <3>3, InboxNumbers DEF BoardSound
  <2>4. Keeps(kept)
    <3>1. ASSUME NEW r \in InboxRuns, items[r] # NoItem, kept[r] # NoItem
          PROVE  kept[r].at >= items[r].at
      BY <1>0, <2>2, <3>1
    <3>2. \A j \in ItemIds : items[j] # NoItem /\ items[j].at + Retention > moment => kept[j] # NoItem
      BY <2>2
    <3> QED BY <3>1, <3>2 DEF Keeps
  <2>5. AckSound(kept, acknowledged')
    <3>1. mark \in [item : ItemIds, version : 0..MaxMoment]
      OBVIOUS
    <3>2. ASSUME NEW a \in acknowledged, kept[a.item] # NoItem
          PROVE  kept[a.item].at = a.version /\ a \in [item : ItemIds, version : 0..MaxMoment]
      BY <2>2, <3>2 DEF AckSound
    <3> QED BY <2>1, <3>1, <3>2 DEF AckSound
  <2> QED BY <2>1, <2>3, <2>4, <2>5
<1> QED BY <1>1, <1>2, <1>3

\* What the owner records of a Run itself: a cancellation, and what the alarm and an
\* inspection find of its calls.
LEMMA OwnerRecordsSound ==
  ASSUME BoardSound(items), AckSound(items, acknowledged), moment \in 0..MaxMoment,
         NEW r \in InboxRuns,
         CompleteCancellation(r) \/ AlarmRepairs(r) \/ InspectRunItem(r)
  PROVE  BoardSound(items') /\ Keeps(items') /\ AckSound(items', acknowledged')
<1>0. /\ items \in Board /\ r \in ItemIds /\ r # Deferral /\ moment \in Nat
      /\ \A i \in ItemIds : items[i] # NoItem => items[i] \in Items /\ items[i].at \in Nat
  BY InboxNumbers, ItemFields DEF BoardSound, Board
<1>1. CASE UNCHANGED <<items, acknowledged>>
  BY <1>0, <1>1, InboxNumbers DEF Keeps
<1>2. CASE CompleteCancellation(r) /\ ~UNCHANGED <<items, acknowledged>>
  <2> DEFINE x == Projection("outcome", "cancelled")
  <2>1. x \in Items /\ x.at = moment + 1
    BY <1>2, InboxNumbers DEF Projection, Items, Kinds, CompleteCancellation, NextMoment
  <2>2. /\ ~StaleEvent(r, x)
        /\ items' = PrunedItems(Cleaned([items EXCEPT ![r] = x]))
        /\ acknowledged' = {a \in acknowledged : a.item # r /\ items'[a.item] # NoItem}
    BY <1>2 DEF CompleteCancellation, RecordCancellationOutcome
  <2>3. items[r] # NoItem => x.at >= items[r].at
    BY <1>0, <2>1, <2>2 DEF StaleEvent
  <2> HIDE DEF x
  <2>4. /\ BoardSound(items') /\ Keeps(items')
        /\ \A i \in ItemIds \ {r} : items'[i] \in {items[i], NoItem}
    BY <1>0, <2>1, <2>2, <2>3, ReplacementSound
  <2>5. AckSound(items', acknowledged')
    BY <2>2, <2>4, AckKept
  <2> QED BY <2>4, <2>5
<1>3. CASE /\ items' = RepairFailedRun(items, r) \/ items' = items
           /\ acknowledged' = {a \in acknowledged : a.item # r \/ items'[r] = items[r]}
  <2>1. /\ BoardSound(items') /\ Keeps(items')
        /\ \A i \in ItemIds \ {r} : items'[i] = items[i]
    <3>1. CASE items' = items
      BY <1>0, <3>1, InboxNumbers DEF Keeps
    <3>2. CASE items' = RepairFailedRun(items, r)
      BY <3>2, RepairSound
    <3> QED BY <1>3, <3>1, <3>2
  <2>2. AckSound(items', acknowledged')
    BY <1>3, <2>1, AckKept
  <2> QED BY <2>1, <2>2
<1> QED BY <1>1, <1>2, <1>3 DEF AlarmRepairs, InspectRunItem


\* The inbox and what carries projections to it.
CarriersTyped ==
  /\ moment \in 0..MaxMoment
  /\ session \in [InboxRuns -> {"running", "waiting", "completed", "failed", "cancelled"}]
  /\ outbox \in [InboxRuns -> Projections \cup {NoProjection}]
  /\ timers \subseteq Calls /\ sending \subseteq Calls
  /\ admission \in [InboxRuns -> {"redeemed", "cancelled"}]
  /\ execution \in [InboxRuns -> {"none", "reserved", "unknown", "resolved"}]
  /\ repairs \subseteq InboxRuns

InboxInv == CarriersTyped /\ BoardSound(items) /\ AckSound(items, acknowledged)

\* A projection is newly made, and put into the slot with a timer.
LEMMA ProjectionTyped ==
  ASSUME CarriersTyped, NextMoment, NEW kind \in {"action_required", "exception", "outcome"},
         NEW status \in {"running", "completed", "failed", "cancelled"}
  PROVE  Projection(kind, status) \in Projections /\ moment' \in 0..MaxMoment
BY InboxNumbers DEF CarriersTyped, NextMoment, Projection, Projections

\* A projection is put into the slot of its Run with a timer.
LEMMA SlotTyped ==
  ASSUME CarriersTyped, NEW r \in InboxRuns, NEW p \in Projections, PublishInboxProjection(r, p)
  PROVE  outbox' \in [InboxRuns -> Projections \cup {NoProjection}] /\ timers' \subseteq Calls
BY DEF CarriersTyped, PublishInboxProjection, Calls

\* The Runs' own steps keep the types.
LEMMA RunStepsTyped ==
  ASSUME CarriersTyped, NEW r \in InboxRuns,
         \/ ApprovalRequested(r) \/ ApprovalDecided(r) \/ SessionCancels(r) \/ CompleteCancellation(r)
         \/ \E status \in {"completed", "failed"} : SessionTurnEnds(r, status)
         \/ CallClaimed(r) \/ CallCompleted(r) \/ AlarmRepairs(r) \/ InspectRunItem(r)
         \/ ReconcileExecution(r) \/ Deliver(r)
  PROVE  CarriersTyped'
<1>1. CASE ApprovalRequested(r)
  BY <1>1, ProjectionTyped, SlotTyped DEF ApprovalRequested, CarriersTyped
<1>2. CASE ApprovalDecided(r)
  BY <1>2 DEF ApprovalDecided, CarriersTyped
<1>3. CASE SessionCancels(r)
  <2>1. NextMoment /\ session' = [session EXCEPT ![r] = "cancelled"]
        /\ UNCHANGED <<sending, admission, execution, repairs, items, acknowledged>>
        /\ (PublishInboxProjection(r, Projection("outcome", "cancelled"))
            \/ UNCHANGED <<outbox, timers>>)
    BY <1>3 DEF SessionCancels
  <2>2. Projection("outcome", "cancelled") \in Projections /\ moment' \in 0..MaxMoment
    BY <2>1, ProjectionTyped
  <2>3. outbox' \in [InboxRuns -> Projections \cup {NoProjection}] /\ timers' \subseteq Calls
    BY <2>1, <2>2, SlotTyped DEF CarriersTyped
  <2> QED BY <2>1, <2>2, <2>3 DEF CarriersTyped
<1>4. CASE CompleteCancellation(r)
  <2>1. moment' \in 0..MaxMoment
    BY <1>4, InboxNumbers DEF CompleteCancellation, NextMoment, CarriersTyped
  <2> QED BY <1>4, <2>1 DEF CompleteCancellation, CarriersTyped
<1>5. ASSUME NEW status \in {"completed", "failed"}, SessionTurnEnds(r, status)
      PROVE  CarriersTyped'
  <2> DEFINE p == Projection(IF status = "completed" THEN "outcome" ELSE "exception", status)
  <2>1. /\ NextMoment /\ session' = [session EXCEPT ![r] = status] /\ PublishInboxProjection(r, p)
        /\ UNCHANGED <<sending, admission, execution, repairs>>
    BY <1>5 DEF SessionTurnEnds
  <2>2. p \in Projections /\ moment' \in 0..MaxMoment
    BY <2>1, ProjectionTyped
  <2> HIDE DEF p
  <2> QED BY <2>1, <2>2, SlotTyped DEF CarriersTyped
<1>6. CASE CallClaimed(r) \/ CallCompleted(r) \/ ReconcileExecution(r)
  BY <1>6 DEF CallClaimed, CallCompleted, ReconcileExecution, CarriersTyped
<1>7. CASE AlarmRepairs(r)
  BY <1>7 DEF AlarmRepairs, CarriersTyped
<1>8. CASE InspectRunItem(r)
  BY <1>8 DEF InspectRunItem, Reconciled, CarriersTyped
<1>9. CASE Deliver(r)
  <2>1. [run |-> r, projection |-> outbox[r]] \in Calls
    BY <1>9 DEF Deliver, CarriersTyped, Calls
  <2> QED BY <1>9, <2>1 DEF Deliver, CarriersTyped
<1> QED BY <1>1, <1>2, <1>3, <1>4, <1>5, <1>6, <1>7, <1>8, <1>9

\* Deliveries, timers and restarts keep the types.
LEMMA DeliveriesTyped ==
  ASSUME CarriersTyped,
         \/ MomentPasses \/ RestartSession \/ RecordDeferral \/ ClearDeferral \/ AlarmReconciles
         \/ \E timer \in timers : TimerFires(timer)
         \/ \E call \in sending : Answered(call) \/ \E recorded \in BOOLEAN : Lost(call, recorded)
         \/ \E i \in ItemIds, version \in 0..MaxMoment : Acknowledge(i, version)
  PROVE  CarriersTyped'
<1>1. CASE MomentPasses
  <2>1. moment' \in 0..MaxMoment
    BY <1>1, InboxNumbers DEF MomentPasses, NextMoment, CarriersTyped
  <2> QED BY <1>1, <2>1 DEF MomentPasses, CarriersTyped
<1>2. CASE RestartSession
  <2>1. \A s \in InboxRuns : outbox[s] # NoProjection =>
          [run |-> s, projection |-> outbox[s]] \in Calls
    BY DEF CarriersTyped, Calls
  <2>2. timers' \subseteq Calls
    BY <1>2, <2>1 DEF RestartSession, CarriersTyped
  <2> QED BY <1>2, <2>2 DEF RestartSession, CarriersTyped
<1>3. CASE RecordDeferral \/ ClearDeferral
  BY <1>3 DEF RecordDeferral, ClearDeferral, CarriersTyped
<1>4. CASE AlarmReconciles
  <2>1. repairs' \subseteq InboxRuns
    BY <1>4 DEF AlarmReconciles, CarriersTyped, Expiring
  <2>2. execution' \in [InboxRuns -> {"none", "reserved", "unknown", "resolved"}]
    BY <1>4 DEF AlarmReconciles, CarriersTyped, Reconciled
  <2> QED BY <1>4, <2>1, <2>2 DEF AlarmReconciles, CarriersTyped
<1>5. ASSUME NEW timer \in timers, TimerFires(timer)
      PROVE  CarriersTyped'
  <2> DEFINE current == IF outbox[timer.run] = NoProjection THEN timer.projection
                        ELSE outbox[timer.run]
  <2>1. timer.run \in InboxRuns /\ timer.projection \in Projections
    BY DEF CarriersTyped, Calls
  <2>2. current \in Projections
    BY <2>1 DEF CarriersTyped
  <2>3. /\ timers' = timers \ {timer} /\ outbox' = [outbox EXCEPT ![timer.run] = current]
        /\ sending' = sending \cup {[run |-> timer.run, projection |-> current]}
        /\ UNCHANGED <<moment, session, admission, execution, repairs>>
    BY <1>5 DEF TimerFires
  <2> HIDE DEF current
  <2>4. [run |-> timer.run, projection |-> current] \in Calls
    BY <2>1, <2>2 DEF Calls
  <2> QED BY <2>2, <2>3, <2>4 DEF CarriersTyped
<1>6. ASSUME NEW call \in sending, Answered(call)
      PROVE  CarriersTyped'
  <2>1. outbox' \in [InboxRuns -> Projections \cup {NoProjection}]
    BY <1>6 DEF Answered, CarriersTyped
  <2> QED BY <1>6, <2>1 DEF Answered, CarriersTyped
<1>7. ASSUME NEW call \in sending, NEW recorded \in BOOLEAN, Lost(call, recorded)
      PROVE  CarriersTyped'
  BY <1>7 DEF Lost, RetryAt, CarriersTyped
<1>8. ASSUME NEW i \in ItemIds, NEW version \in 0..MaxMoment, Acknowledge(i, version)
      PROVE  CarriersTyped'
  BY <1>8 DEF Acknowledge, CarriersTyped
<1> QED BY <1>1, <1>2, <1>3, <1>4, <1>5, <1>6, <1>7, <1>8

\* Every step keeps the invariant of the inbox, and makes of its items what it may.
LEMMA InboxStep ==
  ASSUME InboxInv, AgentInboxNext
  PROVE  InboxInv' /\ Keeps(items') /\ moment' \in Nat /\ moment' >= moment
<1>0. /\ CarriersTyped /\ BoardSound(items) /\ AckSound(items, acknowledged)
      /\ moment \in 0..MaxMoment /\ moment \in Nat /\ items \in Board
  BY InboxNumbers DEF InboxInv, CarriersTyped, BoardSound
<1>1. CarriersTyped'
  BY <1>0, RunStepsTyped, DeliveriesTyped DEF AgentInboxNext
<1>2. BoardSound(items') /\ Keeps(items') /\ AckSound(items', acknowledged')
  <2>1. CASE UNCHANGED <<items, acknowledged>>
    <3>1. \A i \in ItemIds : items[i] # NoItem => items[i].at \in Nat
      BY <1>0, ItemFields DEF Board
    <3>2. \A r \in InboxRuns : items[r] # NoItem => items[r].at >= items[r].at
      BY <3>1, InboxNumbers
    <3>3. items' = items /\ acknowledged' = acknowledged
      BY <2>1
    <3>4. Keeps(items')
      BY <3>2, <3>3 DEF Keeps
    <3> QED BY <1>0, <3>3, <3>4
  <2>2. ASSUME NEW call \in sending, RecordRun(call.run, call.projection)
        PROVE  BoardSound(items') /\ Keeps(items') /\ AckSound(items', acknowledged')
    <3>1. call.run \in InboxRuns /\ call.projection \in Projections
      BY <1>0 DEF CarriersTyped, Calls
    <3> QED BY <1>0, <2>2, <3>1, RecordRunSound
  <2>3. CASE \E call \in sending : Answered(call) \/ \E recorded \in BOOLEAN : Lost(call, recorded)
    BY <2>1, <2>2, <2>3 DEF Answered, Lost
  <2>4. CASE \/ RecordDeferral \/ ClearDeferral
             \/ \E i \in ItemIds, version \in 0..MaxMoment : Acknowledge(i, version)
    BY <1>0, <2>4, DeferralSound
  <2>5. CASE \E r \in InboxRuns : CompleteCancellation(r) \/ AlarmRepairs(r) \/ InspectRunItem(r)
    BY <1>0, <2>5, OwnerRecordsSound
  <2>6. CASE MomentPasses \/ RestartSession \/ AlarmReconciles
    BY <2>1, <2>6 DEF MomentPasses, RestartSession, AlarmReconciles
  <2>7. CASE \E timer \in timers : TimerFires(timer)
    BY <2>1, <2>7 DEF TimerFires
  <2>8. CASE \E r \in InboxRuns :
               \/ ApprovalRequested(r) \/ ApprovalDecided(r) \/ SessionCancels(r)
               \/ \E status \in {"completed", "failed"} : SessionTurnEnds(r, status)
               \/ CallClaimed(r) \/ CallCompleted(r) \/ ReconcileExecution(r) \/ Deliver(r)
    BY <2>1, <2>8
       DEF ApprovalRequested, ApprovalDecided, SessionCancels, SessionTurnEnds, CallClaimed,
           CallCompleted, ReconcileExecution, Deliver
  <2> QED BY <2>3, <2>4, <2>5, <2>6, <2>7, <2>8 DEF AgentInboxNext
<1>3. moment' = moment \/ moment' = moment + 1
  BY DEF AgentInboxNext, MomentPasses, NextMoment, RestartSession, RecordDeferral, ClearDeferral,
         AlarmReconciles, ApprovalRequested, ApprovalDecided, SessionCancels, CompleteCancellation,
         SessionTurnEnds, CallClaimed, CallCompleted, AlarmRepairs, InspectRunItem,
         ReconcileExecution, Deliver, TimerFires, Answered, Lost, Acknowledge
<1> QED BY <1>0, <1>1, <1>2, <1>3 DEF InboxInv


-----------------------------------------------------------------------------
(* The directory of sessions *)

StartPhases == {"idle", "sent", "cleaned", "accepting", "failed", "refused", "rolling_back", "done"}
Routed == {"accepting", "failed", "refused", "rolling_back"}
StartRecords == [phase : StartPhases, route : Routes \cup {NoRoute}, seen : 0..MaxBranch]

\* A start that was prepared carries the route it was prepared with.
StartsSound(calls) ==
  /\ calls \in [StartIds -> StartRecords]
  /\ \A a \in StartIds : calls[a].phase \in Routed => calls[a].route # NoRoute

\* A session that somebody claimed for deletion takes no Run any more.
ClaimsSound(listed) ==
  /\ listed \in [Sessions -> DirectoryRecords \cup {NoSession}]
  /\ \A s \in Sessions : listed[s] # NoSession /\ listed[s].intent # "none" =>
       listed[s].state = "deleting"

HeldTyped ==
  /\ routes \in [SessionRuns -> Routes \cup {NoRoute}]
  /\ crewSession \in [Sessions -> [SessionRuns -> {"none", "recorded", "running", "ended"}]]
  /\ permits \in [SessionRuns -> StartIds \cup {NotIssued, Redeemed}]
  /\ overdue \subseteq SessionRuns
  /\ events \in [SessionRuns -> {"none", "pending", "known", "delivered"}]

\* No start of the Run is confirmed any more.
StartsOver(r) == permits[r] = Redeemed \/ r \in overdue

Holds(s, r) == directory[s] # NoSession /\ directory[s].active = r /\ directory[s].state = "live"

\* A Run that is routed to a session holds it until it has ended, or until it is known
\* that no start of it is confirmed any more.
Linked(s, r) ==
  /\ crewSession[s][r] \in {"running", "ended"} => StartsOver(r)
  /\ routes[r] # NoRoute /\ routes[r].session = s =>
       Holds(s, r) \/ (crewSession[s][r] # "running" /\ StartsOver(r))

DirectoryInv ==
  /\ StartsSound(starts) /\ ClaimsSound(directory) /\ HeldTyped
  /\ \A s \in Sessions, r \in SessionRuns : Linked(s, r)

\* The constants of the directory in the form the steps below use.
LEMMA DirectoryNumbers ==
  /\ NoRun \notin SessionRuns /\ \A ro \in Routes : ro # NoRoute /\ ro.session \in Sessions
  /\ NoRoute.session \notin Sessions
  /\ \A a \in StartIds : Starts[a].run \in SessionRuns /\ a # Redeemed
  /\ MaxBranch \in Nat /\ MaxBranch >= 1
  /\ \A x \in DirectoryRecords : x # NoSession
<1>1. /\ NoRun \notin SessionRuns /\ NoRoute.session \notin Sessions
      /\ MaxBranch \in Nat /\ MaxBranch >= 1
  BY SessionDirectoryAssumption DEF NoRun, NoRoute
<1>2. \A ro \in Routes : ro # NoRoute /\ ro.session \in Sessions
  BY <1>1 DEF Routes, NoRoute
<1>3. \A a \in StartIds : Starts[a].run \in SessionRuns /\ a # Redeemed
  BY SessionDirectoryAssumption DEF StartIds, Redeemed
<1>4. \A x \in DirectoryRecords : x # NoSession
  BY DEF DirectoryRecords, NoSession
<1> QED BY <1>1, <1>2, <1>3, <1>4

\* A start goes on, with the route it has or with one it is prepared with.
LEMMA StartsMove ==
  ASSUME StartsSound(starts), NEW a \in StartIds
  PROVE  /\ \A p \in StartPhases \ Routed : StartsSound([starts EXCEPT ![a].phase = p])
         /\ \A p \in StartPhases : starts[a].route # NoRoute =>
              StartsSound([starts EXCEPT ![a].phase = p])
         /\ \A n \in 0..MaxBranch :
              StartsSound([starts EXCEPT ![a].phase = "sent", ![a].seen = n])
         /\ \A ro \in Routes : StartsSound(Accepting(a, ro))
<1>0. starts \in [StartIds -> StartRecords] /\ starts[a] \in StartRecords
  BY DEF StartsSound
<1>1. ASSUME NEW p \in StartPhases, p \notin Routed \/ starts[a].route # NoRoute
      PROVE  StartsSound([starts EXCEPT ![a].phase = p])
  <2> DEFINE x == [starts[a] EXCEPT !.phase = p]
  <2>1. x \in StartRecords /\ x.phase = p /\ x.route = starts[a].route
    BY <1>0 DEF StartRecords
  <2>2. [starts EXCEPT ![a].phase = p] = [starts EXCEPT ![a] = x]
    BY <1>0
  <2> HIDE DEF x
  <2> QED BY <1>0, <1>1, <2>1, <2>2 DEF StartsSound
<1>2. ASSUME NEW n \in 0..MaxBranch
      PROVE  StartsSound([starts EXCEPT ![a].phase = "sent", ![a].seen = n])
  <2> DEFINE x == [starts[a] EXCEPT !.phase = "sent", !.seen = n]
  <2>1. x \in StartRecords /\ x.phase = "sent"
    BY <1>0 DEF StartRecords, StartPhases
  <2>2. [starts EXCEPT ![a].phase = "sent", ![a].seen = n] = [starts EXCEPT ![a] = x]
    BY <1>0
  <2> HIDE DEF x
  <2> QED BY <1>0, <2>1, <2>2 DEF StartsSound, Routed
<1>3. ASSUME NEW ro \in Routes
      PROVE  StartsSound(Accepting(a, ro))
  <2> DEFINE x == [starts[a] EXCEPT !.phase = "accepting", !.route = ro]
  <2>1. x \in StartRecords /\ x.route = ro /\ ro # NoRoute
    BY <1>0, DirectoryNumbers DEF StartRecords, StartPhases
  <2>2. Accepting(a, ro) = [starts EXCEPT ![a] = x]
    BY <1>0 DEF Accepting
  <2> HIDE DEF x
  <2> QED BY <1>0, <2>1, <2>2 DEF StartsSound
<1> QED BY <1>1, <1>2, <1>3

\* A start sends its permit, waits, or is prepared with the route of an earlier one;
\* time passes; the end of a Run is delivered.
LEMMA QuietSteps ==
  ASSUME DirectoryInv,
         \/ \E a \in StartIds : \/ \E seen \in 0..MaxBranch : SendStart(a, seen)
                                \/ PrepareAgain(a) \/ PrepareWaits(a)
         \/ \E r \in SessionRuns :
              \/ DeadlinePasses(r) \/ AttachRun(r) \/ SealDeliveries(r)
              \/ \E answered \in BOOLEAN : ReadEnd(r, answered) \/ SendEvent(r, answered)
  PROVE  DirectoryInv' /\ UNCHANGED crewSession
<1>0. StartsSound(starts) /\ ClaimsSound(directory) /\ HeldTyped
  BY DEF DirectoryInv
<1>1. ASSUME StartsSound(starts'), HeldTyped', UNCHANGED <<directory, routes, crewSession>>,
             \A r \in SessionRuns : StartsOver(r) => StartsOver(r)'
      PROVE  DirectoryInv' /\ UNCHANGED crewSession
  BY <1>0, <1>1 DEF DirectoryInv, Linked, Holds
<1>2. ASSUME NEW a \in StartIds, NEW seen \in 0..MaxBranch, SendStart(a, seen)
      PROVE  DirectoryInv' /\ UNCHANGED crewSession
  <2>1. StartsSound(starts')
    BY <1>0, <1>2, StartsMove DEF SendStart
  <2>2. HeldTyped'
    BY <1>0, <1>2, DirectoryNumbers DEF SendStart, HeldTyped
  <2>3. \A r \in SessionRuns : StartsOver(r) => StartsOver(r)'
    BY <1>0, <1>2, DirectoryNumbers DEF SendStart, HeldTyped, StartsOver
  <2> QED BY <1>1, <1>2, <2>1, <2>2, <2>3 DEF SendStart
<1>3. ASSUME NEW a \in StartIds, PrepareAgain(a) \/ PrepareWaits(a)
      PROVE  DirectoryInv' /\ UNCHANGED crewSession
  <2>1. PrepareAgain(a) => routes[Starts[a].run] \in Routes
    BY <1>0, DirectoryNumbers DEF PrepareAgain, HeldTyped
  <2>2. StartsSound(starts')
    BY <1>0, <1>3, <2>1, StartsMove DEF PrepareAgain, PrepareWaits, StartPhases, Routed
  <2>3. UNCHANGED <<directory, routes, crewSession, permits, overdue, events>>
    BY <1>3 DEF PrepareAgain, PrepareWaits
  <2> QED BY <1>0, <1>1, <2>2, <2>3 DEF HeldTyped, StartsOver
<1>4. ASSUME NEW r \in SessionRuns, DeadlinePasses(r)
      PROVE  DirectoryInv' /\ UNCHANGED crewSession
  <2>1. HeldTyped' /\ \A q \in SessionRuns : StartsOver(q) => StartsOver(q)'
    BY <1>0, <1>4 DEF DeadlinePasses, HeldTyped, StartsOver
  <2> QED BY <1>0, <1>1, <1>4, <2>1 DEF DeadlinePasses
<1>5. ASSUME NEW r \in SessionRuns,
             \/ AttachRun(r) \/ SealDeliveries(r)
             \/ \E answered \in BOOLEAN : ReadEnd(r, answered) \/ SendEvent(r, answered)
      PROVE  DirectoryInv' /\ UNCHANGED crewSession
  <2>1. /\ UNCHANGED <<directory, routes, crewSession, starts, permits, overdue>>
        /\ \/ events' = events
           \/ \E e \in {"pending", "known", "delivered"} : events' = [events EXCEPT ![r] = e]
    BY <1>5 DEF AttachRun, SealDeliveries, ReadEnd, SendEvent, Rescheduled
  <2>2. HeldTyped' /\ \A q \in SessionRuns : StartsOver(q) => StartsOver(q)'
    BY <1>0, <2>1 DEF HeldTyped, StartsOver
  <2> QED BY <1>0, <1>1, <2>1, <2>2
<1> QED BY <1>2, <1>3, <1>4, <1>5


\* What no step does to a Run that is routed to a session.
KeepsRouted ==
  \A s \in Sessions, r \in SessionRuns :
    crewSession[s][r] = "running" /\ crewSession'[s][r] = "none" => routes[r].session # s

\* What a session may make of a Run a start is accepted for, or that has ended.
LEMMA CrewSessionSteps ==
  ASSUME DirectoryInv,
         \/ \E a \in StartIds :
              \/ \E submitted \in BOOLEAN : Accept(a, submitted)
              \/ \E reached \in {"none", "recorded", "running"} : AcceptFails(a, reached)
              \/ \E answered \in BOOLEAN : InspectFailed(a, answered)
         \/ \E s \in Sessions, r \in SessionRuns : RunEnds(s, r)
  PROVE  DirectoryInv' /\ KeepsRouted
<1>0. /\ StartsSound(starts) /\ ClaimsSound(directory) /\ HeldTyped
      /\ \A s \in Sessions, r \in SessionRuns : Linked(s, r)
  BY DEF DirectoryInv
<1>1. ASSUME NEW s \in Sessions, NEW r \in SessionRuns,
             NEW v \in {"none", "recorded", "running", "ended"},
             crewSession' = [crewSession EXCEPT ![s][r] = v],
             StartsSound(starts'), HeldTyped', UNCHANGED <<directory, routes>>,
             \A q \in SessionRuns : StartsOver(q) => StartsOver(q)',
             \/ v = "ended" /\ crewSession[s][r] = "running"
             \/ v = "none" /\ crewSession[s][r] = "recorded"
             \/ /\ v \in {"recorded", "running"} /\ ~StartsOver(r)
                /\ v = "running" => StartsOver(r)'
                /\ crewSession[s][r] # "running"
      PROVE  DirectoryInv' /\ KeepsRouted
  <2>1. /\ crewSession'[s][r] = v
        /\ \A t \in Sessions, q \in SessionRuns : t # s \/ q # r =>
             crewSession'[t][q] = crewSession[t][q]
    BY <1>0, <1>1 DEF HeldTyped
  <2>2. KeepsRouted
    BY <1>1, <2>1 DEF KeepsRouted
  <2>3. ASSUME NEW t \in Sessions, NEW q \in SessionRuns
        PROVE  Linked(t, q)'
    <3>1. CASE t = s /\ q = r
      BY <1>0, <1>1, <2>1, <3>1 DEF Linked, Holds
    <3>2. CASE t # s \/ q # r
      BY <1>0, <1>1, <2>1, <3>2 DEF Linked, Holds
    <3> QED BY <3>1, <3>2
  <2> QED BY <1>0, <1>1, <2>2, <2>3 DEF DirectoryInv
<1>2. ASSUME NEW a \in StartIds, starts[a].phase \in Routed
      PROVE  starts[a].route.session \in Sessions /\ starts[a].route # NoRoute /\ Starts[a].run \in SessionRuns
  BY <1>0, <1>2, DirectoryNumbers DEF StartsSound, StartRecords
<1>3. ASSUME NEW a \in StartIds, NEW submitted \in BOOLEAN, Accept(a, submitted)
      PROVE  DirectoryInv' /\ KeepsRouted
  <2> DEFINE r == Starts[a].run
             s == starts[a].route.session
             v == IF submitted THEN "running" ELSE "recorded"
  <2>1. /\ s \in Sessions /\ r \in SessionRuns /\ starts[a].route # NoRoute
    BY <1>2, <1>3 DEF Accept, Routed
  <2>2. /\ permits[r] = a /\ r \notin overdue /\ crewSession[s][r] \in {"none", "recorded"}
        /\ crewSession' = [crewSession EXCEPT ![s][r] = v]
        /\ permits' = [permits EXCEPT ![r] = Redeemed]
        /\ starts' = IF submitted THEN Returned(a) ELSE [starts EXCEPT ![a].phase = "refused"]
        /\ UNCHANGED <<directory, routes, overdue, events>>
    BY <1>3 DEF Accept
  <2>3. v \in {"recorded", "running"}
    OBVIOUS
  <2> HIDE DEF r, s, v
  <2>4. StartsSound(starts')
    BY <1>0, <2>1, <2>2, StartsMove DEF Returned, StartPhases, Routed
  <2>5. HeldTyped'
    BY <1>0, <2>1, <2>2, <2>3 DEF HeldTyped
  <2>6. /\ \A q \in SessionRuns : StartsOver(q) => StartsOver(q)'
        /\ StartsOver(r)' /\ ~StartsOver(r)
    BY <1>0, <2>1, <2>2, DirectoryNumbers DEF StartsOver, HeldTyped
  <2> QED BY <1>1, <2>1, <2>2, <2>3, <2>4, <2>5, <2>6
<1>4. ASSUME NEW a \in StartIds, NEW reached \in {"none", "recorded", "running"},
             AcceptFails(a, reached)
      PROVE  DirectoryInv' /\ KeepsRouted
  <2> DEFINE r == Starts[a].run
             s == starts[a].route.session
  <2>1. /\ s \in Sessions /\ r \in SessionRuns /\ starts[a].route # NoRoute
    BY <1>2, <1>4 DEF AcceptFails, Routed
  <2>2. /\ starts' = [starts EXCEPT ![a].phase = "failed"]
        /\ UNCHANGED <<directory, routes, overdue, events>>
        /\ \/ UNCHANGED <<crewSession, permits>>
           \/ /\ reached # "none" /\ permits[r] = a /\ r \notin overdue /\ crewSession[s][r] = "none"
              /\ crewSession' = [crewSession EXCEPT ![s][r] = reached]
              /\ permits' = IF reached = "running" THEN [permits EXCEPT ![r] = Redeemed] ELSE permits
    BY <1>4 DEF AcceptFails, RunUnknown
  <2> HIDE DEF r, s
  <2>3. StartsSound(starts')
    BY <1>0, <2>1, <2>2, StartsMove DEF StartPhases
  <2>4. CASE UNCHANGED <<crewSession, permits>>
    <3>1. HeldTyped'
      BY <1>0, <2>2, <2>4 DEF HeldTyped
    <3>2. \A t \in Sessions, q \in SessionRuns : Linked(t, q)'
      BY <1>0, <2>2, <2>4 DEF Linked, Holds, StartsOver
    <3> QED BY <1>0, <2>2, <2>3, <2>4, <3>1, <3>2 DEF DirectoryInv, KeepsRouted
  <2>5. CASE ~UNCHANGED <<crewSession, permits>>
    <3>1. HeldTyped'
      <4>1. /\ crewSession' = [crewSession EXCEPT ![s][r] = reached]
            /\ permits' = IF reached = "running" THEN [permits EXCEPT ![r] = Redeemed] ELSE permits
            /\ UNCHANGED <<routes, overdue, events>>
        BY <2>2, <2>5
      <4>2. permits' \in [SessionRuns -> StartIds \cup {NotIssued, Redeemed}]
        BY <1>0, <4>1 DEF HeldTyped
      <4>3. crewSession' \in [Sessions -> [SessionRuns -> {"none", "recorded", "running", "ended"}]]
        <5>1. reached \in {"none", "recorded", "running", "ended"}
          BY <1>4
        <5> QED BY <1>0, <2>1, <4>1, <5>1 DEF HeldTyped
      <4> QED BY <1>0, <4>1, <4>2, <4>3 DEF HeldTyped
    <3>2. /\ \A q \in SessionRuns : StartsOver(q) => StartsOver(q)'
          /\ reached = "running" => StartsOver(r)'
          /\ ~StartsOver(r)
      BY <1>0, <2>1, <2>2, <2>5, DirectoryNumbers DEF StartsOver, HeldTyped
    <3> QED BY <1>1, <2>1, <2>2, <2>3, <2>5, <3>1, <3>2
  <2> QED BY <2>4, <2>5
<1>5. ASSUME NEW a \in StartIds, NEW answered \in BOOLEAN, InspectFailed(a, answered)
      PROVE  DirectoryInv' /\ KeepsRouted
  <2> DEFINE r == Starts[a].run
             s == starts[a].route.session
  <2>1. /\ s \in Sessions /\ r \in SessionRuns /\ starts[a].route # NoRoute
    BY <1>2, <1>5 DEF InspectFailed, Routed
  <2>2. /\ \E p \in {"rolling_back", "done"} : starts' = [starts EXCEPT ![a].phase = p]
        /\ UNCHANGED <<directory, routes, permits, overdue, events>>
        /\ \/ UNCHANGED crewSession
           \/ /\ crewSession[s][r] = "recorded"
              /\ crewSession' = [crewSession EXCEPT ![s][r] = "none"]
    BY <1>5 DEF InspectFailed
  <2> HIDE DEF r, s
  <2>3. StartsSound(starts')
    <3>1. PICK p \in {"rolling_back", "done"} : starts' = [starts EXCEPT ![a].phase = p]
      BY <2>2
    <3>2. p \in StartPhases
      BY DEF StartPhases
    <3> QED BY <1>0, <2>1, <3>1, <3>2, StartsMove
  <2>4. HeldTyped' /\ \A q \in SessionRuns : StartsOver(q) => StartsOver(q)'
    <3>1. crewSession' \in [Sessions -> [SessionRuns -> {"none", "recorded", "running", "ended"}]]
      BY <1>0, <2>1, <2>2 DEF HeldTyped
    <3>2. UNCHANGED <<routes, permits, overdue, events>>
      BY <2>2
    <3> QED BY <1>0, <3>1, <3>2 DEF HeldTyped, StartsOver
  <2>5. CASE UNCHANGED crewSession
    <3>1. \A t \in Sessions, q \in SessionRuns : Linked(t, q)'
      BY <1>0, <2>2, <2>5 DEF Linked, Holds, StartsOver
    <3> QED BY <1>0, <2>2, <2>3, <2>4, <2>5, <3>1 DEF DirectoryInv, KeepsRouted
  <2>6. CASE ~UNCHANGED crewSession
    BY <1>1, <2>1, <2>2, <2>3, <2>4, <2>6
  <2> QED BY <2>5, <2>6
<1>6. ASSUME NEW s \in Sessions, NEW r \in SessionRuns, RunEnds(s, r)
      PROVE  DirectoryInv' /\ KeepsRouted
  <2>1. /\ crewSession[s][r] = "running" /\ crewSession' = [crewSession EXCEPT ![s][r] = "ended"]
        /\ UNCHANGED <<directory, routes, starts, permits, overdue, events>>
    BY <1>6 DEF RunEnds
  <2>2. HeldTyped' /\ StartsSound(starts') /\ \A q \in SessionRuns : StartsOver(q) => StartsOver(q)'
    BY <1>0, <2>1 DEF HeldTyped, StartsOver
  <2> QED BY <1>1, <2>1, <2>2
<1> QED BY <1>3, <1>4, <1>5, <1>6


\* Routes are only removed, and Runs of a session only ended or forgotten, and the Run
\* that held the session still does where its record x says so, or is over.
Releases(s, x) ==
  /\ \A q \in SessionRuns : routes'[q] \in {routes[q], NoRoute}
  /\ \A t \in Sessions, q \in SessionRuns :
       \/ crewSession'[t][q] = crewSession[t][q] \/ crewSession'[t][q] = "none"
       \/ crewSession'[t][q] = "ended" /\ q \in overdue
  /\ \A q \in SessionRuns :
       /\ Holds(s, q) /\ routes'[q] # NoRoute /\ routes'[q].session = s
       => \/ x # NoSession /\ x.active = q /\ x.state = "live"
          \/ crewSession'[s][q] # "running" /\ StartsOver(q)

\* One record of the directory is written or removed: the Run that held the session
\* holds it still, or has ended there or can no longer be confirmed.
LEMMA RecordWritten ==
  ASSUME DirectoryInv, NEW s \in Sessions, NEW x \in DirectoryRecords \cup {NoSession},
         directory' = [directory EXCEPT ![s] = x],
         x # NoSession /\ x.intent # "none" => x.state = "deleting",
         StartsSound(starts'), HeldTyped', UNCHANGED <<permits, overdue>>, Releases(s, x)
  PROVE  DirectoryInv'
<1>0. /\ ClaimsSound(directory) /\ \A t \in Sessions, r \in SessionRuns : Linked(t, r)
      /\ \A q \in SessionRuns : routes'[q] \in {routes[q], NoRoute}
      /\ \A t \in Sessions, q \in SessionRuns :
           \/ crewSession'[t][q] = crewSession[t][q] \/ crewSession'[t][q] = "none"
           \/ crewSession'[t][q] = "ended" /\ q \in overdue
      /\ \A q \in SessionRuns :
           /\ Holds(s, q) /\ routes'[q] # NoRoute /\ routes'[q].session = s
           => \/ x # NoSession /\ x.active = q /\ x.state = "live"
              \/ crewSession'[s][q] # "running" /\ StartsOver(q)
  BY DEF DirectoryInv, Releases
<1>1. /\ directory' \in [Sessions -> DirectoryRecords \cup {NoSession}] /\ directory'[s] = x
      /\ \A t \in Sessions \ {s} : directory'[t] = directory[t]
  BY <1>0 DEF ClaimsSound
<1>2. ClaimsSound(directory')
  BY <1>0, <1>1 DEF ClaimsSound
<1>3. ASSUME NEW t \in Sessions, NEW r \in SessionRuns
      PROVE  Linked(t, r)'
  <2>1. StartsOver(r)' <=> StartsOver(r)
    BY DEF StartsOver
  <2>2. crewSession'[t][r] \in {"running", "ended"} => StartsOver(r)'
    BY <1>0, <2>1 DEF Linked, StartsOver
  <2>3. ASSUME routes'[r] # NoRoute, routes'[r].session = t
        PROVE  Holds(t, r)' \/ (crewSession'[t][r] # "running" /\ StartsOver(r)')
    <3>1. routes'[r] = routes[r]
      BY <1>0, <2>3
    <3>2. CASE ~Holds(t, r)
      <4>1. crewSession[t][r] # "running" /\ StartsOver(r)
        BY <1>0, <2>3, <3>1, <3>2 DEF Linked
      <4>2. crewSession'[t][r] # "running"
        BY <1>0, <4>1
      <4> QED BY <2>1, <4>1, <4>2
    <3>3. CASE Holds(t, r) /\ t # s
      BY <1>1, <3>3 DEF Holds
    <3>4. CASE Holds(t, r) /\ t = s
      BY <1>0, <1>1, <2>1, <2>3, <3>4 DEF Holds
    <3> QED BY <3>2, <3>3, <3>4
  <2> QED BY <2>2, <2>3 DEF Linked
<1> QED BY <1>2, <1>3 DEF DirectoryInv

\* A record of the directory and what is written in it.
LEMMA RecordFields ==
  ASSUME ClaimsSound(directory), NEW s \in Listed
  PROVE  /\ s \in Sessions /\ directory[s] \in DirectoryRecords /\ directory[s] # NoSession
         /\ directory[s].active \in SessionRuns \cup {NoRun}
         /\ directory[s].state \in {"live", "deleting"} /\ directory[s].branch \in 1..MaxBranch
         /\ directory[s].aged \in BOOLEAN /\ directory[s].intent \in {"none", "owner", "expiry"}
         /\ directory[s].intent # "none" => directory[s].state = "deleting"
<1>1. s \in Sessions /\ directory[s] # NoSession /\ directory[s] \in DirectoryRecords
  BY DEF Listed, ClaimsSound
<1> QED BY <1>1 DEF DirectoryRecords, ClaimsSound

\* The Run that lets a session go has ended there, or is past its deadline unknown.
LEMMA ReconcilableRun ==
  ASSUME DirectoryInv, NEW s \in Sessions, NEW r \in SessionRuns, Holds(s, r),
         Reconcilable(s) \/ RunEnded(s, r)
  PROVE  crewSession[s][r] # "running" /\ StartsOver(r)
<1>1. r # NoRun /\ Linked(s, r)
  BY DirectoryNumbers DEF DirectoryInv
<1>2. RunEnded(s, r) \/ (RunUnknown(s, r) /\ r \in overdue)
  BY <1>1 DEF Holds, Reconcilable
<1> QED BY <1>1, <1>2 DEF RunEnded, RunUnknown, Linked, StartsOver

\* The session is let go, ages, or is claimed for deletion.
LEMMA ReleaseSteps ==
  ASSUME DirectoryInv,
         \/ \E r \in SessionRuns : CompleteSessionRun(r)
         \/ \E s \in Sessions : RetentionPasses(s) \/ ReserveDeletion(s) \/ ClaimExpired(s)
  PROVE  DirectoryInv' /\ KeepsRouted
<1>0. /\ StartsSound(starts) /\ ClaimsSound(directory) /\ HeldTyped
      /\ directory \in [Sessions -> DirectoryRecords \cup {NoSession}]
  BY DEF DirectoryInv, ClaimsSound
<1>1. ASSUME NEW r \in SessionRuns, CompleteSessionRun(r)
      PROVE  DirectoryInv' /\ KeepsRouted
  <2> DEFINE s == routes[r].session
             x == [directory[s] EXCEPT !.active = NoRun]
  <2>1. /\ RunEnded(s, r) /\ s \in Listed /\ directory[s].active = r
        /\ directory' = [directory EXCEPT ![s].active = NoRun]
        /\ UNCHANGED <<routes, crewSession, starts, permits, overdue, events>>
    BY <1>1 DEF CompleteSessionRun, Cleared
  <2> HIDE DEF s
  <2>2. /\ s \in Sessions /\ x \in DirectoryRecords
        /\ x.intent = directory[s].intent /\ x.state = directory[s].state
    BY <1>0, <2>1, RecordFields DEF DirectoryRecords
  <2>3. directory' = [directory EXCEPT ![s] = x]
    BY <1>0, <2>1, <2>2
  <2> HIDE DEF x
  <2>4. x.intent # "none" => x.state = "deleting"
    BY <1>0, <2>1, <2>2, RecordFields
  <2>5. \A q \in SessionRuns : Holds(s, q) => crewSession[s][q] # "running" /\ StartsOver(q)
    BY <2>1, <2>2, ReconcilableRun DEF Holds
  <2>6. HeldTyped'
    BY <1>0, <2>1 DEF HeldTyped
  <2>7. Releases(s, x) /\ KeepsRouted
    BY <2>1, <2>5 DEF KeepsRouted, Releases
  <2>8. DirectoryInv'
    BY <1>0, <2>1, <2>2, <2>3, <2>4, <2>6, <2>7, RecordWritten
  <2> QED BY <2>7, <2>8
<1>2. ASSUME NEW s \in Sessions, RetentionPasses(s)
      PROVE  DirectoryInv' /\ KeepsRouted
  <2> DEFINE x == [directory[s] EXCEPT !.aged = TRUE]
  <2>1. /\ s \in Listed /\ directory' = [directory EXCEPT ![s].aged = TRUE]
        /\ UNCHANGED <<routes, crewSession, starts, permits, overdue, events>>
    BY <1>2 DEF RetentionPasses
  <2>2. /\ x \in DirectoryRecords /\ x.active = directory[s].active
        /\ x.intent = directory[s].intent /\ x.state = directory[s].state
    BY <1>0, <2>1, RecordFields DEF DirectoryRecords
  <2>3. directory' = [directory EXCEPT ![s] = x]
    BY <1>0, <2>1
  <2> HIDE DEF x
  <2>4. (x.intent # "none" => x.state = "deleting") /\ x # NoSession
    BY <1>0, <2>1, <2>2, RecordFields, DirectoryNumbers
  <2>5. HeldTyped'
    BY <1>0, <2>1 DEF HeldTyped
  <2>6. \A q \in SessionRuns : Holds(s, q) => x.active = q /\ x.state = "live"
    BY <2>2 DEF Holds
  <2>7. Releases(s, x) /\ KeepsRouted
    BY <2>1, <2>4, <2>6 DEF KeepsRouted, Releases
  <2>8. DirectoryInv'
    BY <1>0, <2>1, <2>2, <2>3, <2>4, <2>5, <2>7, RecordWritten
  <2> QED BY <2>7, <2>8
<1>3. ASSUME NEW s \in Sessions, ClaimExpired(s)
      PROVE  DirectoryInv' /\ KeepsRouted
  <2> DEFINE x == [directory[s] EXCEPT !.state = "deleting", !.intent = "expiry"]
  <2>1. /\ s \in Listed /\ directory[s].active = NoRun
        /\ directory' = [directory EXCEPT ![s].state = "deleting", ![s].intent = "expiry"]
        /\ UNCHANGED <<routes, crewSession, starts, permits, overdue, events>>
    BY <1>3 DEF ClaimExpired, ExpiredIdle
  <2>2. x \in DirectoryRecords /\ x.state = "deleting"
    BY <1>0, <2>1, RecordFields DEF DirectoryRecords
  <2>3. directory' = [directory EXCEPT ![s] = x]
    BY <1>0, <2>1
  <2> HIDE DEF x
  <2>4. HeldTyped' /\ \A q \in SessionRuns : ~Holds(s, q)
    BY <1>0, <2>1, DirectoryNumbers DEF HeldTyped, Holds
  <2>5. Releases(s, x) /\ KeepsRouted
    BY <2>1, <2>4 DEF Releases, KeepsRouted
  <2>6. DirectoryInv'
    BY <1>0, <2>1, <2>2, <2>3, <2>4, <2>5, RecordWritten
  <2> QED BY <2>5, <2>6
<1>4. ASSUME NEW s \in Sessions, ReserveDeletion(s)
      PROVE  DirectoryInv' /\ KeepsRouted
  <2> DEFINE r == directory[s].active
             x == [directory[s] EXCEPT !.active = NoRun, !.state = "deleting", !.intent = "owner"]
  <2>1. /\ s \in Listed /\ Releasable(s)
        /\ crewSession' = IF r # NoRun /\ r \in overdue
                            THEN [crewSession EXCEPT ![s][r] =
                                    IF crewSession[s][r] = "none" THEN "none" ELSE "ended"]
                            ELSE crewSession
        /\ directory' = [[directory EXCEPT ![s].active = NoRun] EXCEPT ![s].state = "deleting",
                                                                       ![s].intent = "owner"]
        /\ UNCHANGED <<routes, starts, permits, overdue, events>>
    BY <1>0, <1>4 DEF ReserveDeletion, Cleared, HeldTyped
  <2>2. x \in DirectoryRecords /\ x.state = "deleting"
    BY <1>0, <2>1, RecordFields DEF DirectoryRecords
  <2>3. directory' = [directory EXCEPT ![s] = x]
    BY <1>0, <2>1
  <2>4. r \in SessionRuns \cup {NoRun}
    BY <1>0, <2>1, RecordFields
  <2>5. ASSUME NEW q \in SessionRuns, Holds(s, q), routes[q] # NoRoute
        PROVE  crewSession'[s][q] # "running" /\ StartsOver(q)
    <3>1. q = r /\ r # NoRun
      BY <2>5, DirectoryNumbers DEF Holds
    <3> HIDE DEF r, x
    <3>2. CASE r \in overdue
      <4>1. crewSession'[s][r] = IF crewSession[s][r] = "none" THEN "none" ELSE "ended"
        BY <1>0, <2>1, <3>1, <3>2 DEF HeldTyped
      <4> QED BY <3>1, <3>2, <4>1 DEF StartsOver
    <3>3. CASE r \notin overdue
      <4>1. Reconcilable(s) /\ crewSession' = crewSession
        BY <2>1, <3>1, <3>3 DEF Releasable, r
      <4> QED BY <2>5, <4>1, ReconcilableRun
    <3> QED BY <3>2, <3>3
  <2> HIDE DEF r, x
  <2>6. HeldTyped'
    <3>1. crewSession' \in [Sessions -> [SessionRuns -> {"none", "recorded", "running", "ended"}]]
      BY <1>0, <2>1, <2>4 DEF HeldTyped
    <3> QED BY <1>0, <2>1, <3>1 DEF HeldTyped
  <2>7. \A t \in Sessions, q \in SessionRuns :
           \/ crewSession'[t][q] = crewSession[t][q]
           \/ crewSession'[t][q] = "ended" /\ q \in overdue
    BY <1>0, <2>1, <2>4 DEF HeldTyped
  <2>8. KeepsRouted
    BY <2>7 DEF KeepsRouted
  <2>9. Releases(s, x)
    BY <2>1, <2>5, <2>7 DEF Releases
  <2>10. DirectoryInv'
    <3>1. s \in Sessions
      BY <1>0, <2>1, RecordFields
    <3> QED BY <1>0, <2>1, <2>2, <2>3, <2>6, <2>9, <3>1, RecordWritten
  <2> QED BY <2>8, <2>10
<1> QED BY <1>1, <1>2, <1>3, <1>4


\* A prepared session is rolled back.
LEMMA RollbackSound ==
  ASSUME DirectoryInv, NEW a \in StartIds, Rollback(a)
  PROVE  DirectoryInv' /\ KeepsRouted
<1> DEFINE r == Starts[a].run
           route == starts[a].route
           s == route.session
<1>0. /\ StartsSound(starts) /\ ClaimsSound(directory) /\ HeldTyped
      /\ directory \in [Sessions -> DirectoryRecords \cup {NoSession}]
      /\ \A t \in Sessions, q \in SessionRuns : Linked(t, q)
  BY DEF DirectoryInv, ClaimsSound
<1>1. /\ route \in Routes /\ s \in Sessions /\ r \in SessionRuns /\ route.previous \in 0..MaxBranch
  BY <1>0, DirectoryNumbers DEF Rollback, StartsSound, StartRecords, Routed, Routes
<1>2. /\ starts' = [starts EXCEPT ![a].phase = "done"]
      /\ UNCHANGED <<crewSession, permits, overdue, events>>
      /\ \/ UNCHANGED <<directory, routes>>
         \/ /\ s \in Listed /\ directory[s].active = r
            /\ directory' = IF route.previous = 0 THEN [directory EXCEPT ![s] = NoSession]
                            ELSE [directory EXCEPT ![s].active = NoRun,
                                                   ![s].branch = route.previous]
            /\ routes' = [routes EXCEPT ![r] = NoRoute]
  BY DEF Rollback, Returned
<1> HIDE DEF r, s
<1>3. StartsSound(starts') /\ KeepsRouted
  BY <1>0, <1>2, StartsMove DEF StartPhases, Routed, KeepsRouted
<1>4. CASE UNCHANGED <<directory, routes>>
  <2>1. HeldTyped' /\ \A t \in Sessions, q \in SessionRuns : Linked(t, q)'
    BY <1>0, <1>2, <1>4 DEF HeldTyped, Linked, Holds, StartsOver
  <2> QED BY <1>0, <1>3, <1>4, <2>1 DEF DirectoryInv
<1>5. CASE ~UNCHANGED <<directory, routes>>
  <2> DEFINE x == IF route.previous = 0 THEN NoSession
                  ELSE [directory[s] EXCEPT !.active = NoRun, !.branch = route.previous]
  <2>1. /\ s \in Listed /\ directory[s].active = r /\ routes' = [routes EXCEPT ![r] = NoRoute]
    BY <1>2, <1>5
  <2>2. directory[s] \in DirectoryRecords
    BY <1>0, <2>1, RecordFields
  <2>3. x \in DirectoryRecords \cup {NoSession}
    <3>1. CASE route.previous = 0
      BY <3>1
    <3>2. CASE route.previous # 0
      <4>1. route.previous \in 1..MaxBranch
        BY <1>1, <3>2
      <4> HIDE DEF route
      <4>2. [directory[s] EXCEPT !.active = NoRun, !.branch = route.previous] \in DirectoryRecords
        BY <2>2, <4>1 DEF DirectoryRecords
      <4> QED BY <3>2, <4>2
    <3> QED BY <3>1, <3>2
  <2>4. directory' = [directory EXCEPT ![s] = x]
    BY <1>0, <1>1, <1>2, <1>5
  <2>5. x # NoSession => x.intent = directory[s].intent /\ x.state = directory[s].state
    BY <2>2 DEF DirectoryRecords
  <2> HIDE DEF x, route
  <2>6. x # NoSession /\ x.intent # "none" => x.state = "deleting"
    BY <1>0, <2>1, <2>5, RecordFields
  <2>7. HeldTyped'
    BY <1>0, <1>1, <1>2, <2>1 DEF HeldTyped
  <2>8. Releases(s, x)
    <3>1. routes'[r] = NoRoute /\ \A q \in SessionRuns \ {r} : routes'[q] = routes[q]
      BY <1>0, <1>1, <2>1 DEF HeldTyped
    <3>2. \A q \in SessionRuns : Holds(s, q) => q = r
      BY <2>1 DEF Holds
    <3> QED BY <1>2, <3>1, <3>2 DEF Releases
  <2>9. DirectoryInv'
    BY <1>1, <1>2, <1>3, <2>3, <2>4, <2>6, <2>7, <2>8, RecordWritten
  <2> QED BY <1>3, <2>9
<1> QED BY <1>4, <1>5

\* A session that was claimed is emptied, its record removed, and its routes forgotten.
LEMMA DeletionSteps ==
  ASSUME DirectoryInv, NEW s \in Sessions,
         \/ \E answered \in BOOLEAN : FinishDeletion(s, answered) \/ DeleteExpired(s, answered)
         \/ ForgetReceipt(s)
  PROVE  DirectoryInv' /\ KeepsRouted
<1>0. /\ StartsSound(starts) /\ ClaimsSound(directory) /\ HeldTyped
      /\ directory \in [Sessions -> DirectoryRecords \cup {NoSession}]
      /\ \A t \in Sessions, q \in SessionRuns : Linked(t, q)
  BY DEF DirectoryInv, ClaimsSound
<1>1. PICK x \in DirectoryRecords \cup {NoSession} :
        /\ directory' = [directory EXCEPT ![s] = x]
        /\ x = NoSession \/ x = directory[s]
  <2>1. directory' = directory \/ directory' = [directory EXCEPT ![s] = NoSession]
    BY DEF FinishDeletion, DeleteExpired, ForgetReceipt
  <2>2. directory = [directory EXCEPT ![s] = directory[s]] /\ directory[s] \in DirectoryRecords \cup {NoSession}
    BY <1>0
  <2>3. CASE directory' = directory
    BY <2>2, <2>3
  <2>4. CASE directory' = [directory EXCEPT ![s] = NoSession]
    BY <2>4
  <2> QED BY <2>1, <2>3, <2>4
<1>2. /\ crewSession' = crewSession \/ crewSession' = Emptied(s)
      /\ routes' = routes \/ routes' = Unrouted(s)
      /\ UNCHANGED <<starts, permits, overdue, events>>
  BY DEF FinishDeletion, DeleteExpired, ForgetReceipt
<1>3. \A q \in SessionRuns : ~Holds(s, q)
  <2>1. CASE directory[s] = NoSession
    BY <2>1 DEF Holds
  <2>2. CASE directory[s] # NoSession
    <3>1. directory[s].intent \in {"owner", "expiry"}
      BY <2>2 DEF FinishDeletion, DeleteExpired, ForgetReceipt
    <3>2. directory[s].state = "deleting"
      BY <1>0, <2>2, <3>1 DEF ClaimsSound
    <3> QED BY <3>2 DEF Holds
  <2> QED BY <2>1, <2>2
<1>4. \A q \in SessionRuns : routes'[q] \in {routes[q], NoRoute}
  BY <1>0, <1>2 DEF Unrouted, HeldTyped
<1>5. \A t \in Sessions, q \in SessionRuns :
        \/ crewSession'[t][q] = crewSession[t][q]
        \/ t = s /\ crewSession'[t][q] = "none"
  BY <1>0, <1>2 DEF Emptied, HeldTyped
<1>6. HeldTyped'
  <2>1. routes' \in [SessionRuns -> Routes \cup {NoRoute}]
    BY <1>0, <1>2 DEF Unrouted, HeldTyped
  <2>2. crewSession' \in [Sessions -> [SessionRuns -> {"none", "recorded", "running", "ended"}]]
    BY <1>0, <1>2 DEF Emptied, HeldTyped
  <2> QED BY <1>0, <1>2, <2>1, <2>2 DEF HeldTyped
<1>7. Releases(s, x)
  BY <1>3, <1>4, <1>5 DEF Releases
<1>8. x # NoSession /\ x.intent # "none" => x.state = "deleting"
  BY <1>0, <1>1 DEF ClaimsSound
<1>9. DirectoryInv'
  BY <1>0, <1>1, <1>2, <1>6, <1>7, <1>8, RecordWritten
<1>10. KeepsRouted
  <2>1. ASSUME NEW t \in Sessions, NEW q \in SessionRuns, crewSession[t][q] = "running",
               crewSession'[t][q] = "none", routes[q].session = t
        PROVE  FALSE
    <3>1. t = s /\ routes[q] # NoRoute
      BY <1>5, <2>1, DirectoryNumbers
    <3> QED BY <1>0, <1>3, <2>1, <3>1 DEF Linked
  <2> QED BY <2>1 DEF KeepsRouted
<1> QED BY <1>9, <1>10


\* A start that was not prepared yet gets a route: to a session of its own, or to one
\* that another Run has let go.
LEMMA RoutedSound ==
  ASSUME DirectoryInv, NEW a \in StartIds, NEW s \in Sessions, NEW x \in DirectoryRecords,
         NEW route \in Routes, route.session = s,
         directory' = [directory EXCEPT ![s] = x],
         x.state = "live" /\ x.active = Starts[a].run /\ x.intent = "none",
         routes' = [routes EXCEPT ![Starts[a].run] = route],
         starts' = Accepting(a, route),
         UNCHANGED <<crewSession, permits, overdue, events>>,
         \A q \in SessionRuns : Holds(s, q) => crewSession[s][q] # "running" /\ StartsOver(q)
  PROVE  DirectoryInv' /\ KeepsRouted
<1> DEFINE r == Starts[a].run
<1>0. /\ StartsSound(starts) /\ ClaimsSound(directory) /\ HeldTyped
      /\ directory \in [Sessions -> DirectoryRecords \cup {NoSession}]
      /\ \A t \in Sessions, q \in SessionRuns : Linked(t, q)
  BY DEF DirectoryInv, ClaimsSound
<1>1. r \in SessionRuns /\ x # NoSession
  BY DirectoryNumbers
<1> HIDE DEF r
<1>2. /\ directory'[s] = x /\ \A t \in Sessions \ {s} : directory'[t] = directory[t]
      /\ routes'[r] = route /\ \A q \in SessionRuns \ {r} : routes'[q] = routes[q]
  BY <1>0, <1>1 DEF HeldTyped, r
<1>3. StartsSound(starts')
  BY <1>0, StartsMove
<1>4. ClaimsSound(directory')
  BY <1>0, <1>2 DEF ClaimsSound
<1>5. HeldTyped'
  BY <1>0, <1>1 DEF HeldTyped, r
<1>6. ASSUME NEW t \in Sessions, NEW q \in SessionRuns
      PROVE  Linked(t, q)'
  <2>1. crewSession'[t][q] = crewSession[t][q] /\ (StartsOver(q)' <=> StartsOver(q)) /\ Linked(t, q)
    BY <1>0 DEF StartsOver
  <2>2. CASE q = r
    <3>1. t = s => Holds(t, q)'
      BY <1>1, <1>2, <2>2 DEF Holds, r
    <3> QED BY <1>2, <2>1, <2>2, <3>1 DEF Linked
  <2>3. CASE q # r /\ t # s
    <3>1. Holds(t, q)' <=> Holds(t, q)
      BY <1>2, <2>3 DEF Holds
    <3> QED BY <1>2, <2>1, <2>3, <3>1 DEF Linked
  <2>4. CASE q # r /\ t = s
    BY <1>2, <2>1, <2>4 DEF Linked
  <2> QED BY <2>2, <2>3, <2>4
<1>7. KeepsRouted
  BY DEF KeepsRouted
<1> QED BY <1>3, <1>4, <1>5, <1>6, <1>7 DEF DirectoryInv

\* The steps that prepare a session.
LEMMA PrepareSteps ==
  ASSUME DirectoryInv, NEW a \in StartIds, NEW s \in Sessions,
         PrepareNew(a, s) \/ PrepareContinuation(a, s)
  PROVE  DirectoryInv' /\ KeepsRouted
<1>0. /\ StartsSound(starts) /\ ClaimsSound(directory) /\ HeldTyped
      /\ directory \in [Sessions -> DirectoryRecords \cup {NoSession}]
  BY DEF DirectoryInv, ClaimsSound
<1>1. CASE PrepareNew(a, s)
  <2> DEFINE x == [state |-> "live", active |-> Starts[a].run, branch |-> 1, aged |-> FALSE,
                   intent |-> "none"]
             route == [session |-> s, branch |-> 1, previous |-> 0]
  <2>1. /\ directory' = [directory EXCEPT ![s] = x] /\ directory[s] = NoSession
        /\ routes' = [routes EXCEPT ![Starts[a].run] = route]
        /\ starts' = Accepting(a, route)
        /\ UNCHANGED <<crewSession, permits, overdue, events>>
    BY <1>1 DEF PrepareNew, NeverUsed
  <2>2. x \in DirectoryRecords /\ route \in Routes
    BY <1>1, DirectoryNumbers DEF DirectoryRecords, Routes
  <2>3. x.state = "live" /\ x.active = Starts[a].run /\ x.intent = "none" /\ route.session = s
    OBVIOUS
  <2>4. \A q \in SessionRuns : ~Holds(s, q)
    BY <2>1 DEF Holds
  <2> HIDE DEF x, route
  <2> QED BY <2>1, <2>2, <2>3, <2>4, RoutedSound
<1>2. CASE PrepareContinuation(a, s)
  <2> DEFINE reconciled == IF Reconcilable(s) /\ directory[s].state = "live"
                             THEN Cleared(s)[s] ELSE directory[s]
             route == [session |-> s, branch |-> reconciled.branch + 1,
                       previous |-> reconciled.branch]
             x == [reconciled EXCEPT !.active = Starts[a].run, !.branch = reconciled.branch + 1]
  <2>1. s \in Listed /\ directory[s] \in DirectoryRecords
    BY <1>0, <1>2, RecordFields DEF PrepareContinuation
  <2>2. Cleared(s)[s] = [directory[s] EXCEPT !.active = NoRun]
    BY <1>0 DEF Cleared
  <2>3. /\ reconciled \in DirectoryRecords /\ reconciled.state = directory[s].state
        /\ reconciled.intent = directory[s].intent
        /\ reconciled.branch \in 1..MaxBranch
        /\ reconciled.active \in {directory[s].active, NoRun}
        /\ reconciled.active # directory[s].active => Reconcilable(s)
    <3>1. /\ [directory[s] EXCEPT !.active = NoRun] \in DirectoryRecords
          /\ [directory[s] EXCEPT !.active = NoRun].state = directory[s].state
          /\ [directory[s] EXCEPT !.active = NoRun].intent = directory[s].intent
          /\ [directory[s] EXCEPT !.active = NoRun].branch = directory[s].branch
          /\ [directory[s] EXCEPT !.active = NoRun].active = NoRun
          /\ directory[s].branch \in 1..MaxBranch
      BY <2>1 DEF DirectoryRecords
    <3> QED BY <2>1, <2>2, <3>1
  <2>4. /\ reconciled.branch < MaxBranch
        /\ UNCHANGED <<crewSession, permits, overdue, events>>
        /\ \/ /\ Unclaimed(reconciled) /\ directory' = [directory EXCEPT ![s] = x]
              /\ routes' = [routes EXCEPT ![Starts[a].run] = route]
              /\ starts' = Accepting(a, route)
           \/ /\ directory' = [directory EXCEPT ![s] = reconciled]
              /\ starts' = Returned(a) /\ UNCHANGED routes
    BY <1>2 DEF PrepareContinuation
  <2> HIDE DEF reconciled
  <2>5. \A q \in SessionRuns : Holds(s, q) /\ reconciled.active # q =>
          crewSession[s][q] # "running" /\ StartsOver(q)
    BY <2>3, ReconcilableRun DEF Holds
  <2>6. CASE /\ Unclaimed(reconciled) /\ directory' = [directory EXCEPT ![s] = x]
             /\ routes' = [routes EXCEPT ![Starts[a].run] = route]
             /\ starts' = Accepting(a, route)
    <3>1. reconciled.branch + 1 \in 1..MaxBranch /\ reconciled.branch \in 0..MaxBranch
      BY <2>3, <2>4, DirectoryNumbers
    <3>2. /\ x \in DirectoryRecords /\ x.active = Starts[a].run /\ x.state = reconciled.state
          /\ x.intent = reconciled.intent
      BY <2>3, <3>1, DirectoryNumbers DEF DirectoryRecords
    <3>3. route \in Routes /\ route.session = s
      BY <3>1 DEF Routes
    <3>4. x.state = "live" /\ x.intent = "none"
      BY <1>0, <2>1, <2>3, <2>6, <3>2, RecordFields DEF Unclaimed
    <3>5. \A q \in SessionRuns : Holds(s, q) => crewSession[s][q] # "running" /\ StartsOver(q)
      BY <2>5, <2>6, DirectoryNumbers DEF Unclaimed
    <3> HIDE DEF x, route
    <3> QED BY <2>4, <2>6, <3>2, <3>3, <3>4, <3>5, RoutedSound
  <2>7. CASE /\ directory' = [directory EXCEPT ![s] = reconciled]
             /\ starts' = Returned(a) /\ UNCHANGED routes
    <3>1. StartsSound(starts') /\ HeldTyped'
      BY <1>0, <2>4, <2>7, StartsMove DEF Returned, HeldTyped, StartPhases, Routed
    <3>2. Releases(s, reconciled) /\ KeepsRouted
      <4>1. \A q \in SessionRuns : Holds(s, q) /\ reconciled.active = q => reconciled.state = "live"
        BY <2>3 DEF Holds
      <4>2. reconciled # NoSession
        BY <2>3, DirectoryNumbers
      <4> QED BY <2>4, <2>5, <2>7, <4>1, <4>2 DEF Releases, KeepsRouted
    <3>3. reconciled.intent # "none" => reconciled.state = "deleting"
      BY <1>0, <2>1, <2>3, RecordFields
    <3>4. DirectoryInv'
      BY <2>3, <2>4, <2>7, <3>1, <3>2, <3>3, RecordWritten
    <3> QED BY <3>2, <3>4
  <2> QED BY <2>4, <2>6, <2>7
<1> QED BY <1>1, <1>2


\* Every step of the directory keeps its invariant, and the Runs that are routed.
LEMMA DirectoryStepSound ==
  ASSUME DirectoryInv, SessionDirectoryNext
  PROVE  DirectoryInv' /\ KeepsRouted
<1>1. ASSUME DirectoryInv', UNCHANGED crewSession
      PROVE  DirectoryInv' /\ KeepsRouted
  BY <1>1 DEF KeepsRouted
<1>2. CASE \E a \in StartIds : \/ \E seen \in 0..MaxBranch : SendStart(a, seen)
                               \/ PrepareAgain(a) \/ PrepareWaits(a)
  BY <1>1, <1>2, QuietSteps
<1>3. CASE \E r \in SessionRuns :
             \/ DeadlinePasses(r) \/ AttachRun(r) \/ SealDeliveries(r)
             \/ \E answered \in BOOLEAN : ReadEnd(r, answered) \/ SendEvent(r, answered)
  BY <1>1, <1>3, QuietSteps
<1>4. CASE \E a \in StartIds : Rollback(a)
  BY <1>4, RollbackSound
<1>5. CASE \E a \in StartIds : \E s \in Sessions : PrepareNew(a, s) \/ PrepareContinuation(a, s)
  BY <1>5, PrepareSteps
<1>6. CASE \/ \E a \in StartIds :
                \/ \E submitted \in BOOLEAN : Accept(a, submitted)
                \/ \E reached \in {"none", "recorded", "running"} : AcceptFails(a, reached)
                \/ \E answered \in BOOLEAN : InspectFailed(a, answered)
           \/ \E s \in Sessions, r \in SessionRuns : RunEnds(s, r)
  BY <1>6, CrewSessionSteps
<1>7. CASE \/ \E r \in SessionRuns : CompleteSessionRun(r)
           \/ \E s \in Sessions : RetentionPasses(s) \/ ReserveDeletion(s) \/ ClaimExpired(s)
  BY <1>7, ReleaseSteps
<1>8. CASE \E s \in Sessions :
             \/ \E answered \in BOOLEAN : FinishDeletion(s, answered) \/ DeleteExpired(s, answered)
             \/ ForgetReceipt(s)
  BY <1>8, DeletionSteps
<1> QED BY <1>2, <1>3, <1>4, <1>5, <1>6, <1>7, <1>8 DEF SessionDirectoryNext

\* A directory without sessions, an inbox without items and a session without a Run.
LEMMA AgentRunsStart ==
  ASSUME AgentRunsInit
  PROVE  CrewInv /\ InboxInv /\ DirectoryInv
<1>1. CrewInv
  <2>1. 0 \in 0..2
    OBVIOUS
  <2> QED BY <2>1, FreshSound DEF AgentRunsInit, AdmittedRunsInit, CrewInv
<1>2. InboxInv
  <2>1. CarriersTyped
    BY InboxNumbers DEF AgentRunsInit, AgentInboxInit, CarriersTyped
  <2>2. items = [i \in ItemIds |-> NoItem] /\ acknowledged = {}
    BY DEF AgentRunsInit, AgentInboxInit
  <2>3. Stored(items) = {} /\ items \in Board /\ items[Deferral] = NoItem
    BY <2>2, InboxNumbers DEF Stored, Board
  <2>4. Cardinality(Stored(items)) = 0
    BY <2>3, FS_EmptySet
  <2>5. Cardinality(Stored(items)) <= MaxItems
    BY <2>4, InboxNumbers
  <2> QED BY <2>1, <2>2, <2>3, <2>5 DEF InboxInv, BoardSound, AckSound
<1>3. DirectoryInv
  <2>1. StartsSound(starts)
    BY DirectoryNumbers
       DEF AgentRunsInit, SessionDirectoryInit, StartsSound, StartRecords, StartPhases, Routed
  <2>2. ClaimsSound(directory)
    BY DEF AgentRunsInit, SessionDirectoryInit, ClaimsSound
  <2>3. HeldTyped
    BY DEF AgentRunsInit, SessionDirectoryInit, HeldTyped
  <2>4. \A s \in Sessions, r \in SessionRuns : Linked(s, r)
    BY DEF AgentRunsInit, SessionDirectoryInit, Linked
  <2> QED BY <2>1, <2>2, <2>3, <2>4 DEF DirectoryInv
<1> QED BY <1>1, <1>2, <1>3

AgentRunsInv == CrewInv /\ InboxInv /\ DirectoryInv

\* What an Agent keeps of its Runs, over every step of the session, of the inbox and of
\* the directory.
LEMMA AgentRunsStep ==
  ASSUME AgentRunsInv, [AgentRunsNext]_agentRunsVars
  PROVE  /\ AgentRunsInv'
         /\ UNCHANGED inboxVars \/ (Keeps(items') /\ moment' \in Nat /\ moment' >= moment)
         /\ UNCHANGED directoryVars \/ KeepsRouted
<1>1. UNCHANGED crew => CrewInv'
  BY DEF AgentRunsInv, CrewInv
<1>2. UNCHANGED inboxVars => InboxInv'
  BY DEF AgentRunsInv, inboxVars, InboxInv, CarriersTyped
<1>3. UNCHANGED directoryVars => DirectoryInv'
  BY DEF AgentRunsInv, directoryVars, DirectoryInv, HeldTyped, Linked, Holds, StartsOver
<1>4. CASE AdmittedRunsNext /\ UNCHANGED <<inboxVars, directoryVars>>
  <2>1. CrewInv'
    BY <1>4, CrewStep DEF AgentRunsInv, CrewInv
  <2> QED BY <1>2, <1>3, <1>4, <2>1 DEF AgentRunsInv
<1>5. CASE AgentInboxNext /\ UNCHANGED <<crew, directoryVars>>
  BY <1>1, <1>3, <1>5, InboxStep DEF AgentRunsInv
<1>6. CASE SessionDirectoryNext /\ UNCHANGED <<crew, inboxVars>>
  BY <1>1, <1>2, <1>6, DirectoryStepSound DEF AgentRunsInv
<1>7. CASE UNCHANGED agentRunsVars
  <2>1. UNCHANGED crew /\ UNCHANGED inboxVars /\ UNCHANGED directoryVars
    BY <1>7 DEF agentRunsVars
  <2> QED BY <1>1, <1>2, <1>3, <2>1 DEF AgentRunsInv
<1> QED BY <1>4, <1>5, <1>6, <1>7 DEF AgentRunsNext, DirectoryStep

\* The session's record, the inbox, its deliveries and the directory are of their types
\* in every behaviour of the three.
THEOREM AgentRunsTypeCorrect == AgentRunsSpec => []AgentRunsTypeOK
<1>1. AgentRunsInit => AgentRunsInv
  BY AgentRunsStart DEF AgentRunsInv
<1>2. AgentRunsInv /\ [AgentRunsNext]_agentRunsVars => AgentRunsInv'
  BY AgentRunsStep
<1>3. AgentRunsInv => AgentRunsTypeOK
  <2> SUFFICES ASSUME AgentRunsInv
               PROVE  AgentRunsTypeOK
    OBVIOUS
  <2>1. AdmittedRunsTypeOK
    BY DEF AgentRunsInv, CrewInv, CrewSound, AdmittedRunsTypeOK
  <2>2. AgentInboxTypeOK
    BY DEF AgentRunsInv, InboxInv, CarriersTyped, BoardSound, Board, AckSound, AgentInboxTypeOK
  <2>3. SessionDirectoryTypeOK
    BY DEF AgentRunsInv, DirectoryInv, StartsSound, ClaimsSound, HeldTyped, StartRecords,
           StartPhases, SessionDirectoryTypeOK
  <2> QED BY <2>1, <2>2, <2>3 DEF AgentRunsTypeOK
<1> QED BY <1>1, <1>2, <1>3, PTL DEF AgentRunsSpec

\* Over lost, late and repeated deliveries no earlier event replaces a later one, no
\* acknowledgement outlives the version it was given for, and pruning takes an item
\* that needs the owner only when all that is kept needs the owner (recordRun,
\* #pruneCapacity), for any number of Runs, capacity and retention.
THEOREM InboxStays == AgentInboxSpec => InboxKeepsWhatMatters
<1>1. AgentInboxInit => InboxInv
  <2> SUFFICES ASSUME AgentInboxInit
               PROVE  InboxInv
    OBVIOUS
  <2>1. CarriersTyped
    BY InboxNumbers DEF AgentInboxInit, CarriersTyped
  <2>2. items = [i \in ItemIds |-> NoItem] /\ acknowledged = {}
    BY DEF AgentInboxInit
  <2>3. Stored(items) = {} /\ items \in Board /\ items[Deferral] = NoItem
    BY <2>2, InboxNumbers DEF Stored, Board
  <2>4. Cardinality(Stored(items)) = 0
    BY <2>3, FS_EmptySet
  <2>5. Cardinality(Stored(items)) <= MaxItems
    BY <2>4, InboxNumbers
  <2> QED BY <2>1, <2>2, <2>3, <2>5 DEF InboxInv, BoardSound, AckSound
<1>2. InboxInv /\ [AgentInboxNext]_inboxVars => InboxInv'
  <2>1. InboxInv /\ UNCHANGED inboxVars => InboxInv'
    BY DEF inboxVars, InboxInv, CarriersTyped
  <2> QED BY <2>1, InboxStep
<1>3. InboxInv /\ AgentInboxNext =>
        /\ \A r \in InboxRuns :
             items[r] # NoItem /\ items'[r] # NoItem => items'[r].at >= items[r].at
        /\ \A a \in acknowledged' : items'[a.item] # NoItem /\ items'[a.item].at = a.version
        /\ \A i \in ItemIds :
             /\ items[i] # NoItem /\ NeedsAction(items[i]) /\ items'[i] = NoItem
             /\ items[i].at + Retention > moment'
             => \A j \in ItemIds : items'[j] # NoItem => NeedsAction(items'[j])
  <2> SUFFICES ASSUME InboxInv, AgentInboxNext
               PROVE  /\ \A r \in InboxRuns :
                           items[r] # NoItem /\ items'[r] # NoItem => items'[r].at >= items[r].at
                      /\ \A a \in acknowledged' :
                           items'[a.item] # NoItem /\ items'[a.item].at = a.version
                      /\ \A i \in ItemIds :
                           /\ items[i] # NoItem /\ NeedsAction(items[i]) /\ items'[i] = NoItem
                           /\ items[i].at + Retention > moment'
                           => \A j \in ItemIds : items'[j] # NoItem => NeedsAction(items'[j])
    OBVIOUS
  <2>1. InboxInv' /\ Keeps(items') /\ moment' \in Nat /\ moment' >= moment
    BY InboxStep
  <2>2. AckSound(items', acknowledged')
    BY <2>1 DEF InboxInv
  <2>3. ASSUME NEW i \in ItemIds, items[i] # NoItem, items[i].at + Retention > moment'
        PROVE  items[i].at + Retention > moment
    <3>1. items[i] \in Items /\ moment \in Nat
      BY <2>3, InboxNumbers DEF InboxInv, BoardSound, Board, CarriersTyped
    <3> QED BY <2>1, <2>3, <3>1, ItemFields, InboxNumbers
  <2> QED BY <2>1, <2>2, <2>3 DEF Keeps, AckSound
<1> QED BY <1>1, <1>2, <1>3, PTL DEF AgentInboxSpec, InboxKeepsWhatMatters

\* The storage of a session goes only when no Run that is routed there still runs:
\* whoever claims a session for deletion, over starts that are repeated, rolled back,
\* late or lost, no Run of it is confirmed any more.
THEOREM RoutedRunsKept == SessionDirectorySpec => NoRoutedRunLost
<1>1. SessionDirectoryInit => DirectoryInv
  <2> SUFFICES ASSUME SessionDirectoryInit
               PROVE  DirectoryInv
    OBVIOUS
  <2>1. StartsSound(starts)
    BY DirectoryNumbers
       DEF SessionDirectoryInit, StartsSound, StartRecords, StartPhases, Routed
  <2>2. ClaimsSound(directory) /\ HeldTyped
    BY DEF SessionDirectoryInit, ClaimsSound, HeldTyped
  <2>3. \A s \in Sessions, r \in SessionRuns : Linked(s, r)
    BY DEF SessionDirectoryInit, Linked
  <2> QED BY <2>1, <2>2, <2>3 DEF DirectoryInv
<1>2. DirectoryInv /\ [SessionDirectoryNext]_directoryVars => DirectoryInv'
  <2>1. DirectoryInv /\ UNCHANGED directoryVars => DirectoryInv'
    BY DEF directoryVars, DirectoryInv, HeldTyped, Linked, Holds, StartsOver
  <2> QED BY <2>1, DirectoryStepSound
<1>3. DirectoryInv /\ SessionDirectoryNext => KeepsRouted
  BY DirectoryStepSound
<1> QED BY <1>1, <1>2, <1>3, PTL DEF SessionDirectorySpec, NoRoutedRunLost, KeepsRouted
=============================================================================
