------------------------------- MODULE RunLife -------------------------------
(***************************************************************************)
(* What the owner promises of its Runs, whatever permits, clocks and       *)
(* authority do to it: a Run is admitted under a key no retained Run has,  *)
(* starts at most once, spends its budget only between its start and its   *)
(* cancellation, and is collected for good. Any Runs may be refused or     *)
(* collected in the step that changes another one.                         *)
(***************************************************************************)
EXTENDS Integers

CONSTANTS Runs, Keys, Payloads

VARIABLE life

LifeRequests == [key : Keys, payload : Payloads]
NoLifeRequest == [key |-> "none", payload |-> "none"]

Unborn == [phase |-> "absent", request |-> NoLifeRequest, cancel |-> "none", spent |-> 0]
Gone == [Unborn EXCEPT !.phase = "gone"]

Retained(run) == run.phase \in {"admitted", "started", "refused"}

\* The steps of one Run, from its record to the next one.
Admitted(old, new) ==
  /\ old = Unborn
  /\ \E q \in LifeRequests : new = [Unborn EXCEPT !.phase = "admitted", !.request = q]

Started(old, new) ==
  /\ old.phase = "admitted" /\ old.cancel = "none"
  /\ new = [old EXCEPT !.phase = "started"]

Spends(old, new) ==
  /\ old.phase = "started" /\ old.cancel = "none"
  /\ new = [old EXCEPT !.spent = @ + 1]

CancelRequested(old, new) ==
  /\ old.phase \in {"admitted", "started"} /\ old.cancel = "none"
  /\ new = [old EXCEPT !.cancel = "requested"]

CancelDecided(old, new) ==
  /\ Retained(old) /\ old.cancel = "requested"
  /\ \E decision \in {"cancelled", "none"} : new = [old EXCEPT !.cancel = decision]

Refused(old, new) == old.phase = "admitted" /\ new = [old EXCEPT !.phase = "refused"]

Collected(old, new) == Retained(old) /\ new = Gone

Swept(old, new) == new = old \/ Refused(old, new) \/ Collected(old, new)

LifeInit == life = [r \in Runs |-> Unborn]

LifeStep(r) ==
  /\ \/ Admitted(life[r], life'[r]) \/ Started(life[r], life'[r]) \/ Spends(life[r], life'[r])
     \/ CancelRequested(life[r], life'[r]) \/ CancelDecided(life[r], life'[r])
     \/ Swept(life[r], life'[r])
  /\ \A other \in Runs \ {r} :
       /\ Swept(life[other], life'[other])
       /\ life[r] = Unborn /\ Retained(life'[r]) /\ Retained(life'[other])
            => life'[other].request.key # life'[r].request.key

LifeNext == \E r \in Runs : LifeStep(r)

LifeSpec == LifeInit /\ [][LifeNext]_life
=============================================================================
