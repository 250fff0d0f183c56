--------------------------- MODULE MCSessionTools ---------------------------
(***************************************************************************)
(* Small instances of SessionTools. "focus" names what a behaviour is      *)
(* about and never changes: "ledger", two calls of one Run, with sessions  *)
(* that do anything; "grant", two Runs, of which each has a call that      *)
(* needs approval and which share a grant, with such sessions too, and in  *)
(* the first half of the retention; "external", one call of one session at *)
(* a provider; "runtime", one call of a runtime tool.                      *)
(***************************************************************************)
EXTENDS SessionTools, TLC

CONSTANTS r1, r2, k1, k2, t1, t2, Focuses, Shared, Early

VARIABLE focus

MCTwoRuns == {r1, r2}
MCTwoKeys == {k1, k2}
MCTwoCalls == {t1, t2}
MCSymmetry ==
  Permutations(MCTwoCalls) \cup Permutations(MCTwoRuns) \cup Permutations(MCTwoKeys)

focusVars == <<focus, sessionToolsVars>>

EffectsInUse == {s.effect : s \in reserving'} \cup {approvals'[t].effect : t \in ToolCalls}

Started(calls) == {t \in calls : crewCalls'[t].phase # "none"}

\* What behaviours with this focus leave alone.
InFocus ==
  /\ focus # "grant" => Cardinality({r \in Runs : admissions'[r].status # "none"}) <= 1
  /\ focus = "grant" => /\ EffectsInUse \subseteq Shared \cup {"none"}
                        /\ \A r \in Runs : /\ admissions'[r].toolCalls <= 1
                                           /\ Present(admissions'[r]) => admissions'[r].keep > Early
  /\ focus = "ledger" => EffectsInUse \cap NeedApproval = {}
  /\ focus = "external" => Started(RuntimeCalls) = {} /\ Cardinality(Started(ToolCalls)) <= 1
  /\ focus = "runtime" => /\ Started(ToolCalls) = {}
                         /\ \A t \in RuntimeCalls : sandboxes'[t].background = "none"
                         /\ \A r \in Runs : admissions[r].keep = 0 => ~alarm'.busy \/ alarm.busy

FocusInit == focus \in Focuses /\ SessionToolsInit

FocusNext ==
  /\ UNCHANGED focus
  /\ IF focus \in {"grant", "ledger"} THEN ToolNext /\ UNCHANGED <<sandboxes, alarm, sessionVars>>
     ELSE SessionToolsNext
  /\ InFocus

FocusSpec == FocusInit /\ [][FocusNext]_focusVars
=============================================================================
