--------------------------- MODULE ProviderConfigs ---------------------------
(***************************************************************************)
(* The authentication configurations an owner has at the provider of its   *)
(* integrations: the enablement of an integration with the provider's own  *)
(* credentials (owner/connections/module.ts, mcp/integration-tools.ts) and *)
(* the setup of one with the owner's credentials, in a browser             *)
(* (owner/provider-auth-setup/module.ts, http/provider-auth-setup.ts).     *)
(* Both reserve a place, ask the provider, and record what it has made;    *)
(* an answer may be lost, and after a time the same request asks again.    *)
(*                                                                         *)
(* All enablements are of one integration. A setup stands for its id, its  *)
(* browser session and the name its configuration gets, which are unique.  *)
(* Configurations without credentials of the owner's that are made through *)
(* an enablement, and the names they are shown with, are left out.         *)
(*                                                                         *)
(* External: the provider. What it was asked to make it makes, or not,     *)
(* before the recovery time has passed: the code waits 5 s for it, and the *)
(* recovery times are 5 and 30 minutes.                                    *)
(***************************************************************************)
EXTENDS Integers, FiniteSets

CONSTANTS
  Enablements,         \* (client, idempotency key) pairs
  Setups,
  MaxConfigs,          \* MAXIMUM_PROVIDER_AUTH_CONFIGS_PER_OWNER
  MaxSetups,           \* MAXIMUM_PROVIDER_AUTH_SETUP_REQUESTS_PER_OWNER
  MaxManaged,          \* bound on the provider's own configurations
  EnableRecovery,      \* INTEGRATION_ENABLEMENT_UNKNOWN_RECOVERY_MS, in ticks
  SetupLifetime,       \* PROVIDER_AUTH_SETUP_SESSION_LIFETIME_MS, in ticks
  SetupRecovery        \* PROVIDER_AUTH_SETUP_UNKNOWN_RECOVERY_MS, in ticks

ASSUME ProviderConfigsAssumption ==
  /\ MaxConfigs \in Nat /\ MaxSetups \in Nat /\ MaxManaged \in Nat
  /\ EnableRecovery \in Nat \ {0} /\ SetupLifetime \in Nat \ {0} /\ SetupRecovery \in Nat \ {0}
  /\ Enablements \cap Setups = {}

VARIABLES
  configs,             \* provider_auth_configs
  enablements,         \* integration_enablement_requests
  setups,              \* provider_auth_setup_requests
  managed,             \* how many configurations of its own the provider has
  custom,              \* the setups whose configuration the provider has
  sent,                \* what was asked of the provider and is neither made nor dropped
  configCalls,         \* the call that is at an enablement or a setup
  reconciled           \* what calls that reconcile a setup were told

configRows == <<configs, enablements, setups>>
providerVars == <<managed, custom, sent>>
configVars == <<configRows, providerVars, configCalls, reconciled>>

ManagedConfig(n) == <<"managed", n>>
CustomConfig(s) == <<"custom", s>>
Configs == {ManagedConfig(n) : n \in 1..MaxManaged} \cup {CustomConfig(s) : s \in Setups}

Enablement == [status : {"none", "pending", "completed", "abandoned"}, recover : 0..EnableRecovery,
               config : {{}} \cup {{c} : c \in Configs}]

\* left: until setupExpiresAt; the session lasts twice the recovery time longer.
Setup ==
  [status : {"none", "prepared", "exchanged", "submitting", "outcome_unknown", "configured",
             "rejected", "deleted"},
   left : -(2 * SetupRecovery)..SetupLifetime, recover : 0..SetupRecovery]

CallPhases == {"none", "listing", "asking", "made", "refused", "unknown"}

At(x, phase) == configCalls[x] = phase
GoesTo(x, phase) == configCalls' = [configCalls EXCEPT ![x] = phase]

-----------------------------------------------------------------------------
(* The limit *)

Pending == {e \in Enablements : enablements[e].status = "pending"}
Reserved == {s \in Setups : setups[s].status \in {"submitting", "outcome_unknown"}}

HasPlace == Cardinality(configs) + Cardinality(Pending) + Cardinality(Reserved) < MaxConfigs

Recordable(c) == c \in configs \/ Cardinality(configs) < MaxConfigs

-----------------------------------------------------------------------------
(* The enablement of the integration *)

Overdue(e) == enablements[e].status = "pending" /\ enablements[e].recover = 0

Expired == [e \in Enablements |->
  IF Overdue(e) THEN [enablements[e] EXCEPT !.status = "abandoned"] ELSE enablements[e]]

ExpireEnablements ==
  /\ \E e \in Enablements : Overdue(e)
  /\ enablements' = Expired
  /\ UNCHANGED <<configs, setups, providerVars, configCalls, reconciled>>

\* Reservations that are overdue were given up before the places are counted.
Enablable(e) ==
  /\ Expired[e].status \in {"none", "abandoned"}
  /\ \A other \in Enablements : Expired[other].status # "pending"
  /\ Cardinality(configs) + Cardinality(Reserved) < MaxConfigs

ReserveEnablement(e) ==
  /\ At(e, "none") /\ Enablable(e)
  /\ enablements' = [Expired EXCEPT
       ![e] = [status |-> "pending", recover |-> EnableRecovery, config |-> {}]]
  /\ GoesTo(e, "listing")
  /\ UNCHANGED <<configs, setups, providerVars, reconciled>>

\* createManaged takes a configuration that is there before it asks for one.
ListManaged(e) ==
  /\ At(e, "listing")
  /\ IF managed > 0 THEN GoesTo(e, "made") /\ UNCHANGED sent
     ELSE GoesTo(e, "asking") /\ sent' = sent \cup {e}
  /\ UNCHANGED <<configRows, managed, custom, reconciled>>

\* The answer arrives, or the list after an answer of another kind has one.
ManagedMade(e) ==
  /\ At(e, "asking") /\ managed > 0
  /\ GoesTo(e, "made")
  /\ UNCHANGED <<configRows, providerVars, reconciled>>

CompleteEnablement(e) ==
  LET row == Expired[e] IN
  /\ At(e, "made")
  /\ IF row.status = "pending" /\ Recordable(ManagedConfig(1))
     THEN /\ enablements' = [Expired EXCEPT ![e].status = "completed", ![e].config = {ManagedConfig(1)}]
          /\ configs' = configs \cup {ManagedConfig(1)}
     ELSE enablements' = Expired /\ UNCHANGED configs
  /\ GoesTo(e, "none")
  /\ UNCHANGED <<setups, providerVars, reconciled>>

\* A configuration that is found at the provider is recorded without a reservation.
RecordConfig(n) ==
  /\ n \in 1..managed /\ ManagedConfig(n) \notin configs
  /\ Recordable(ManagedConfig(n))
  /\ configs' = configs \cup {ManagedConfig(n)}
  /\ UNCHANGED <<enablements, setups, providerVars, configCalls, reconciled>>

-----------------------------------------------------------------------------
(* A setup: prepare, exchange and configure *)

Session(s) == setups[s].left > -(2 * SetupRecovery)

Purgeable(s) ==
  \/ setups[s].status \in {"prepared", "exchanged", "rejected"} /\ setups[s].left <= 0
  \/ setups[s].status = "configured" /\ ~Session(s)

Purged == [s \in Setups |->
  IF Purgeable(s) THEN [setups[s] EXCEPT !.status = "deleted"] ELSE setups[s]]

PrepareSetup(s) ==
  /\ setups[s].status = "none"
  /\ Cardinality({x \in Setups : Purged[x].status \notin {"none", "deleted"}}) < MaxSetups
  /\ setups' = [Purged EXCEPT ![s] = [status |-> "prepared", left |-> SetupLifetime, recover |-> 0]]
  /\ UNCHANGED <<configs, enablements, providerVars, configCalls, reconciled>>

\* The capability is exchanged for a session once.
ExchangeSetup(s) ==
  /\ setups[s].status = "prepared" /\ setups[s].left > 0
  /\ setups' = [setups EXCEPT ![s].status = "exchanged"]
  /\ UNCHANGED <<configs, enablements, providerVars, configCalls, reconciled>>

ReserveConfiguration(s) ==
  /\ At(s, "none")
  /\ setups[s].status = "exchanged" /\ setups[s].left > 0
  /\ HasPlace
  /\ setups' = [setups EXCEPT ![s].status = "submitting", ![s].recover = SetupRecovery]
  /\ GoesTo(s, "asking")
  /\ sent' = sent \cup {s}
  /\ UNCHANGED <<configs, enablements, managed, custom, reconciled>>

\* createCustom: the answer or, without one, what a list says.
CustomAnswered(s, answered) ==
  /\ At(s, "asking")
  /\ answered => s \notin sent
  /\ \/ s \in custom /\ GoesTo(s, "made")
     \/ s \notin custom /\ answered /\ GoesTo(s, "refused")
     \/ ~answered /\ GoesTo(s, "unknown")
  /\ UNCHANGED <<configRows, providerVars, reconciled>>

RecoverDue(s) == setups[s].recover = 0

\* Also of a session that reconciles; a setup that is being submitted may be completed
\* at any time.
SetupCompletable(s) ==
  /\ Session(s)
  /\ \/ setups[s].status = "submitting"
     \/ setups[s].status = "outcome_unknown" /\ RecoverDue(s)
  /\ Recordable(CustomConfig(s))

SetupCompleted(s) ==
  IF SetupCompletable(s)
  THEN /\ configs' = configs \cup {CustomConfig(s)}
       /\ setups' = [setups EXCEPT ![s].status = "configured", ![s].recover = 0]
  ELSE UNCHANGED <<configs, setups>>

CompleteSetup(s) ==
  /\ At(s, "made")
  /\ SetupCompleted(s)
  /\ GoesTo(s, "none")
  /\ UNCHANGED <<enablements, providerVars, reconciled>>

RejectSetup(s) ==
  /\ configCalls[s] \in {"refused", "unknown"}
  /\ setups' = IF Session(s) /\ setups[s].status = "submitting"
               THEN [setups EXCEPT ![s].status =
                       IF At(s, "refused") THEN "rejected" ELSE "outcome_unknown"]
               ELSE setups
  /\ GoesTo(s, "none")
  /\ UNCHANGED <<configs, enablements, providerVars, reconciled>>

-----------------------------------------------------------------------------
(* A setup: reconcile *)

\* Mutation: the outcome is asked for before it must be settled.
ReconcilableEarly(s) == Session(s) /\ s \in Reserved

Reconcilable(s) == Session(s) /\ s \in Reserved /\ RecoverDue(s)

ReconcileLists(s) ==
  /\ Reconcilable(s)
  /\ \E told \in {"still_unknown", IF s \in custom THEN "configured" ELSE "absent"} :
       reconciled' = [reconciled EXCEPT ![s] = @ \cup {told}]
  /\ UNCHANGED <<configRows, providerVars, configCalls>>

ReconcileSetup(s, told) ==
  /\ told \in reconciled[s]
  /\ reconciled' = [reconciled EXCEPT ![s] = @ \ {told}]
  /\ IF told = "configured" THEN SetupCompleted(s)
     ELSE /\ setups' = IF ~Reconcilable(s) THEN setups
                       ELSE IF told = "absent" THEN [setups EXCEPT ![s].status = "rejected"]
                       ELSE [setups EXCEPT ![s].status = "outcome_unknown",
                                           ![s].recover = SetupRecovery]
          /\ UNCHANGED configs
  /\ UNCHANGED <<enablements, providerVars, configCalls>>

-----------------------------------------------------------------------------
(* The provider, time, and calls that end *)

\* What was asked for is made or dropped.
ProviderMakes(x) ==
  /\ x \in sent
  /\ sent' = sent \ {x}
  /\ \/ x \in Setups /\ custom' = custom \cup {x} /\ UNCHANGED managed
     \/ x \in Enablements /\ managed < MaxManaged /\ managed' = managed + 1 /\ UNCHANGED custom
     \/ UNCHANGED <<managed, custom>>
  /\ UNCHANGED <<configRows, configCalls, reconciled>>

ConfigCallEnds(x) ==
  /\ ~At(x, "none")
  /\ GoesTo(x, "none")
  /\ UNCHANGED <<configRows, providerVars, reconciled>>

Busy(x) == ~At(x, "none") \/ x \in sent

Down(n) == IF n > 0 THEN n - 1 ELSE n

ConfigTick ==
  /\ \A e \in Enablements : Busy(e) => enablements[e].recover > 1
  /\ \A s \in Setups : Busy(s) => setups[s].recover > 1
  /\ enablements' = [e \in Enablements |-> [enablements[e] EXCEPT !.recover = Down(@)]]
  /\ setups' = [s \in Setups |-> [setups[s] EXCEPT
       !.recover = Down(@), !.left = IF @ > -(2 * SetupRecovery) THEN @ - 1 ELSE @]]
  /\ UNCHANGED <<configs, providerVars, configCalls, reconciled>>

ProviderConfigsInit ==
  /\ configs = {} /\ managed = 0 /\ custom = {} /\ sent = {}
  /\ enablements = [e \in Enablements |-> [status |-> "none", recover |-> 0, config |-> {}]]
  /\ setups = [s \in Setups |-> [status |-> "none", left |-> 0, recover |-> 0]]
  /\ configCalls = [x \in Enablements \cup Setups |-> "none"]
  /\ reconciled = [s \in Setups |-> {}]

EnablementNext ==
  \/ ExpireEnablements
  \/ \E e \in Enablements :
       ReserveEnablement(e) \/ ListManaged(e) \/ ManagedMade(e) \/ CompleteEnablement(e)
  \/ \E n \in 1..MaxManaged : RecordConfig(n)

SetupNext ==
  \E s \in Setups :
    \/ PrepareSetup(s) \/ ExchangeSetup(s) \/ ReserveConfiguration(s)
    \/ \E answered \in BOOLEAN : CustomAnswered(s, answered)
    \/ CompleteSetup(s) \/ RejectSetup(s)
    \/ ReconcileLists(s)
    \/ \E told \in {"still_unknown", "configured", "absent"} : ReconcileSetup(s, told)

ProviderConfigsNext ==
  \/ EnablementNext
  \/ SetupNext
  \/ \E x \in Enablements \cup Setups : ProviderMakes(x) \/ ConfigCallEnds(x)
  \/ ConfigTick

ProviderConfigsSpec == ProviderConfigsInit /\ [][ProviderConfigsNext]_configVars

-----------------------------------------------------------------------------
(* Properties *)

ProviderConfigsTypeOK ==
  /\ configs \subseteq Configs
  /\ enablements \in [Enablements -> Enablement]
  /\ setups \in [Setups -> Setup]
  /\ managed \in 0..MaxManaged /\ custom \subseteq Setups /\ sent \subseteq Enablements \cup Setups
  /\ configCalls \in [Enablements \cup Setups -> CallPhases]

\* What the owner has recorded agrees with the provider, whatever answers were lost:
\* each row of a configuration stands for one that was made, a setup that is configured
\* has its row, one that is rejected has nothing made or still to be made, the provider
\* is never asked for a second configuration of its own, and the limit holds.
ConfigsAgreeWithProvider ==
  /\ \A c \in configs : c \in
       {ManagedConfig(n) : n \in 1..managed} \cup {CustomConfig(s) : s \in custom}
  /\ \A s \in Setups :
       /\ setups[s].status = "configured" => CustomConfig(s) \in configs
       /\ setups[s].status = "rejected" => s \notin custom \cup sent
  /\ \A e \in Enablements :
       enablements[e].status = "completed" => enablements[e].config \subseteq configs
  /\ managed + Cardinality(sent \cap Enablements) <= 1
  /\ Cardinality(configs) <= MaxConfigs
=============================================================================
