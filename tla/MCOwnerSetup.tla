---------------------------- MODULE MCOwnerSetup ----------------------------
(***************************************************************************)
(* Small instances of what an owner sets up before its Agents work: the    *)
(* installation itself, links to Composio accounts, Connections to remote  *)
(* MCP servers, the grants of an Agent for such a Connection, and          *)
(* authentication configurations at the provider. "focus" names what a     *)
(* behaviour is about and never changes.                                   *)
(***************************************************************************)
EXTENDS ConnectionLinks, RemoteMcpConnections, ProviderConfigs, Installations

CONSTANT Focuses

VARIABLE focus

setupVars ==
  <<focus, linkVars, remoteVars, agentConnectionVars, configVars, installationVars>>

MCRequestKey == [q \in Requests |-> IF q = "create" THEN "k1" ELSE "k2"]
MCRequestTarget == [q \in Requests |-> IF q = "create" THEN NewConnection ELSE "m1"]

OwnerSetupInit ==
  /\ focus \in Focuses
  /\ AgentConnectionsInit /\ ConnectionLinksInit /\ RemoteMcpInit /\ ProviderConfigsInit
  /\ InstallationsInit

OneDispatch == \A p \in Callers \ {1} : refresh'[p].at = "idle"

\* One Connection, which is never renewed through the browser.
OneConnection ==
  /\ \A q \in Requests : ~Creates(q) => request'[q].status = "none"
  /\ \A c \in RemoteConnections \ {"m1"} : connection'[c].status = "none"

\* The Agent is left as it is.
RemoteStep == UNCHANGED <<agentRevision, grants>> /\ RemoteMcpNext /\ OneDispatch

\* Two dispatches refresh side by side.
RefreshesStep == UNCHANGED <<agentRevision, grants>> /\ RemoteMcpNext /\ OneConnection

GrantStep == RemoteMcpNext /\ OneDispatch /\ OneConnection

\* Two enablements or two setups, beside one of the other kind.
ConfigStep ==
  /\ ProviderConfigsNext
  /\ \/ enablements'["e2"].status = "none"
     \/ setups'["s2"].status = "none"

\* `up' beside the rehearsal of a fresh installation, with one package and a spend
\* limit that is the same for both; at most one resource is left by a cleanup.
FreshStep ==
  /\ InstallationsNext
  /\ command'["upgrade"] = Idle
  /\ \A c \in Commands :
       /\ command'[c].package <= 1 /\ command'[c].plan # "change"
       /\ Is(c, "none") /\ command'[c].phase = "inspecting" => command'[c].limit
  /\ metadata.saved => metadata'.saved
  /\ Cardinality(command'["rehearsal"].unresolved) <= 1

\* `up' beside the rehearsal of an upgrade.
UpgradeStep == InstallationsNext /\ command'["rehearsal"] = Idle

OwnerSetupNext ==
  /\ UNCHANGED focus
  /\ \/ focus = "links" /\ ConnectionLinksNext
     \/ focus = "remote" /\ RemoteStep
     \/ focus = "refreshes" /\ RefreshesStep
     \/ focus = "grants" /\ GrantStep
     \/ focus = "configs" /\ ConfigStep
     \/ focus = "fresh" /\ FreshStep
     \/ focus = "upgrade" /\ UpgradeStep
  /\ focus # "links" => UNCHANGED linkVars
  /\ focus \notin {"remote", "refreshes", "grants"} => UNCHANGED remoteVars
  /\ focus \notin {"links", "remote", "refreshes", "grants"} => UNCHANGED agentConnectionVars
  /\ focus # "configs" => UNCHANGED configVars
  /\ focus \notin {"fresh", "upgrade"} => UNCHANGED installationVars

OwnerSetupSpec == OwnerSetupInit /\ [][OwnerSetupNext]_setupVars

\* The rows of Connections, links, requests, grants and configurations are well typed,
\* and so are an installation, its files and the processes at it.
OwnerSetupTypeOK ==
  RemoteMcpTypeOK /\ ConnectionLinksTypeOK /\ ProviderConfigsTypeOK /\ InstallationsTypeOK
=============================================================================
