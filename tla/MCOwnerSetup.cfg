SPECIFICATION OwnerSetupSpec
CONSTANTS
  Focuses = {"links", "remote", "refreshes", "grants", "configs", "fresh", "upgrade"}
  Enablements = {"e1", "e2"}
  Setups = {"s1", "s2"}
  MaxConfigs = 2
  MaxSetups = 2
  MaxManaged = 2
  EnableRecovery = 1
  SetupLifetime = 1
  SetupRecovery = 1
  ComposioConnections = {"a", "b"}
  RemoteConnections = {"m1", "m2"}
  MaxAgentRevision = 2
  MaxCredential = 3
  Links = {"l1", "l2"}
  MaxToken = 2
  MaxLinkConnections = 2
  Requests = {"create", "renew"}
  Keys = {"k1", "k2"}
  RequestKey <- MCRequestKey
  RequestTarget <- MCRequestTarget
  Callers = {1, 2}
  MaxConnections = 2
  MaxDirect = 1
  MaxPackage = 2
  MaxDatabase = 2
  MaxVersion = 2
INVARIANTS OwnerSetupTypeOK ConnectionsAreTrue AcceptedLinkIsCurrent ConfigsAgreeWithProvider
PROPERTIES RevokedStaysBare InstallationKept
CHECK_DEADLOCK FALSE
