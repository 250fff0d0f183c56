-------------------------- MODULE AgentConnections --------------------------
(***************************************************************************)
(* The Connections of an owner and the grants of one Agent that name them: *)
(* AgentRegistry.update, configureConnection and                           *)
(* configureRemoteMcpConnection make a new revision of the Agent and carry *)
(* the grants of the revision before it over; AuthorityControls.change     *)
(* revokes a Connection with all its grants, or one grant.                 *)
(*                                                                         *)
(* A credential is a number that the provider issues once; 0 is none. One  *)
(* grant stands for the grants of all tools of a Connection.               *)
(***************************************************************************)
EXTENDS Integers, FiniteSets

CONSTANTS
  ComposioConnections,  \* Connections whose credential Composio holds
  RemoteConnections,    \* Connections to remote MCP servers
  MaxAgentRevision,     \* bound: MAXIMUM_REVISIONS_PER_AGENT
  MaxCredential         \* bound of the model on the credentials issued

ASSUME AgentConnectionsAssumption ==
  MaxAgentRevision \in Nat \ {0} /\ MaxCredential \in Nat

Connections == ComposioConnections \cup RemoteConnections
Revisions == 1 .. MaxAgentRevision
NoKey == "no key"

VARIABLES
  connection,     \* row of each Connection; status "none" before it exists
  agentRevision,  \* the current revision of the Agent
  grants,         \* the grant of each revision for each Connection
  attaching       \* expected revision of a configuration that is being verified, or 0

agentConnectionVars == <<connection, agentRevision, grants, attaching>>

NoConnection == [status |-> "none", authKind |-> "none", credential |-> 0, key |-> NoKey]

AgentConnectionsInit ==
  /\ connection = [c \in Connections |-> NoConnection]
  /\ agentRevision = 1
  /\ grants = [r \in Revisions |-> [c \in Connections |-> "none"]]
  /\ attaching = [c \in ComposioConnections |-> 0]

Usable(c) == connection[c].status \in {"active", "unavailable"}
RowCount == Cardinality({c \in Connections : connection[c].status # "none"})

(***************************************************************************)
(* Revisions of the Agent.                                                 *)
(***************************************************************************)

\* previousGrants: the active grants of the current revision.
Carried ==
  [c \in Connections |-> IF grants[agentRevision][c] = "active" THEN "active" ELSE "none"]

Revise(newGrants) ==
  /\ agentRevision < MaxAgentRevision
  /\ agentRevision' = agentRevision + 1
  /\ grants' = [grants EXCEPT ![agentRevision + 1] = newGrants]

\* AgentRegistry.update with an accepted definition.
ReviseAgent ==
  /\ Revise(Carried)
  /\ UNCHANGED <<connection, attaching>>

\* resolveConnectionForAttachment: the row and the revision that the
\* verification of the provider account, which is awaited next, starts from.
ResolveConnection(c) ==
  /\ connection[c].status \in {"initiated", "active"}
  /\ attaching[c] = 0
  /\ attaching' = [attaching EXCEPT ![c] = agentRevision]
  /\ UNCHANGED <<connection, agentRevision, grants>>

\* What the transaction of configureConnection reads of the Connection.
Attachable(c) == connection[c].status \notin {"none", "revoked", "unavailable"}

\* configureConnection with tools, after the provider account was verified.
ConfigureConnection(c) ==
  /\ attaching[c] = agentRevision
  /\ Attachable(c)
  /\ Revise([Carried EXCEPT ![c] = "active"])
  /\ connection' = [connection EXCEPT ![c].status = "active"]
  /\ attaching' = [attaching EXCEPT ![c] = 0]

\* The verification failed, or the configuration is refused by the transaction.
ConfigurationRefused(c) ==
  /\ attaching[c] # 0
  /\ attaching' = [attaching EXCEPT ![c] = 0]
  /\ UNCHANGED <<connection, agentRevision, grants>>

\* configureConnection without tools.
DetachConnection(c) ==
  /\ connection[c].status # "none"
  /\ Revise([Carried EXCEPT ![c] = "none"])
  /\ UNCHANGED <<connection, attaching>>

\* configureRemoteMcpConnection.
ConfigureRemoteMcpConnection(c) ==
  /\ connection[c].status = "active"
  /\ Revise([Carried EXCEPT ![c] = "active"])
  /\ UNCHANGED <<connection, attaching>>

(***************************************************************************)
(* Revocation.                                                             *)
(***************************************************************************)

GrantsWithout(c) ==
  [r \in Revisions |->
     [grants[r] EXCEPT ![c] = IF @ = "active" THEN "revoked" ELSE @]]

RevokedRowKept(c) == [connection[c] EXCEPT !.credential = 0]

RevokedRow(c) == [connection[c] EXCEPT !.status = "revoked", !.credential = 0]

\* AuthorityControls.change with target "connection".
RevokeConnection(c) ==
  /\ connection[c].status \notin {"none", "revoked"}
  /\ connection' = [connection EXCEPT ![c] = RevokedRow(c)]
  /\ grants' = GrantsWithout(c)
  /\ UNCHANGED <<agentRevision, attaching>>

\* AuthorityControls.change with target "capability".
RevokeCapability(r, c) ==
  /\ grants[r][c] = "active"
  /\ grants' = [grants EXCEPT ![r][c] = "revoked"]
  /\ UNCHANGED <<connection, agentRevision, attaching>>

AgentConnectionsNext ==
  \/ ReviseAgent
  \/ \E c \in ComposioConnections :
       ResolveConnection(c) \/ ConfigureConnection(c) \/ ConfigurationRefused(c)
  \/ \E c \in RemoteConnections : ConfigureRemoteMcpConnection(c)
  \/ \E c \in Connections : DetachConnection(c) \/ RevokeConnection(c)
  \/ \E r \in Revisions, c \in Connections : RevokeCapability(r, c)

(***************************************************************************)
(* Properties.                                                             *)
(***************************************************************************)

AgentConnectionsTypeOK ==
  /\ \A c \in Connections :
       /\ connection[c].status \in {"none", "initiated", "active", "unavailable", "revoked"}
       /\ connection[c].authKind \in {"none", "composio", "oauth", "bearer"}
       /\ connection[c].credential \in 0 .. MaxCredential
       \* An OAuth or bearer Connection in use holds a credential.
       /\ connection[c].authKind \in {"oauth", "bearer"} /\ Usable(c) =>
            connection[c].credential # 0
  /\ agentRevision \in Revisions
  /\ grants \in [Revisions -> [Connections -> {"none", "active", "revoked"}]]
  /\ attaching \in [ComposioConnections -> 0 .. MaxAgentRevision]

\* A revoked Connection stays revoked, holds no credential and no revision of
\* the Agent ever has an active grant for it again, whatever authorisation,
\* refresh, verification or carried grant was on its way when the owner
\* revoked it ("revocation always clears ciphertext", invariants.md).
RevokedStaysBare ==
  [][\A c \in Connections :
       connection[c].status = "revoked" =>
         /\ connection'[c].status = "revoked"
         /\ connection'[c].credential = 0
         /\ \A r \in Revisions : grants'[r][c] # "active"]_<<connection, grants>>

=============================================================================
