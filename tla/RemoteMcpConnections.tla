------------------------ MODULE RemoteMcpConnections ------------------------
(***************************************************************************)
(* Connections to remote MCP servers (owner/remote-mcp-connections): the   *)
(* OAuth requests that a browser drives through authorization and token    *)
(* exchange, Connections that are created and reauthenticated with a       *)
(* bearer token or an API key, the refresh of an expired token before a    *)
(* dispatch, and deletion. Every method checks, awaits cryptography or the *)
(* network and commits; other calls run in between.                        *)
(*                                                                         *)
(* "request" holds the rows, "flow" the method that is at work for a       *)
(* request, "direct" the creations, reauthentications and deletions and    *)
(* "refresh" the refreshes that are in flight. What each request asks for  *)
(* is given by RequestKey and RequestTarget.                               *)
(***************************************************************************)
EXTENDS AgentConnections

CONSTANTS
  Requests,          \* OAuth requests of the owner's client
  Keys,              \* idempotency keys of the client
  RequestKey,        \* [Requests -> Keys]
  RequestTarget,     \* the Connection a request reauthenticates, or NewConnection
  Callers,           \* dispatches that prepare an execution
  MaxConnections,    \* capacity.maxConnections
  MaxDirect          \* bound of the model on direct calls in flight

NewConnection == "new"

ASSUME RequestAssumption ==
  /\ RequestKey \in [Requests -> Keys]
  /\ RequestTarget \in [Requests -> RemoteConnections \cup {NewConnection}]
  /\ NewConnection \notin RemoteConnections /\ NoKey \notin Keys

VARIABLES
  mutation,   \* row of each idempotency key: operation and Connection
  request,    \* row of each OAuth request; status "none" if there is none
  flow,       \* method at work for each OAuth request, and the credential it read
  direct,     \* calls in flight of create, reauthenticate and delete
  refresh,    \* prepareExecution of each caller
  issued,     \* credentials issued by the provider so far
  refused     \* credentials whose refresh the provider refused or did not answer

remoteVars == <<mutation, request, flow, direct, refresh, issued, refused>>
remoteMcpVars == <<remoteVars, agentConnectionVars>>

NoMutation == [operation |-> "none", connection |-> NewConnection]
NoRequest == [status |-> "none", connection |-> NewConnection, expired |-> FALSE]
IdleFlow == [at |-> "idle", base |-> 0]
IdleRefresh == [at |-> "idle", connection |-> NewConnection, base |-> 0]

LiveStatuses == {"reserved", "starting", "pending", "exchanging"}

RemoteMcpInit ==
  /\ mutation = [k \in Keys |-> NoMutation]
  /\ request = [q \in Requests |-> NoRequest]
  /\ flow = [q \in Requests |-> IdleFlow]
  /\ direct = {}
  /\ refresh = [p \in Callers |-> IdleRefresh]
  /\ issued = 0
  /\ refused = {}

Creates(q) == RequestTarget[q] = NewConnection
FreshConnections == {c \in RemoteConnections : connection[c].status = "none"}

\* The provider issues a credential: the next number.
Issue == issued < MaxCredential /\ issued' = issued + 1

\* The primary key of remoteMcpConnectionMutations: no row of this key yet.
Unclaimed(k) == mutation[k].operation = "none"

(***************************************************************************)
(* reserveAuthentication: expired rows are deleted, then the request is    *)
(* checked; the row is inserted after the awaited signatures.              *)
(***************************************************************************)

SameKey(q) == {o \in Requests : RequestKey[o] = RequestKey[q] /\ request[o].status # "none"}

PendingCreations ==
  {q \in Requests : Creates(q) /\ request[q].status \in LiveStatuses /\ ~request[q].expired}

RequestReservable(q) ==
  /\ \A o \in SameKey(q) : request[o].expired
  /\ IF Creates(q)
       THEN /\ Unclaimed(RequestKey[q])
            /\ RowCount + Cardinality(PendingCreations) < MaxConnections
       ELSE /\ Usable(RequestTarget[q])
            /\ connection[RequestTarget[q]].authKind = "oauth"

ReserveAuthentication(q) ==
  /\ flow[q].at = "idle"
  /\ request' = [o \in Requests |-> IF request[o].expired THEN NoRequest ELSE request[o]]
  /\ flow' = IF RequestReservable(q) THEN [flow EXCEPT ![q].at = "reserving"] ELSE flow
  /\ UNCHANGED <<mutation, direct, refresh, issued, refused, agentConnectionVars>>

\* The unique index on client and key admits one of two racing inserts.
InsertRequest(q) ==
  /\ flow[q].at = "reserving"
  /\ request' = IF SameKey(q) = {}
                  THEN [request EXCEPT ![q] = [status |-> "reserved", connection |-> RequestTarget[q],
                                               expired |-> FALSE]]
                  ELSE request
  /\ flow' = [flow EXCEPT ![q] = IdleFlow]
  /\ UNCHANGED <<mutation, direct, refresh, issued, refused, agentConnectionVars>>

(***************************************************************************)
(* beginOAuth and completeOAuth: a claim, the network, a commit.           *)
(***************************************************************************)

Open(q, status) == request[q].status = status /\ ~request[q].expired

Claim(q, from, to, at) ==
  /\ flow[q].at = "idle"
  /\ Open(q, from)
  /\ request' = [request EXCEPT ![q].status = to]
  /\ flow' = [flow EXCEPT ![q] = [at |-> at, base |-> 0]]
  /\ UNCHANGED <<mutation, direct, refresh, issued, refused, agentConnectionVars>>

BeginOAuth(q) == Claim(q, "reserved", "starting", "beginning")
CompleteOAuth(q) == Claim(q, "pending", "exchanging", "exchanging")

\* #failOAuthRequest: only a request that is not settled fails.
Failed(q) ==
  IF request[q].status \in LiveStatuses
    THEN [request EXCEPT ![q].status = "failed"] ELSE request

\* The authorization server was discovered; the claim must still stand.
AuthorizationStarted(q) ==
  /\ flow[q].at = "beginning"
  /\ request' = IF request[q].status = "starting"
                  THEN [request EXCEPT ![q].status = "pending"] ELSE Failed(q)
  /\ flow' = [flow EXCEPT ![q] = IdleFlow]
  /\ UNCHANGED <<mutation, direct, refresh, issued, refused, agentConnectionVars>>

\* Any error while a claim is being worked on.
FlowFails(q) ==
  /\ flow[q].at \in {"beginning", "exchanging", "sealing"}
  /\ request' = Failed(q)
  /\ flow' = [flow EXCEPT ![q] = IdleFlow]
  /\ UNCHANGED <<mutation, direct, refresh, issued, refused, agentConnectionVars>>

\* The object restarts: the row keeps the status of the claim.
FlowDies(q) ==
  /\ flow[q].at # "idle"
  /\ flow' = [flow EXCEPT ![q] = IdleFlow]
  /\ UNCHANGED <<mutation, request, direct, refresh, issued, refused, agentConnectionVars>>

\* failOAuth: the browser returns with an error.
FailOAuth(q) ==
  /\ request[q].status \in LiveStatuses
  /\ request' = Failed(q)
  /\ UNCHANGED <<mutation, flow, direct, refresh, issued, refused, agentConnectionVars>>

\* Time passes expiresAt.
Expire(q) ==
  /\ request[q].status # "none" /\ ~request[q].expired
  /\ request' = [request EXCEPT ![q].expired = TRUE]
  /\ UNCHANGED <<mutation, flow, direct, refresh, issued, refused, agentConnectionVars>>

\* The transaction of a creation: the request is still exchanging, its key
\* names no Connection and there is room for one.
Creatable(q) ==
  /\ Open(q, "exchanging")
  /\ Unclaimed(RequestKey[q])
  /\ RowCount < MaxConnections

CreateExchanged(q) ==
  /\ flow[q].at = "exchanging" /\ Creates(q)
  /\ Issue
  /\ IF Creatable(q)
       THEN \E c \in FreshConnections :
              /\ connection' = [connection EXCEPT ![c] =
                   [status |-> "active", authKind |-> "oauth", credential |-> issued + 1,
                    key |-> RequestKey[q]]]
              /\ mutation' = [mutation EXCEPT ![RequestKey[q]] =
                   [operation |-> "create", connection |-> c]]
              /\ request' = [request EXCEPT ![q].status = "completed", ![q].connection = c]
       ELSE request' = Failed(q) /\ UNCHANGED <<connection, mutation>>
  /\ flow' = [flow EXCEPT ![q] = IdleFlow]
  /\ UNCHANGED <<direct, refresh, refused, agentRevision, grants, attaching>>

\* A reauthentication reads the credential that it will replace ...
ReauthenticationRead(q) ==
  /\ flow[q].at = "exchanging" /\ ~Creates(q)
  /\ IF connection[RequestTarget[q]].credential # 0
       THEN /\ flow' = [flow EXCEPT ![q] = [at |-> "sealing",
                                            base |-> connection[RequestTarget[q]].credential]]
            /\ UNCHANGED request
       ELSE request' = Failed(q) /\ flow' = [flow EXCEPT ![q] = IdleFlow]
  /\ UNCHANGED <<mutation, direct, refresh, issued, refused, agentConnectionVars>>

ReplaceableRevoked(c, base) == connection[c].credential \in {base, 0}

\* ... and commits if request, Connection and credential are still those.
Replaceable(c, base) == Usable(c) /\ connection[c].credential = base

ReauthenticationSealed(q) ==
  LET c == RequestTarget[q] IN
  /\ flow[q].at = "sealing"
  /\ Issue
  /\ IF Open(q, "exchanging") /\ Replaceable(c, flow[q].base)
       THEN /\ request' = [request EXCEPT ![q].status = "completed"]
            /\ connection' = [connection EXCEPT ![c].status = "active",
                                                ![c].credential = issued + 1]
       ELSE request' = Failed(q) /\ UNCHANGED connection
  /\ flow' = [flow EXCEPT ![q] = IdleFlow]
  /\ UNCHANGED <<mutation, direct, refresh, refused, agentRevision, grants, attaching>>

(***************************************************************************)
(* create, reauthenticate and delete.                                      *)
(***************************************************************************)

StartDirect(operation, k, c) ==
  /\ Cardinality(direct) < MaxDirect
  /\ Unclaimed(k)
  /\ direct' = direct \cup {[operation |-> operation, key |-> k, connection |-> c,
                             base |-> IF c = NewConnection THEN 0 ELSE connection[c].credential]}
  /\ UNCHANGED <<mutation, request, flow, refresh, issued, refused, agentConnectionVars>>

\* The checks before the credential is encrypted.
Create(k) == RowCount < MaxConnections /\ StartDirect("create", k, NewConnection)

Reauthenticate(k, c) ==
  /\ Usable(c) /\ connection[c].authKind = "bearer"
  /\ StartDirect("reauthenticate", k, c)

Delete(k, c) ==
  /\ connection[c].status # "none"
  /\ StartDirect("delete", k, c)

Mutated(d, c) ==
  /\ mutation' = [mutation EXCEPT ![d.key] = [operation |-> d.operation, connection |-> c]]
  /\ direct' = direct \ {d}

DirectCreated(d) ==
  /\ d.operation = "create" /\ Unclaimed(d.key)
  /\ Issue
  /\ \E c \in FreshConnections :
       /\ connection' = [connection EXCEPT ![c] =
            [status |-> "active", authKind |-> "bearer", credential |-> issued + 1, key |-> d.key]]
       /\ Mutated(d, c)
  /\ UNCHANGED <<request, flow, refresh, refused, agentRevision, grants, attaching>>

Reauthenticated(d) ==
  /\ d.operation = "reauthenticate" /\ Unclaimed(d.key)
  /\ Replaceable(d.connection, d.base)
  /\ Issue
  /\ connection' = [connection EXCEPT ![d.connection].status = "active",
                                      ![d.connection].credential = issued + 1]
  /\ Mutated(d, d.connection)
  /\ UNCHANGED <<request, flow, refresh, refused, agentRevision, grants, attaching>>

\* A deletion does not read the row again.
Deleted(d) ==
  /\ d.operation = "delete" /\ Unclaimed(d.key)
  /\ connection' = [connection EXCEPT ![d.connection] = RevokedRow(d.connection)]
  /\ grants' = GrantsWithout(d.connection)
  /\ Mutated(d, d.connection)
  /\ UNCHANGED <<request, flow, refresh, issued, refused, agentRevision, attaching>>

\* The transaction throws, or the object restarts.
DirectDies(d) ==
  /\ direct' = direct \ {d}
  /\ UNCHANGED <<mutation, request, flow, refresh, issued, refused, agentConnectionVars>>

(***************************************************************************)
(* prepareExecution: the refresh of an OAuth token that has expired.       *)
(***************************************************************************)

PrepareExecution(p, c) ==
  /\ refresh[p].at = "idle"
  /\ connection[c].status = "active" /\ connection[c].authKind = "oauth"
  /\ refresh' = [refresh EXCEPT ![p] = [at |-> "asked", connection |-> c,
                                        base |-> connection[c].credential]]
  /\ UNCHANGED <<mutation, request, flow, direct, issued, refused, agentConnectionVars>>

\* The provider's refusal, an outage or the time limit.
RefreshRefused(p) ==
  /\ refresh[p].at = "asked"
  /\ refresh' = [refresh EXCEPT ![p].at = "refused"]
  /\ refused' = refused \cup {refresh[p].base}
  /\ UNCHANGED <<mutation, request, flow, direct, issued, agentConnectionVars>>

StillActive(p) == connection[refresh[p].connection].status = "active"

\* Both outcomes commit only if the credential that was read is still stored.
StillStored(p) ==
  LET c == refresh[p].connection IN
  connection[c].status = "active" /\ connection[c].credential = refresh[p].base

RefreshStored(p) ==
  /\ refresh[p].at = "asked"
  /\ Issue
  /\ connection' = IF StillStored(p)
                     THEN [connection EXCEPT ![refresh[p].connection].credential = issued + 1]
                     ELSE connection
  /\ refresh' = [refresh EXCEPT ![p] = IdleRefresh]
  /\ UNCHANGED <<mutation, request, flow, direct, refused, agentRevision, grants, attaching>>

RefreshFailed(p) ==
  /\ refresh[p].at = "refused"
  /\ connection' = IF StillStored(p)
                     THEN [connection EXCEPT ![refresh[p].connection].status = "unavailable"]
                     ELSE connection
  /\ refresh' = [refresh EXCEPT ![p] = IdleRefresh]
  /\ UNCHANGED <<mutation, request, flow, direct, issued, refused, agentRevision, grants, attaching>>

RefreshDies(p) ==
  /\ refresh[p].at # "idle"
  /\ refresh' = [refresh EXCEPT ![p] = IdleRefresh]
  /\ UNCHANGED <<mutation, request, flow, direct, issued, refused, agentConnectionVars>>

(***************************************************************************)
(* The next-state relation.                                                *)
(***************************************************************************)

RequestNext(q) ==
  \/ ReserveAuthentication(q) \/ InsertRequest(q)
  \/ BeginOAuth(q) \/ AuthorizationStarted(q)
  \/ CompleteOAuth(q) \/ CreateExchanged(q)
  \/ ReauthenticationRead(q) \/ ReauthenticationSealed(q)
  \/ FlowFails(q) \/ FlowDies(q) \/ FailOAuth(q) \/ Expire(q)

DirectNext ==
  \/ \E k \in Keys : Create(k)
  \/ \E k \in Keys, c \in RemoteConnections : Reauthenticate(k, c) \/ Delete(k, c)
  \/ \E d \in direct : DirectCreated(d) \/ Reauthenticated(d) \/ Deleted(d) \/ DirectDies(d)

RefreshNext(p) ==
  \/ \E c \in RemoteConnections : PrepareExecution(p, c)
  \/ RefreshRefused(p) \/ RefreshStored(p) \/ RefreshFailed(p) \/ RefreshDies(p)

RemoteMcpNext ==
  \/ \E q \in Requests : RequestNext(q)
  \/ DirectNext
  \/ \E p \in Callers : RefreshNext(p)
  \/ AgentConnectionsNext /\ UNCHANGED remoteVars

RemoteMcpSpec ==
  AgentConnectionsInit /\ RemoteMcpInit /\ [][RemoteMcpNext]_remoteMcpVars

(***************************************************************************)
(* Properties.                                                             *)
(***************************************************************************)

RemoteMcpTypeOK ==
  /\ AgentConnectionsTypeOK
  /\ \A k \in Keys :
       /\ mutation[k].operation \in {"none", "create", "reauthenticate", "delete"}
       /\ mutation[k].connection \in RemoteConnections \cup {NewConnection}
  /\ \A q \in Requests :
       /\ request[q].status \in LiveStatuses \cup {"none", "completed", "failed"}
       \* The check constraint of the table: a completed creation names its Connection.
       /\ request[q].status = "completed" => request[q].connection \in RemoteConnections
       /\ flow[q].at \in {"idle", "reserving", "beginning", "exchanging", "sealing"}
  /\ \A p \in Callers : refresh[p].at \in {"idle", "asked", "refused"}
  /\ issued \in 0 .. MaxCredential
  /\ refused \subseteq 1 .. MaxCredential

\* One idempotency key names at most one Connection, and the OAuth request
\* that completed under it that Connection, however its setup in the browser
\* races a direct creation with the same key, expires and is reserved again. And
\* a Connection is unavailable only if the provider refused the very credential
\* that it stores: a refresh that fails late never disables a Connection that
\* its owner reauthenticated, or that another dispatch refreshed, meanwhile.
ConnectionsAreTrue ==
  /\ \A c, d \in RemoteConnections :
       connection[c].key = connection[d].key /\ connection[c].key # NoKey => c = d
  /\ \A q \in Requests :
       Creates(q) /\ request[q].status = "completed" =>
         connection[request[q].connection].key = RequestKey[q]
  /\ \A c \in RemoteConnections :
       connection[c].status = "unavailable" => connection[c].credential \in refused
=============================================================================
