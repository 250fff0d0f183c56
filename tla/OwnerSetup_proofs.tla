-------------------------- MODULE OwnerSetup_proofs --------------------------
(***************************************************************************)
(* What an owner sets up: a revoked Connection stays bare, whichever calls *)
(* were on their way; a link to an account is accepted under the token of  *)
(* its reservation; keys, requests and refused credentials agree with the  *)
(* Connections; what is recorded agrees with the provider; and whatever    *)
(* processes are at an installation and die there, a Worker is deployed    *)
(* with a migrated database and keeps the secret and the route of `up'.    *)
(***************************************************************************)
EXTENDS MCOwnerSetup, FiniteSetTheorems, TLAPS

-----------------------------------------------------------------------------
(* Connections and the grants of an Agent *)

ConnectionRow ==
  [status : {"none", "initiated", "active", "unavailable", "revoked"},
   authKind : {"none", "composio", "oauth", "bearer"},
   credential : 0 .. MaxCredential, key : Keys \cup {NoKey}]

\* A row that authenticates by itself is in use, with a credential, or revoked; a
\* revoked one has none; only a row that was made has a key.
RowHolds(row) ==
  /\ row.authKind \in {"oauth", "bearer"} => row.status \in {"active", "unavailable", "revoked"}
  /\ row.authKind \in {"oauth", "bearer"} /\ row.status \in {"active", "unavailable"} =>
       row.credential # 0
  /\ row.status = "revoked" => row.credential = 0
  /\ row.key # NoKey => row.status # "none"

\* No revision has an active grant for a Connection that is revoked.
GrantsBare ==
  \A c \in Connections :
    connection[c].status = "revoked" => \A r \in Revisions : grants[r][c] # "active"

AgentInv ==
  /\ connection \in [Connections -> ConnectionRow]
  /\ \A c \in Connections : RowHolds(connection[c])
  /\ agentRevision \in Revisions
  /\ grants \in [Revisions -> [Connections -> {"none", "active", "revoked"}]]
  /\ attaching \in [ComposioConnections -> 0 .. MaxAgentRevision]
  /\ GrantsBare

\* What a step may do to the Connections: a revoked one stays revoked ...
RevokedStay ==
  \A c \in Connections : connection[c].status = "revoked" => connection'[c].status = "revoked"

\* ... its key stays, and none becomes unavailable or gets another credential as that.
RowsFollow ==
  \A c \in Connections :
    /\ connection'[c].key = connection[c].key
    /\ connection[c].status # "none" => connection'[c].status # "none"
    /\ connection'[c].status = "unavailable" =>
         connection[c].status = "unavailable" /\ connection'[c].credential = connection[c].credential

\* The fields of a row.
LEMMA RowFields ==
  ASSUME NEW row \in ConnectionRow
  PROVE  /\ row.status \in {"none", "initiated", "active", "unavailable", "revoked"}
         /\ row.authKind \in {"none", "composio", "oauth", "bearer"}
         /\ row.credential \in 0 .. MaxCredential /\ row.key \in Keys \cup {NoKey}
BY DEF ConnectionRow

\* One row changes and is not revoked by it.
LEMMA RowChanges ==
  ASSUME AgentInv, NEW c \in Connections, NEW row \in ConnectionRow, RowHolds(row),
         connection' = [connection EXCEPT ![c] = row],
         row.status = "revoked" <=> connection[c].status = "revoked"
  PROVE  /\ connection' \in [Connections -> ConnectionRow] /\ connection'[c] = row
         /\ \A d \in Connections \ {c} : connection'[d] = connection[d]
         /\ \A d \in Connections : RowHolds(connection'[d])
         /\ RevokedStay
         /\ \A d \in Connections : connection'[d].status = "revoked" => connection[d].status = "revoked"
<1>1. connection \in [Connections -> ConnectionRow] /\ \A d \in Connections : RowHolds(connection[d])
  BY DEF AgentInv
<1>2. /\ connection' \in [Connections -> ConnectionRow] /\ connection'[c] = row
      /\ \A d \in Connections \ {c} : connection'[d] = connection[d]
  BY <1>1
<1> QED BY <1>1, <1>2 DEF RevokedStay

\* The same, with the Agent left as it is.
LEMMA RowMovesAlone ==
  ASSUME AgentInv, NEW c \in Connections, NEW row \in ConnectionRow, RowHolds(row),
         connection' = [connection EXCEPT ![c] = row],
         row.status = "revoked" <=> connection[c].status = "revoked",
         UNCHANGED <<agentRevision, grants, attaching>>
  PROVE  AgentInv' /\ RevokedStay
<1> HIDE DEF RowHolds
<1>1. /\ connection' \in [Connections -> ConnectionRow]
      /\ \A d \in Connections : RowHolds(connection'[d])
      /\ RevokedStay
      /\ \A d \in Connections : connection'[d].status = "revoked" => connection[d].status = "revoked"
  BY RowChanges
<1>2. GrantsBare'
  BY <1>1 DEF AgentInv, GrantsBare
<1> QED BY <1>1, <1>2 DEF AgentInv

\* What a new revision of the Agent is granted: what is carried over from the current
\* one, and more only for a Connection that is not revoked.
LEMMA RevisionGrants ==
  ASSUME AgentInv, NEW new \in [Connections -> {"none", "active", "revoked"}], Revise(new),
         \A c \in Connections : new[c] = "active" =>
           grants[agentRevision][c] = "active" \/ connection[c].status # "revoked",
         \A c \in Connections : connection'[c].status = "revoked" => connection[c].status = "revoked"
  PROVE  /\ agentRevision' \in Revisions
         /\ grants' \in [Revisions -> [Connections -> {"none", "active", "revoked"}]]
         /\ GrantsBare'
<1>0. /\ agentRevision \in Revisions /\ GrantsBare
      /\ grants \in [Revisions -> [Connections -> {"none", "active", "revoked"}]]
  BY DEF AgentInv
<1>1. agentRevision + 1 \in Revisions /\ agentRevision' = agentRevision + 1
  BY <1>0, AgentConnectionsAssumption DEF Revise, Revisions
<1>2. grants' = [grants EXCEPT ![agentRevision + 1] = new]
  BY DEF Revise
<1>3. /\ grants' \in [Revisions -> [Connections -> {"none", "active", "revoked"}]]
      /\ grants'[agentRevision + 1] = new
      /\ \A r \in Revisions \ {agentRevision + 1} : grants'[r] = grants[r]
  BY <1>0, <1>1, <1>2
<1>4. \A c \in Connections : connection[c].status = "revoked" => new[c] # "active"
  BY <1>0 DEF GrantsBare
<1>5. GrantsBare'
  <2> SUFFICES ASSUME NEW c \in Connections, connection'[c].status = "revoked", NEW r \in Revisions
               PROVE  grants'[r][c] # "active"
    BY DEF GrantsBare, Connections, Revisions
  <2>1. connection[c].status = "revoked"
    OBVIOUS
  <2>2. CASE r = agentRevision + 1
    BY <1>3, <1>4, <2>1, <2>2
  <2>3. CASE r # agentRevision + 1
    BY <1>0, <1>3, <2>1, <2>3 DEF GrantsBare
  <2> QED BY <2>2, <2>3
<1> QED BY <1>1, <1>3, <1>5

\* What is carried over.
LEMMA CarriedGrants ==
  ASSUME AgentInv
  PROVE  /\ Carried \in [Connections -> {"none", "active", "revoked"}]
         /\ \A c \in Connections : Carried[c] = "active" => grants[agentRevision][c] = "active"
BY DEF Carried

\* A Connection is revoked, with all grants of all revisions.
LEMMA RevokesAll ==
  ASSUME AgentInv, NEW c \in Connections,
         connection' = [connection EXCEPT ![c] = RevokedRow(c)], grants' = GrantsWithout(c),
         UNCHANGED <<agentRevision, attaching>>
  PROVE  AgentInv' /\ RevokedStay /\ RowsFollow
<1>0. /\ connection \in [Connections -> ConnectionRow] /\ \A d \in Connections : RowHolds(connection[d])
      /\ grants \in [Revisions -> [Connections -> {"none", "active", "revoked"}]] /\ GrantsBare
  BY DEF AgentInv
<1> DEFINE row == RevokedRow(c)
<1>1. /\ row \in ConnectionRow /\ row.status = "revoked" /\ row.credential = 0
      /\ row.key = connection[c].key /\ row.authKind = connection[c].authKind
  <2>1. connection[c] \in ConnectionRow /\ 0 \in 0 .. MaxCredential
    BY <1>0, AgentConnectionsAssumption
  <2> QED BY <2>1 DEF RevokedRow, ConnectionRow
<1> HIDE DEF row
<1>2. /\ connection' \in [Connections -> ConnectionRow] /\ connection'[c] = row
      /\ \A d \in Connections \ {c} : connection'[d] = connection[d]
  BY <1>0, <1>1 DEF row
<1>3. RowHolds(row)
  BY <1>1 DEF RowHolds
<1>4. /\ grants' \in [Revisions -> [Connections -> {"none", "active", "revoked"}]]
      /\ \A r \in Revisions : grants'[r][c] # "active"
      /\ \A r \in Revisions, d \in Connections \ {c} : grants'[r][d] = grants[r][d]
  <2>1. grants' = [r \in Revisions |-> [grants[r] EXCEPT ![c] =
                     IF grants[r][c] = "active" THEN "revoked" ELSE grants[r][c]]]
    BY DEF GrantsWithout
  <2> SUFFICES ASSUME NEW r \in Revisions
               PROVE  /\ grants'[r] \in [Connections -> {"none", "active", "revoked"}]
                      /\ grants'[r][c] # "active"
                      /\ \A d \in Connections \ {c} : grants'[r][d] = grants[r][d]
    BY <2>1
  <2>2. grants[r] \in [Connections -> {"none", "active", "revoked"}]
    BY <1>0
  <2> QED BY <2>1, <2>2
<1>5. GrantsBare'
  BY <1>0, <1>2, <1>4 DEF GrantsBare
<1>6. RevokedStay /\ RowsFollow
  BY <1>1, <1>2 DEF RevokedStay, RowsFollow
<1>7. \A d \in Connections : RowHolds(connection'[d])
  BY <1>0, <1>2, <1>3
<1> QED BY <1>2, <1>4, <1>5, <1>6, <1>7 DEF AgentInv

\* One step of the Agent or of the owner on the Connections.
LEMMA AgentStep ==
  ASSUME AgentInv, AgentConnectionsNext
  PROVE  AgentInv' /\ RevokedStay /\ RowsFollow
<1>0. /\ connection \in [Connections -> ConnectionRow] /\ \A d \in Connections : RowHolds(connection[d])
      /\ agentRevision \in Revisions
      /\ grants \in [Revisions -> [Connections -> {"none", "active", "revoked"}]]
      /\ attaching \in [ComposioConnections -> 0 .. MaxAgentRevision] /\ GrantsBare
  BY DEF AgentInv
<1>1. ASSUME UNCHANGED connection
      PROVE  RevokedStay /\ RowsFollow
  BY <1>1 DEF RevokedStay, RowsFollow
<1>2. ASSUME UNCHANGED <<connection, agentRevision, grants>>,
             attaching' \in [ComposioConnections -> 0 .. MaxAgentRevision]
      PROVE  AgentInv' /\ RevokedStay /\ RowsFollow
  BY <1>0, <1>1, <1>2 DEF AgentInv, GrantsBare
<1>3. ASSUME NEW new \in [Connections -> {"none", "active", "revoked"}], Revise(new),
             \A c \in Connections : new[c] = "active" =>
               grants[agentRevision][c] = "active" \/ connection[c].status # "revoked",
             UNCHANGED <<connection, attaching>>
      PROVE  AgentInv' /\ RevokedStay /\ RowsFollow
  <2>1. /\ agentRevision' \in Revisions
        /\ grants' \in [Revisions -> [Connections -> {"none", "active", "revoked"}]]
        /\ GrantsBare'
    BY <1>3, RevisionGrants
  <2> QED BY <1>0, <1>1, <1>3, <2>1 DEF AgentInv
<1>4. CASE ReviseAgent
  BY <1>3, <1>4, CarriedGrants DEF ReviseAgent
<1>5. ASSUME NEW c \in Connections, DetachConnection(c)
      PROVE  AgentInv' /\ RevokedStay /\ RowsFollow
  <2> DEFINE new == [Carried EXCEPT ![c] = "none"]
  <2>1. /\ new \in [Connections -> {"none", "active", "revoked"}]
        /\ \A d \in Connections : new[d] = "active" => grants[agentRevision][d] = "active"
    BY CarriedGrants
  <2>2. Revise(new) /\ UNCHANGED <<connection, attaching>>
    BY <1>5 DEF DetachConnection
  <2> HIDE DEF new
  <2> QED BY <1>3, <2>1, <2>2
<1>6. ASSUME NEW c \in RemoteConnections, ConfigureRemoteMcpConnection(c)
      PROVE  AgentInv' /\ RevokedStay /\ RowsFollow
  <2> DEFINE new == [Carried EXCEPT ![c] = "active"]
  <2>1. /\ new \in [Connections -> {"none", "active", "revoked"}]
        /\ \A d \in Connections : new[d] = "active" => grants[agentRevision][d] = "active" \/ d = c
    BY CarriedGrants DEF Connections
  <2>2. Revise(new) /\ UNCHANGED <<connection, attaching>> /\ connection[c].status = "active"
    BY <1>6 DEF ConfigureRemoteMcpConnection
  <2> HIDE DEF new
  <2> QED BY <1>3, <2>1, <2>2
<1>7. ASSUME NEW c \in ComposioConnections, ConfigureConnection(c)
      PROVE  AgentInv' /\ RevokedStay /\ RowsFollow
  <2> DEFINE new == [Carried EXCEPT ![c] = "active"]
             row == [connection[c] EXCEPT !.status = "active"]
  <2>1. /\ new \in [Connections -> {"none", "active", "revoked"}]
        /\ \A d \in Connections : new[d] = "active" => grants[agentRevision][d] = "active" \/ d = c
    BY CarriedGrants DEF Connections
  <2>2. /\ Revise(new) /\ connection' = [connection EXCEPT ![c] = row]
        /\ connection[c].status \notin {"none", "revoked", "unavailable"}
        /\ attaching' = [attaching EXCEPT ![c] = 0]
    BY <1>0, <1>7 DEF ConfigureConnection, Attachable
  <2>3. connection[c] \in ConnectionRow /\ RowHolds(connection[c]) /\ c \in Connections
    BY <1>0 DEF Connections
  <2>4. /\ row \in ConnectionRow /\ row.status = "active" /\ row.key = connection[c].key
        /\ row.credential = connection[c].credential /\ row.authKind = connection[c].authKind
    BY <2>3 DEF ConnectionRow
  <2> HIDE DEF new, row
  <2>5. RowHolds(row)
    BY <2>2, <2>3, <2>4, RowFields DEF RowHolds
  <2>6. /\ connection' \in [Connections -> ConnectionRow] /\ connection'[c] = row
        /\ \A d \in Connections \ {c} : connection'[d] = connection[d]
        /\ \A d \in Connections : RowHolds(connection'[d])
        /\ RevokedStay
        /\ \A d \in Connections : connection'[d].status = "revoked" => connection[d].status = "revoked"
    BY <2>2, <2>3, <2>4, <2>5, RowChanges
  <2>7. /\ agentRevision' \in Revisions
        /\ grants' \in [Revisions -> [Connections -> {"none", "active", "revoked"}]]
        /\ GrantsBare'
    BY <2>1, <2>2, <2>6, RevisionGrants
  <2>8. attaching' \in [ComposioConnections -> 0 .. MaxAgentRevision]
    BY <1>0, <2>2, AgentConnectionsAssumption
  <2>9. RowsFollow
    BY <2>2, <2>4, <2>6 DEF RowsFollow
  <2> QED BY <2>6, <2>7, <2>8, <2>9 DEF AgentInv
<1>8. ASSUME NEW c \in ComposioConnections, ResolveConnection(c) \/ ConfigurationRefused(c)
      PROVE  AgentInv' /\ RevokedStay /\ RowsFollow
  <2>1. 0 \in 0 .. MaxAgentRevision /\ agentRevision \in 0 .. MaxAgentRevision
    BY <1>0, AgentConnectionsAssumption DEF Revisions
  <2>2. /\ UNCHANGED <<connection, agentRevision, grants>>
        /\ attaching' \in [ComposioConnections -> 0 .. MaxAgentRevision]
    BY <1>0, <1>8, <2>1 DEF ResolveConnection, ConfigurationRefused
  <2> QED BY <1>2, <2>2
<1>9. ASSUME NEW c \in Connections, RevokeConnection(c)
      PROVE  AgentInv' /\ RevokedStay /\ RowsFollow
  BY <1>9, RevokesAll DEF RevokeConnection
<1>10. ASSUME NEW r \in Revisions, NEW c \in Connections, RevokeCapability(r, c)
      PROVE  AgentInv' /\ RevokedStay /\ RowsFollow
  <2>1. /\ grants' = [grants EXCEPT ![r][c] = "revoked"]
        /\ UNCHANGED <<connection, agentRevision, attaching>>
    BY <1>10 DEF RevokeCapability
  <2>2. /\ grants' \in [Revisions -> [Connections -> {"none", "active", "revoked"}]]
        /\ \A s \in Revisions, d \in Connections : grants'[s][d] = "active" => grants[s][d] = "active"
    BY <1>0, <2>1
  <2>3. GrantsBare'
    BY <1>0, <2>1, <2>2 DEF GrantsBare
  <2> QED BY <1>0, <1>1, <2>1, <2>2, <2>3 DEF AgentInv
<1> QED
  BY <1>4, <1>5, <1>6, <1>7, <1>8, <1>9, <1>10 DEF AgentConnectionsNext

\* The initial rows.
LEMMA AgentStarts ==
  ASSUME AgentConnectionsInit
  PROVE  AgentInv
<1>1. NoConnection \in ConnectionRow /\ RowHolds(NoConnection) /\ NoConnection.status = "none"
  BY AgentConnectionsAssumption DEF NoConnection, ConnectionRow, RowHolds
<1>2. agentRevision \in Revisions /\ 0 \in 0 .. MaxAgentRevision
  BY AgentConnectionsAssumption DEF AgentConnectionsInit, Revisions
<1> HIDE DEF NoConnection, RowHolds
<1> QED BY <1>1, <1>2 DEF AgentConnectionsInit, AgentInv, GrantsBare

-----------------------------------------------------------------------------
(* Links to accounts of Composio *)

\* A call of the provider for a link, and that its acceptance is the one of the row.
CallsSound ==
  \A call \in linkCalls :
    /\ call \in [link : Links, token : 1 .. tokens, account : ComposioConnections \cup {NoAccount},
                 accepted : BOOLEAN]
    /\ call.accepted =>
         /\ call.account # NoAccount
         /\ link[call.link].status \in {"completed", "expired"}
         /\ link[call.link].account = call.account
         /\ return[call.link].token = call.token
         /\ return[call.link].account = call.account

LinkRow == [status : {"none", "pending", "completed", "expired", "abandoned"},
            account : ComposioConnections \cup {NoAccount}, overdue : BOOLEAN]

ReturnRow == [status : {"none", "pending", "returned", "failed", "expired"},
              token : 0 .. MaxToken, account : ComposioConnections \cup {NoAccount},
              overdue : BOOLEAN, completed : Nat]

LinksTyped ==
  /\ link \in [Links -> LinkRow]
  /\ \A l \in Links : link[l].status \in {"completed", "expired"} => link[l].account # NoAccount
  /\ return \in [Links -> ReturnRow]
  /\ tokens \in 0 .. MaxToken

LinkInv == AgentInv /\ LinksTyped /\ CallsSound

\* What a step leaves of the rows of a link that was accepted.
LinkKept(l) ==
  /\ link'[l].account = link[l].account /\ return'[l].account = return[l].account
  /\ return'[l].token = return[l].token
  /\ link[l].status \in {"completed", "expired"} => link'[l].status \in {"completed", "expired"}

\* What expiration does to the rows.
LEMMA ExpiringRows ==
  ASSUME LinksTyped
  PROVE  /\ ExpiredLinks \in [Links -> LinkRow] /\ ExpiredReturns \in [Links -> ReturnRow]
         /\ \A l \in Links :
              /\ ExpiredLinks[l].account = link[l].account
              /\ ExpiredReturns[l].account = return[l].account
              /\ ExpiredReturns[l].token = return[l].token
              /\ ExpiredLinks[l].status \in {"completed", "expired"} <=>
                   link[l].status \in {"completed", "expired"}
<1>1. ASSUME NEW l \in Links
      PROVE  /\ ExpiredLink(l) \in LinkRow /\ ExpiredLink(l).account = link[l].account
             /\ ExpiredLink(l).status \in {"completed", "expired"} <=>
                  link[l].status \in {"completed", "expired"}
  <2>1. link[l] \in LinkRow
    BY DEF LinksTyped
  <2>2. ExpiredLink(l) \in {link[l], [link[l] EXCEPT !.status = "expired"],
                                     [link[l] EXCEPT !.status = "abandoned"]}
    BY DEF ExpiredLink
  <2>3. CASE ExpiredLink(l) = link[l]
    BY <2>1, <2>3
  <2>4. CASE ExpiredLink(l) = [link[l] EXCEPT !.status = "expired"] /\ link[l].status = "completed"
    BY <2>1, <2>4 DEF LinkRow
  <2>5. CASE ExpiredLink(l) = [link[l] EXCEPT !.status = "abandoned"] /\ link[l].status = "pending"
    BY <2>1, <2>5 DEF LinkRow
  <2> QED BY <2>3, <2>4, <2>5 DEF ExpiredLink
<1>2. ASSUME NEW l \in Links
      PROVE  /\ ExpiredReturn(l) \in ReturnRow /\ ExpiredReturn(l).account = return[l].account
             /\ ExpiredReturn(l).token = return[l].token
  <2>1. return[l] \in ReturnRow
    BY DEF LinksTyped
  <2>2. CASE ExpiredReturn(l) = return[l]
    BY <2>1, <2>2
  <2>3. CASE ExpiredReturn(l) = [return[l] EXCEPT !.status = "expired"]
    BY <2>1, <2>3 DEF ReturnRow
  <2> QED BY <2>2, <2>3 DEF ExpiredReturn
<1> HIDE DEF ExpiredLink, ExpiredReturn
<1> QED BY <1>1, <1>2 DEF ExpiredLinks, ExpiredReturns

\* Calls that stay, beside a new one that was not accepted.
LEMMA CallsStaySound ==
  ASSUME LinkInv, tokens' \in Nat, tokens <= tokens',
         NEW new, linkCalls' \subseteq linkCalls \cup {new},
         new \in linkCalls \/ (~new.accepted /\
           new \in [link : Links, token : 1 .. tokens', account : ComposioConnections \cup {NoAccount},
                    accepted : BOOLEAN]),
         \A call \in linkCalls : call.accepted => LinkKept(call.link)
  PROVE  CallsSound'
<1> SUFFICES ASSUME NEW call \in linkCalls'
             PROVE  /\ call \in [link : Links, token : 1 .. tokens',
                                 account : ComposioConnections \cup {NoAccount}, accepted : BOOLEAN]
                    /\ call.accepted =>
                         /\ call.account # NoAccount
                         /\ link'[call.link].status \in {"completed", "expired"}
                         /\ link'[call.link].account = call.account
                         /\ return'[call.link].token = call.token
                         /\ return'[call.link].account = call.account
  BY DEF CallsSound, NoAccount
<1>1. CASE call \in linkCalls
  <2>1. /\ call \in [link : Links, token : 1 .. tokens, account : ComposioConnections \cup {NoAccount},
                     accepted : BOOLEAN]
        /\ call.accepted =>
             /\ call.account # NoAccount
             /\ link[call.link].status \in {"completed", "expired"}
             /\ link[call.link].account = call.account
             /\ return[call.link].token = call.token
             /\ return[call.link].account = call.account
    BY <1>1 DEF LinkInv, CallsSound
  <2>2. 1 .. tokens \subseteq 1 .. tokens'
    BY ConnectionLinksAssumption DEF LinkInv, LinksTyped
  <2>3. call.accepted => LinkKept(call.link)
    BY <1>1
  <2> QED BY <2>1, <2>2, <2>3 DEF LinkKept
<1>2. CASE call \notin linkCalls
  BY <1>2
<1> QED BY <1>1, <1>2

\* The steps that only let time pass, lose a call or create the link at Composio.
LEMMA LinkWaiting ==
  ASSUME LinkInv,
         \/ Cleanup \/ \E l \in Links : LinkOverdue(l)
         \/ \E call \in linkCalls :
              LinkCallLost(call) \/ \E a \in ComposioConnections : LinkCreated(call, a)
  PROVE  LinkInv' /\ RevokedStay
<1>0. /\ UNCHANGED agentConnectionVars /\ UNCHANGED tokens
      /\ link \in [Links -> LinkRow] /\ return \in [Links -> ReturnRow] /\ tokens \in Nat
  BY ConnectionLinksAssumption DEF Cleanup, LinkOverdue, LinkCallLost, LinkCreated, LinkInv, LinksTyped
<1>1. AgentInv' /\ RevokedStay
  BY <1>0 DEF agentConnectionVars, LinkInv, AgentInv, GrantsBare, RevokedStay
<1>2. /\ link' \in [Links -> LinkRow] /\ return' \in [Links -> ReturnRow]
      /\ \A l \in Links : LinkKept(l)
      /\ \A l \in Links : link'[l].status \in {"completed", "expired"} =>
           link[l].status \in {"completed", "expired"}
  <2>1. CASE Cleanup
    BY <2>1, ExpiringRows DEF Cleanup, LinkInv, LinkKept
  <2>2. ASSUME NEW l \in Links, LinkOverdue(l)
        PROVE  <1>2!:
    BY <1>0, <2>2 DEF LinkOverdue, LinkKept, LinkRow, ReturnRow
  <2>3. CASE UNCHANGED <<link, return>>
    BY <1>0, <2>3 DEF LinkKept
  <2> QED BY <2>1, <2>2, <2>3 DEF LinkCallLost, LinkCreated
<1>3. LinksTyped'
  BY <1>0, <1>2 DEF LinkInv, LinksTyped, LinkKept, NoAccount
<1>4. ASSUME NEW call \in linkCalls
      PROVE  call.link \in Links
  BY DEF LinkInv, CallsSound
<1>5. CallsSound'
  <2>1. CASE Cleanup \/ (\E l \in Links : LinkOverdue(l)) \/ \E call \in linkCalls : LinkCallLost(call)
    <3>1. linkCalls' \subseteq linkCalls
      BY <2>1 DEF Cleanup, LinkOverdue, LinkCallLost
    <3>2. CASE linkCalls = {}
      BY <3>1, <3>2 DEF CallsSound
    <3>3. CASE linkCalls # {}
      <4>1. PICK call \in linkCalls : TRUE
        BY <3>3
      <4> QED BY <1>0, <1>2, <1>4, <3>1, <4>1, CallsStaySound
    <3> QED BY <3>2, <3>3
  <2>2. ASSUME NEW call \in linkCalls, NEW a \in ComposioConnections, LinkCreated(call, a)
        PROVE  CallsSound'
    <3> DEFINE new == [call EXCEPT !.account = a]
    <3>1. /\ call \in [link : Links, token : 1 .. tokens,
                       account : ComposioConnections \cup {NoAccount}, accepted : BOOLEAN]
          /\ ~call.accepted
      BY <2>2 DEF LinkInv, CallsSound, LinkCreated
    <3>2. ~new.accepted /\ new \in [link : Links, token : 1 .. tokens,
                                    account : ComposioConnections \cup {NoAccount}, accepted : BOOLEAN]
      BY <3>1
    <3>3. linkCalls' \subseteq linkCalls \cup {new}
      BY <2>2 DEF LinkCreated
    <3> HIDE DEF new
    <3> QED BY <1>0, <1>2, <1>4, <3>2, <3>3, CallsStaySound
  <2> QED BY <2>1, <2>2
<1> QED BY <1>1, <1>3, <1>5 DEF LinkInv

\* A reservation: a new token, and no call of the link was accepted before.
LEMMA LinkReserving ==
  ASSUME LinkInv, NEW l \in Links, ReserveLink(l)
  PROVE  LinkInv' /\ RevokedStay
<1> DEFINE new == [link |-> l, token |-> tokens + 1, account |-> NoAccount, accepted |-> FALSE]
           row == [NoLink EXCEPT !.status = "pending"]
           back == [NoReturn EXCEPT !.status = "pending", !.token = tokens + 1]
<1>0. /\ tokens < MaxToken /\ tokens' = tokens + 1 /\ tokens \in Nat
      /\ link' = [ExpiredLinks EXCEPT ![l] = row] /\ return' = [ExpiredReturns EXCEPT ![l] = back]
      /\ linkCalls' = linkCalls \cup {new} /\ UNCHANGED agentConnectionVars
      /\ ExpiredLink(l).status \in {"none", "abandoned"}
  BY ConnectionLinksAssumption DEF ReserveLink, Dispatchable, LinkInv, LinksTyped
<1>1. AgentInv' /\ RevokedStay
  BY <1>0 DEF agentConnectionVars, LinkInv, AgentInv, GrantsBare, RevokedStay
<1>2. /\ ExpiredLinks \in [Links -> LinkRow] /\ ExpiredReturns \in [Links -> ReturnRow]
      /\ \A k \in Links :
           /\ ExpiredLinks[k].account = link[k].account
           /\ ExpiredReturns[k].account = return[k].account
           /\ ExpiredReturns[k].token = return[k].token
           /\ ExpiredLinks[k].status \in {"completed", "expired"} <=>
                link[k].status \in {"completed", "expired"}
  BY ExpiringRows DEF LinkInv
<1>3. row \in LinkRow /\ row.status = "pending"
  BY DEF NoLink, LinkRow
<1>4. back \in ReturnRow
  <2>1. tokens + 1 \in 0 .. MaxToken
    BY <1>0, ConnectionLinksAssumption
  <2>2. NoReturn \in ReturnRow
    BY ConnectionLinksAssumption DEF NoReturn, ReturnRow
  <2> HIDE DEF NoReturn
  <2> QED BY <2>1, <2>2 DEF ReturnRow
<1>5. ~new.accepted /\ new \in [link : Links, token : 1 .. tokens',
                                account : ComposioConnections \cup {NoAccount}, accepted : BOOLEAN]
  BY <1>0
<1>6. link[l].status \notin {"completed", "expired"}
  <2>1. ExpiredLinks[l] = ExpiredLink(l)
    BY DEF ExpiredLinks
  <2> QED BY <1>0, <1>2, <2>1
<1> HIDE DEF new, row, back, ExpiredLinks, ExpiredReturns
<1>7. \A k \in Links \ {l} : LinkKept(k)
  BY <1>0, <1>2 DEF LinkKept
<1>8. \A call \in linkCalls : call.accepted => LinkKept(call.link)
  BY <1>6, <1>7 DEF LinkInv, CallsSound
<1>9. CallsSound'
  <2>1. tokens' \in Nat /\ tokens <= tokens' /\ linkCalls' \subseteq linkCalls \cup {new}
    BY <1>0
  <2> QED BY <1>5, <1>8, <2>1, CallsStaySound
<1>10. LinksTyped'
  <2>1. link' \in [Links -> LinkRow] /\ return' \in [Links -> ReturnRow]
    BY <1>0, <1>2, <1>3, <1>4
  <2>2. \A k \in Links : link'[k].status \in {"completed", "expired"} => link'[k].account # NoAccount
    BY <1>0, <1>2, <1>3 DEF LinkInv, LinksTyped
  <2>3. tokens' \in 0 .. MaxToken
    BY <1>0, ConnectionLinksAssumption
  <2> QED BY <2>1, <2>2, <2>3 DEF LinksTyped, NoAccount
<1> QED BY <1>1, <1>9, <1>10 DEF LinkInv

\* The answer arrives: it is accepted only under the token of the row.
LEMMA LinkCompleting ==
  ASSUME LinkInv, NEW call \in linkCalls, CompleteLink(call)
  PROVE  LinkInv' /\ RevokedStay
<1> DEFINE l == call.link
           a == call.account
           new == [call EXCEPT !.accepted = TRUE]
           row == [status |-> "completed", account |-> a, overdue |-> FALSE]
           back == [ExpiredReturns[l] EXCEPT !.account = a, !.overdue = FALSE]
<1>0. /\ call \in [link : Links, token : 1 .. tokens, account : ComposioConnections \cup {NoAccount},
                   accepted : BOOLEAN]
      /\ a # NoAccount /\ a \in ComposioConnections /\ l \in Links /\ tokens \in Nat
      /\ UNCHANGED <<tokens, agentRevision, grants, attaching>>
  BY ConnectionLinksAssumption DEF CompleteLink, LinkInv, LinksTyped, CallsSound
<1>1. /\ ExpiredLinks \in [Links -> LinkRow] /\ ExpiredReturns \in [Links -> ReturnRow]
      /\ \A k \in Links :
           /\ ExpiredLinks[k].account = link[k].account
           /\ ExpiredReturns[k].account = return[k].account
           /\ ExpiredReturns[k].token = return[k].token
           /\ ExpiredLinks[k].status \in {"completed", "expired"} <=>
                link[k].status \in {"completed", "expired"}
  BY ExpiringRows DEF LinkInv
<1> HIDE DEF ExpiredLinks, ExpiredReturns
<1>2. CASE ~LinkCompletable(call)
  <2>1. /\ link' = ExpiredLinks /\ return' = ExpiredReturns /\ linkCalls' = linkCalls \ {call}
        /\ UNCHANGED connection
    BY <1>2 DEF CompleteLink
  <2>2. \A k \in Links : LinkKept(k)
    BY <1>1, <2>1 DEF LinkKept
  <2>3. CallsSound'
    <3>1. \A other \in linkCalls : other.accepted => LinkKept(other.link)
      BY <2>2 DEF LinkInv, CallsSound
    <3> QED BY <1>0, <2>1, <3>1, CallsStaySound
  <2>4. LinksTyped'
    BY <1>0, <1>1, <2>1 DEF LinkInv, LinksTyped, NoAccount
  <2>5. AgentInv' /\ RevokedStay
    BY <1>0, <2>1 DEF LinkInv, AgentInv, GrantsBare, RevokedStay
  <2> QED BY <2>3, <2>4, <2>5 DEF LinkInv
<1>3. CASE LinkCompletable(call)
  <2>1. /\ link' = [ExpiredLinks EXCEPT ![l] = row]
        /\ return' = [ExpiredReturns EXCEPT ![l] = back]
        /\ linkCalls' = (linkCalls \ {call}) \cup {new}
        /\ connection' = IF connection[a].status # "none" THEN connection
             ELSE [connection EXCEPT ![a].status = "initiated", ![a].authKind = "composio"]
        /\ return[l].token = call.token /\ link[l].status = "pending"
    BY <1>0, <1>1, <1>3 DEF CompleteLink, LinkCompletable
  <2>2. row \in LinkRow /\ row.status = "completed" /\ row.account = a
    BY <1>0 DEF LinkRow
  <2>3. back \in ReturnRow /\ back.token = call.token /\ back.account = a
    <3> DEFINE old == ExpiredReturns[l]
    <3>1. old \in ReturnRow /\ old.token = call.token
      BY <1>0, <1>1, <2>1
    <3> HIDE DEF old
    <3>2. ASSUME NEW no \in BOOLEAN
          PROVE  /\ [old EXCEPT !.account = a, !.overdue = no] \in ReturnRow
                 /\ [old EXCEPT !.account = a, !.overdue = no].token = call.token
                 /\ [old EXCEPT !.account = a, !.overdue = no].account = a
      BY <1>0, <3>1 DEF ReturnRow
    <3> QED BY <3>2 DEF old
  <2>4. /\ new \in [link : Links, token : 1 .. tokens, account : ComposioConnections \cup {NoAccount},
                    accepted : BOOLEAN]
        /\ new.link = l /\ new.token = call.token /\ new.account = a
    BY <1>0
  <2> HIDE DEF new, row, back
  <2>5. \A k \in Links \ {l} : LinkKept(k)
    BY <1>0, <1>1, <2>1 DEF LinkKept
  <2>6. \A other \in linkCalls : other.accepted => LinkKept(other.link)
    BY <2>1, <2>5 DEF LinkInv, CallsSound
  <2>7. CallsSound'
    <3>1. /\ link'[l].status = "completed" /\ link'[l].account = a
          /\ return'[l].token = call.token /\ return'[l].account = a
      BY <1>0, <1>1, <2>1, <2>2, <2>3
    <3>2. ASSUME NEW other \in linkCalls, other.accepted
          PROVE  /\ link'[other.link].status \in {"completed", "expired"}
                 /\ link'[other.link].account = other.account
                 /\ return'[other.link].token = other.token
                 /\ return'[other.link].account = other.account
                 /\ other.account # NoAccount
      BY <2>6, <3>2 DEF LinkInv, CallsSound, LinkKept
    <3>3. \A other \in linkCalls :
            other \in [link : Links, token : 1 .. tokens, account : ComposioConnections \cup {NoAccount},
                       accepted : BOOLEAN]
      BY DEF LinkInv, CallsSound
    <3> SUFFICES ASSUME NEW x \in linkCalls'
                 PROVE  /\ x \in [link : Links, token : 1 .. tokens',
                                  account : ComposioConnections \cup {NoAccount}, accepted : BOOLEAN]
                        /\ x.accepted =>
                             /\ x.account # NoAccount
                             /\ link'[x.link].status \in {"completed", "expired"}
                             /\ link'[x.link].account = x.account
                             /\ return'[x.link].token = x.token
                             /\ return'[x.link].account = x.account
      BY DEF CallsSound, NoAccount
    <3>4. CASE x = new
      BY <1>0, <2>4, <3>1, <3>4
    <3>5. CASE x \in linkCalls
      BY <1>0, <3>2, <3>3, <3>5
    <3> QED BY <2>1, <3>4, <3>5
  <2>8. LinksTyped'
    <3>1. link' \in [Links -> LinkRow] /\ return' \in [Links -> ReturnRow]
      BY <1>0, <1>1, <2>1, <2>2, <2>3
    <3>2. \A k \in Links : link'[k].status \in {"completed", "expired"} => link'[k].account # NoAccount
      BY <1>0, <1>1, <2>1, <2>2 DEF LinkInv, LinksTyped
    <3> QED BY <1>0, <3>1, <3>2 DEF LinkInv, LinksTyped, NoAccount
  <2>9. AgentInv' /\ RevokedStay
    <3>1. CASE connection[a].status # "none"
      BY <1>0, <2>1, <3>1 DEF LinkInv, AgentInv, GrantsBare, RevokedStay
    <3>2. CASE connection[a].status = "none"
      <4> DEFINE opened == [connection[a] EXCEPT !.status = "initiated", !.authKind = "composio"]
      <4>1. a \in Connections /\ connection[a] \in ConnectionRow /\ RowHolds(connection[a])
        BY <1>0 DEF LinkInv, AgentInv, Connections
      <4>2. /\ opened \in ConnectionRow /\ opened.status = "initiated" /\ opened.authKind = "composio"
            /\ opened.key = connection[a].key
        BY <4>1 DEF ConnectionRow
      <4>3. connection' = [connection EXCEPT ![a] = opened]
        BY <2>1, <3>2, <4>1 DEF LinkInv, AgentInv
      <4> HIDE DEF opened
      <4>4. RowHolds(opened)
        BY <4>2 DEF RowHolds
      <4> QED BY <1>0, <3>2, <4>1, <4>2, <4>3, <4>4, RowMovesAlone DEF LinkInv
    <3> QED BY <3>1, <3>2
  <2> QED BY <2>7, <2>8, <2>9 DEF LinkInv
<1> QED BY <1>2, <1>3

\* The browser returns.
LEMMA LinkReturning ==
  ASSUME LinkInv, NEW call \in linkCalls, NEW outcome \in {"returned", "failed"},
         RecordReturn(call, outcome)
  PROVE  LinkInv' /\ RevokedStay
<1> DEFINE l == call.link
           n == Cardinality(CompletedReturns) + 1
           back == [ExpiredReturns[l] EXCEPT !.status = outcome, !.completed = n]
<1>0. l \in Links /\ tokens \in Nat /\ UNCHANGED <<linkCalls, tokens, agentConnectionVars>>
  BY ConnectionLinksAssumption DEF RecordReturn, LinkInv, LinksTyped, CallsSound
<1>1. /\ ExpiredLinks \in [Links -> LinkRow] /\ ExpiredReturns \in [Links -> ReturnRow]
      /\ \A k \in Links :
           /\ ExpiredLinks[k].account = link[k].account
           /\ ExpiredReturns[k].account = return[k].account
           /\ ExpiredReturns[k].token = return[k].token
           /\ ExpiredLinks[k].status \in {"completed", "expired"} <=>
                link[k].status \in {"completed", "expired"}
  BY ExpiringRows DEF LinkInv
<1>2. n \in Nat
  <2>1. CompletedReturns \subseteq Links
    BY DEF CompletedReturns
  <2>2. IsFiniteSet(CompletedReturns)
    BY <2>1, ConnectionLinksAssumption, FS_Subset
  <2> QED BY <2>2, FS_CardinalityType
<1> HIDE DEF ExpiredLinks, ExpiredReturns, n
<1>3. link' = ExpiredLinks /\ return' = [ExpiredReturns EXCEPT ![l] = back]
  BY <1>0, <1>1 DEF RecordReturn, n
<1>4. /\ back \in ReturnRow /\ back.token = ExpiredReturns[l].token
      /\ back.account = ExpiredReturns[l].account
  <2> DEFINE old == ExpiredReturns[l]
  <2>1. old \in ReturnRow
    BY <1>0, <1>1
  <2> HIDE DEF old
  <2>2. /\ [old EXCEPT !.status = outcome, !.completed = n] \in ReturnRow
        /\ [old EXCEPT !.status = outcome, !.completed = n].token = old.token
        /\ [old EXCEPT !.status = outcome, !.completed = n].account = old.account
    BY <1>2, <2>1 DEF ReturnRow
  <2> QED BY <2>2 DEF old
<1> HIDE DEF back
<1>5. \A k \in Links : LinkKept(k)
  BY <1>0, <1>1, <1>3, <1>4 DEF LinkKept
<1>6. CallsSound'
  <2>1. \A other \in linkCalls : other.accepted => LinkKept(other.link)
    BY <1>5 DEF LinkInv, CallsSound
  <2> QED BY <1>0, <2>1, CallsStaySound
<1>7. LinksTyped'
  <2>1. return' \in [Links -> ReturnRow]
    BY <1>1, <1>3, <1>4
  <2> QED BY <1>0, <1>1, <1>3, <2>1 DEF LinkInv, LinksTyped, NoAccount
<1>8. AgentInv' /\ RevokedStay
  BY <1>0 DEF agentConnectionVars, LinkInv, AgentInv, GrantsBare, RevokedStay
<1> QED BY <1>6, <1>7, <1>8 DEF LinkInv

\* A verified account is activated.
LEMMA LinkActivating ==
  ASSUME LinkInv, NEW a \in ComposioConnections, ActivateVerified(a)
  PROVE  LinkInv' /\ RevokedStay
<1> DEFINE row == [connection[a] EXCEPT !.status = "active"]
<1>0. /\ connection[a].status \in {"initiated", "active"}
      /\ UNCHANGED <<link, return, linkCalls, tokens, agentRevision, grants, attaching>>
      /\ connection \in [Connections -> ConnectionRow]
      /\ a \in Connections /\ connection[a] \in ConnectionRow /\ RowHolds(connection[a])
  BY DEF ActivateVerified, linkVars, LinkInv, AgentInv, Connections
<1>1. connection' = [connection EXCEPT ![a] = row]
  BY <1>0 DEF ActivateVerified
<1>2. /\ row \in ConnectionRow /\ row.status = "active" /\ row.key = connection[a].key
      /\ row.authKind = connection[a].authKind /\ row.credential = connection[a].credential
  BY <1>0 DEF ConnectionRow
<1> HIDE DEF row
<1>3. RowHolds(row)
  BY <1>0, <1>2, RowFields DEF RowHolds
<1>4. AgentInv' /\ RevokedStay
  BY <1>0, <1>1, <1>2, <1>3, RowMovesAlone DEF LinkInv
<1> QED BY <1>0, <1>4 DEF LinkInv, LinksTyped, CallsSound

\* Every step keeps the rows, and what is revoked stays revoked.
LEMMA LinkStep ==
  ASSUME LinkInv, [ConnectionLinksNext]_connectionLinkVars
  PROVE  LinkInv' /\ RevokedStay
<1>1. CASE UNCHANGED connectionLinkVars
  BY <1>1 DEF connectionLinkVars, linkVars, agentConnectionVars, LinkInv, AgentInv, GrantsBare,
              LinksTyped, CallsSound, RevokedStay
<1>2. CASE AgentConnectionsNext /\ UNCHANGED linkVars
  <2>1. AgentInv' /\ RevokedStay
    BY <1>2, AgentStep DEF LinkInv
  <2> QED BY <1>2, <2>1 DEF linkVars, LinkInv, LinksTyped, CallsSound
<1>3. CASE LinkNext
  BY <1>3, LinkWaiting, LinkReserving, LinkCompleting, LinkReturning, LinkActivating DEF LinkNext
<1> QED BY <1>1, <1>2, <1>3 DEF ConnectionLinksNext

LEMMA LinkStarts ==
  ASSUME AgentConnectionsInit, ConnectionLinksInit
  PROVE  LinkInv
<1>1. NoLink \in LinkRow /\ NoLink.status = "none"
  BY DEF NoLink, LinkRow
<1>2. NoReturn \in ReturnRow
  BY ConnectionLinksAssumption DEF NoReturn, ReturnRow
<1> HIDE DEF NoLink, NoReturn
<1>3. LinksTyped /\ CallsSound
  BY <1>1, <1>2, ConnectionLinksAssumption DEF ConnectionLinksInit, LinksTyped, CallsSound
<1> QED BY <1>3, AgentStarts DEF LinkInv

\* The rows of links, their returns and calls agree in every state.
THEOREM LinkInvariant == ConnectionLinksSpec => []LinkInv
<1>1. AgentConnectionsInit /\ ConnectionLinksInit => LinkInv
  BY LinkStarts
<1>2. LinkInv /\ [ConnectionLinksNext]_connectionLinkVars => LinkInv'
  BY LinkStep
<1> QED BY <1>1, <1>2, PTL DEF ConnectionLinksSpec

\* The rows of links and returns have their types.
THEOREM LinksTypeCorrect == ConnectionLinksSpec => []ConnectionLinksTypeOK
<1>1. LinkInv => ConnectionLinksTypeOK
  BY DEF LinkInv, LinksTyped, LinkRow, ReturnRow, ConnectionLinksTypeOK
<1> QED BY <1>1, LinkInvariant, PTL

\* A link that was accepted is the one of the token that the owner keeps, in any order
\* of abandoned reservations, new ones under the same key and late answers.
THEOREM AcceptedLinksAreCurrent == ConnectionLinksSpec => []AcceptedLinkIsCurrent
<1>1. LinkInv => AcceptedLinkIsCurrent
  BY DEF LinkInv, CallsSound, AcceptedLinkIsCurrent
<1> QED BY <1>1, LinkInvariant, PTL

\* While links are made, returned and activated beside configurations of the Agent, a
\* revoked Connection stays revoked and bare.
THEOREM RevokedLinksStayBare == ConnectionLinksSpec => RevokedStaysBare
<1> DEFINE Bare == \A c \in Connections :
             connection[c].status = "revoked" =>
               /\ connection'[c].status = "revoked"
               /\ connection'[c].credential = 0
               /\ \A r \in Revisions : grants'[r][c] # "active"
<1>1. LinkInv /\ [ConnectionLinksNext]_connectionLinkVars => [Bare]_<<connection, grants>>
  <2> SUFFICES ASSUME LinkInv, [ConnectionLinksNext]_connectionLinkVars PROVE Bare
    OBVIOUS
  <2>1. AgentInv' /\ RevokedStay
    BY LinkStep DEF LinkInv
  <2> QED BY <2>1 DEF RevokedStay, AgentInv, RowHolds, GrantsBare, Connections, Revisions
<1> QED BY <1>1, LinkInvariant, PTL DEF ConnectionLinksSpec, RevokedStaysBare

-----------------------------------------------------------------------------
(* Connections to remote MCP servers *)

Named == RemoteConnections \cup {NewConnection}

MutationRow == [operation : {"none", "create", "reauthenticate", "delete"}, connection : Named]

RequestRow ==
  [status : {"none", "reserved", "starting", "pending", "exchanging", "completed", "failed"},
   connection : Named, expired : BOOLEAN]

FlowRow ==
  [at : {"idle", "reserving", "beginning", "exchanging", "sealing"}, base : 0 .. MaxCredential]

DirectCall ==
  [operation : {"create", "reauthenticate", "delete"}, key : Keys, connection : Named,
   base : 0 .. MaxCredential]

RefreshRow ==
  [at : {"idle", "asked", "refused"}, connection : Named, base : 0 .. MaxCredential]

\* The key of a Connection is the one under which it was created.
KeysSound ==
  /\ mutation \in [Keys -> MutationRow]
  /\ \A c \in RemoteConnections :
       connection[c].key # NoKey =>
         mutation[connection[c].key] = [operation |-> "create", connection |-> c]

\* A creation that completed names the Connection of its key, a reauthentication
\* always its own.
RequestsSound ==
  /\ request \in [Requests -> RequestRow]
  /\ \A q \in Requests :
       /\ Creates(q) /\ request[q].status = "completed" =>
            /\ request[q].connection \in RemoteConnections
            /\ connection[request[q].connection].key = RequestKey[q]
       /\ ~Creates(q) /\ request[q].status # "none" => request[q].connection = RequestTarget[q]

FlowsSound ==
  /\ flow \in [Requests -> FlowRow]
  /\ \A q \in Requests : flow[q].at = "sealing" => ~Creates(q)

DirectSound ==
  /\ direct \subseteq DirectCall
  /\ \A d \in direct : d.operation # "create" => d.connection \in RemoteConnections

\* A refresh in flight has a credential, which was refused if it is told so.
RefreshSound ==
  /\ refresh \in [Callers -> RefreshRow]
  /\ issued \in 0 .. MaxCredential /\ refused \subseteq 1 .. MaxCredential
  /\ \A p \in Callers : refresh[p].at # "idle" =>
       refresh[p].connection \in RemoteConnections /\ refresh[p].base # 0
  /\ \A p \in Callers : refresh[p].at = "refused" => refresh[p].base \in refused

UnavailableRefused ==
  \A c \in RemoteConnections :
    connection[c].status = "unavailable" => connection[c].credential \in refused

RemoteInv ==
  /\ AgentInv /\ KeysSound /\ RequestsSound /\ FlowsSound /\ DirectSound /\ RefreshSound
  /\ UnavailableRefused

\* A Connection that has a key keeps it.
KeysStay == \A c \in Connections : connection[c].key # NoKey => connection'[c].key = connection[c].key

\* One request gets another row, which holds what it must.
LEMMA RequestMoves ==
  ASSUME RequestsSound, KeysStay, NEW q \in Requests, NEW row \in RequestRow,
         request' = [request EXCEPT ![q] = row],
         Creates(q) /\ row.status = "completed" =>
           row.connection \in RemoteConnections /\ connection'[row.connection].key = RequestKey[q],
         ~Creates(q) /\ row.status # "none" => row.connection = RequestTarget[q]
  PROVE  RequestsSound'
<1>1. /\ request' \in [Requests -> RequestRow] /\ request'[q] = row
      /\ \A o \in Requests \ {q} : request'[o] = request[o]
  BY DEF RequestsSound
<1> SUFFICES ASSUME NEW o \in Requests
             PROVE  /\ Creates(o) /\ request'[o].status = "completed" =>
                         /\ request'[o].connection \in RemoteConnections
                         /\ connection'[request'[o].connection].key = RequestKey[o]
                    /\ ~Creates(o) /\ request'[o].status # "none" =>
                         request'[o].connection = RequestTarget[o]
  BY <1>1 DEF RequestsSound, Creates, RequestRow, Named, NewConnection
<1>2. RequestKey[o] # NoKey
  BY RequestAssumption
<1>3. CASE o = q
  BY <1>1, <1>3
<1>4. CASE o # q
  BY <1>1, <1>2, <1>4 DEF RequestsSound, KeysStay, Connections
<1> QED BY <1>3, <1>4

\* No request changes, and keys stay.
LEMMA RequestsKept ==
  ASSUME RequestsSound, KeysStay, UNCHANGED request
  PROVE  RequestsSound'
<1>1. ASSUME NEW o \in Requests, Creates(o), request[o].status = "completed"
      PROVE  connection'[request[o].connection].key = RequestKey[o]
  <2>1. RequestKey[o] # NoKey
    BY RequestAssumption
  <2> QED BY <1>1, <2>1 DEF RequestsSound, KeysStay, Connections
<1> QED BY <1>1 DEF RequestsSound, Creates, RequestRow, Named, NewConnection

\* The status of a request that is there changes, and it does not complete.
LEMMA StatusMoves ==
  ASSUME RequestsSound, KeysStay, NEW q \in Requests,
         NEW status \in {"reserved", "starting", "pending", "exchanging", "failed"},
         request[q].status # "none", request' = [request EXCEPT ![q].status = status]
  PROVE  RequestsSound'
<1> DEFINE row == [request[q] EXCEPT !.status = status]
<1>1. request[q] \in RequestRow /\ request \in [Requests -> RequestRow]
  BY DEF RequestsSound
<1>2. /\ row \in RequestRow /\ row.status = status /\ row.connection = request[q].connection
      /\ request' = [request EXCEPT ![q] = row]
  BY <1>1 DEF RequestRow
<1>3. ~Creates(q) => request[q].connection = RequestTarget[q]
  BY DEF RequestsSound
<1> HIDE DEF row
<1> QED BY <1>2, <1>3, RequestMoves

\* A request that fails, if it is not settled.
LEMMA RequestFails ==
  ASSUME RequestsSound, KeysStay, NEW q \in Requests, request' = Failed(q)
  PROVE  RequestsSound'
<1>1. CASE request[q].status \in LiveStatuses
  <2>1. request[q].status # "none" /\ request' = [request EXCEPT ![q].status = "failed"]
    BY <1>1 DEF LiveStatuses, Failed
  <2> QED BY <2>1, StatusMoves
<1>2. CASE request[q].status \notin LiveStatuses
  BY <1>2, RequestsKept DEF Failed
<1> QED BY <1>1, <1>2

\* A method that ends, or starts anew.
LEMMA FlowMoves ==
  ASSUME FlowsSound, NEW q \in Requests,
         \/ flow' = [flow EXCEPT ![q] = IdleFlow]
         \/ \E at \in {"beginning", "exchanging"} :
              flow' = [flow EXCEPT ![q] = [at |-> at, base |-> 0]]
         \/ flow' = [flow EXCEPT ![q].at = "reserving"]
         \/ UNCHANGED flow
  PROVE  FlowsSound'
<1>1. IdleFlow \in FlowRow /\ IdleFlow.at = "idle"
  BY AgentConnectionsAssumption DEF IdleFlow, FlowRow
<1>2. ASSUME NEW row \in FlowRow, row.at # "sealing", flow' = [flow EXCEPT ![q] = row]
      PROVE  FlowsSound'
  BY <1>2 DEF FlowsSound, Creates, NewConnection
<1>3. ASSUME NEW at \in {"beginning", "exchanging"}, flow' = [flow EXCEPT ![q] = [at |-> at, base |-> 0]]
      PROVE  FlowsSound'
  <2>1. [at |-> at, base |-> 0] \in FlowRow /\ [at |-> at, base |-> 0].at # "sealing"
    BY AgentConnectionsAssumption DEF FlowRow
  <2> QED BY <1>2, <1>3, <2>1
<1>4. CASE flow' = [flow EXCEPT ![q].at = "reserving"]
  <2> DEFINE row == [flow[q] EXCEPT !.at = "reserving"]
  <2>1. row \in FlowRow /\ row.at # "sealing" /\ flow' = [flow EXCEPT ![q] = row]
    BY <1>4 DEF FlowsSound, FlowRow
  <2> HIDE DEF row
  <2> QED BY <1>2, <2>1
<1>5. CASE UNCHANGED flow
  BY <1>5 DEF FlowsSound, Creates, NewConnection
<1> HIDE DEF IdleFlow
<1> QED BY <1>1, <1>2, <1>3, <1>4, <1>5

\* The steps of a request that leave the Connections alone.
LEMMA RequestWaiting ==
  ASSUME RemoteInv, NEW q \in Requests,
         \/ ReserveAuthentication(q) \/ InsertRequest(q) \/ BeginOAuth(q) \/ CompleteOAuth(q)
         \/ AuthorizationStarted(q) \/ FlowFails(q) \/ FlowDies(q) \/ FailOAuth(q) \/ Expire(q)
         \/ ReauthenticationRead(q)
  PROVE  RemoteInv' /\ RevokedStay
<1>0. /\ UNCHANGED <<mutation, direct, refresh, issued, refused, agentConnectionVars>>
      /\ RequestsSound /\ FlowsSound
      /\ request \in [Requests -> RequestRow] /\ flow \in [Requests -> FlowRow]
  BY DEF ReserveAuthentication, InsertRequest, BeginOAuth, CompleteOAuth, Claim,
         AuthorizationStarted, FlowFails, FlowDies, FailOAuth, Expire, ReauthenticationRead,
         RemoteInv, RequestsSound, FlowsSound
<1>1. KeysStay
  BY <1>0 DEF KeysStay, agentConnectionVars
<1>2. ASSUME ReserveAuthentication(q)
      PROVE  RequestsSound' /\ FlowsSound'
  <2>1. request' = [o \in Requests |-> IF request[o].expired THEN NoRequest ELSE request[o]]
    BY <1>2 DEF ReserveAuthentication
  <2>2. NoRequest \in RequestRow /\ NoRequest.status = "none"
    BY DEF NoRequest, RequestRow, Named
  <2> HIDE DEF NoRequest
  <2>3. RequestsSound'
    BY <1>0, <2>1, <2>2 DEF RequestsSound, Creates, agentConnectionVars, RequestRow, Named, NewConnection
  <2>4. FlowsSound'
    BY <1>0, <1>2, FlowMoves DEF ReserveAuthentication
  <2> QED BY <2>3, <2>4
<1>3. ASSUME InsertRequest(q)
      PROVE  RequestsSound' /\ FlowsSound'
  <2> DEFINE row == [status |-> "reserved", connection |-> RequestTarget[q], expired |-> FALSE]
  <2>1. row \in RequestRow /\ row.status = "reserved" /\ row.connection = RequestTarget[q]
    BY RequestAssumption DEF RequestRow, Named
  <2>2. request' = [request EXCEPT ![q] = row] \/ UNCHANGED request
    BY <1>3 DEF InsertRequest
  <2> HIDE DEF row
  <2>3. RequestsSound'
    BY <1>0, <1>1, <2>1, <2>2, RequestMoves, RequestsKept
  <2>4. FlowsSound'
    BY <1>0, <1>3, FlowMoves DEF InsertRequest
  <2> QED BY <2>3, <2>4
<1>4. ASSUME BeginOAuth(q) \/ CompleteOAuth(q)
      PROVE  RequestsSound' /\ FlowsSound'
  <2>1. /\ request[q].status # "none"
        /\ \/ request' = [request EXCEPT ![q].status = "starting"]
           \/ request' = [request EXCEPT ![q].status = "exchanging"]
        /\ \E at \in {"beginning", "exchanging"} :
             flow' = [flow EXCEPT ![q] = [at |-> at, base |-> 0]]
    BY <1>4 DEF BeginOAuth, CompleteOAuth, Claim, Open
  <2> QED BY <1>0, <1>1, <2>1, StatusMoves, FlowMoves
<1>5. ASSUME AuthorizationStarted(q)
      PROVE  RequestsSound' /\ FlowsSound'
  <2>1. \/ request' = Failed(q)
        \/ request[q].status # "none" /\ request' = [request EXCEPT ![q].status = "pending"]
    BY <1>5 DEF AuthorizationStarted
  <2>2. flow' = [flow EXCEPT ![q] = IdleFlow]
    BY <1>5 DEF AuthorizationStarted
  <2> QED BY <1>0, <1>1, <2>1, <2>2, StatusMoves, RequestFails, FlowMoves
<1>6. ASSUME FlowFails(q)
      PROVE  RequestsSound' /\ FlowsSound'
  BY <1>0, <1>1, <1>6, RequestFails, FlowMoves DEF FlowFails
<1>7. ASSUME FlowDies(q)
      PROVE  RequestsSound' /\ FlowsSound'
  BY <1>0, <1>1, <1>7, RequestsKept, FlowMoves DEF FlowDies
<1>8. ASSUME FailOAuth(q)
      PROVE  RequestsSound' /\ FlowsSound'
  BY <1>0, <1>1, <1>8, RequestFails, FlowMoves DEF FailOAuth
<1>9. ASSUME Expire(q)
      PROVE  RequestsSound' /\ FlowsSound'
  <2> DEFINE row == [request[q] EXCEPT !.expired = TRUE]
  <2>1. /\ row \in RequestRow /\ row.status = request[q].status
        /\ row.connection = request[q].connection /\ request' = [request EXCEPT ![q] = row]
    BY <1>0, <1>9 DEF Expire, RequestRow
  <2>2. UNCHANGED <<flow, connection>>
    BY <1>0, <1>9 DEF Expire, agentConnectionVars
  <2> HIDE DEF row
  <2>3. RequestsSound'
    BY <1>0, <1>1, <2>1, <2>2, RequestMoves DEF RequestsSound
  <2> QED BY <1>0, <2>2, <2>3, FlowMoves
<1>10. ASSUME ReauthenticationRead(q)
      PROVE  RequestsSound' /\ FlowsSound'
  <2>1. CASE connection[RequestTarget[q]].credential # 0
    <3> DEFINE row == [at |-> "sealing", base |-> connection[RequestTarget[q]].credential]
    <3>1. flow' = [flow EXCEPT ![q] = row] /\ UNCHANGED request /\ ~Creates(q)
      BY <1>10, <2>1 DEF ReauthenticationRead
    <3>2. RequestTarget[q] \in Connections
      BY <3>1, RequestAssumption DEF Creates, Connections
    <3>3. row \in FlowRow
      BY <3>2, RowFields DEF RemoteInv, AgentInv, FlowRow
    <3> HIDE DEF row
    <3>4. FlowsSound'
      BY <1>0, <3>1, <3>3 DEF FlowsSound, Creates, NewConnection
    <3> QED BY <1>0, <1>1, <3>1, <3>4, RequestsKept
  <2>2. CASE connection[RequestTarget[q]].credential = 0
    BY <1>0, <1>1, <1>10, <2>2, RequestFails, FlowMoves DEF ReauthenticationRead
  <2> QED BY <2>1, <2>2
<1>11. RequestsSound' /\ FlowsSound'
  BY <1>2, <1>3, <1>4, <1>5, <1>6, <1>7, <1>8, <1>9, <1>10
<1> QED
  BY <1>0, <1>11 DEF agentConnectionVars, RemoteInv, AgentInv, GrantsBare, KeysSound, DirectSound,
     RefreshSound, UnavailableRefused, RevokedStay

\* The row of one Connection changes, and it was not revoked and is not.
LEMMA RemoteRowMoves ==
  ASSUME RemoteInv, NEW c \in RemoteConnections, NEW row \in ConnectionRow, RowHolds(row),
         connection' = [connection EXCEPT ![c] = row],
         connection[c].status # "revoked", row.status # "revoked",
         row.status = "unavailable" => row.credential \in refused,
         connection[c].key \in {NoKey, row.key},
         UNCHANGED <<refused, agentRevision, grants, attaching>>
  PROVE  /\ AgentInv' /\ RevokedStay /\ KeysStay /\ UnavailableRefused'
         /\ connection'[c] = row /\ \A d \in Connections \ {c} : connection'[d] = connection[d]
<1>1. c \in Connections /\ AgentInv
  BY DEF Connections, RemoteInv
<1> HIDE DEF RowHolds
<1>2. /\ connection'[c] = row /\ \A d \in Connections \ {c} : connection'[d] = connection[d]
  BY <1>1, RowChanges
<1>3. AgentInv' /\ RevokedStay
  BY <1>1, RowMovesAlone
<1>4. KeysStay
  BY <1>2 DEF KeysStay
<1>5. UnavailableRefused'
  BY <1>2 DEF RemoteInv, UnavailableRefused, Connections
<1> QED BY <1>2, <1>3, <1>4, <1>5

\* A key that was not used is used for something, and the keys of the Connections stay.
LEMMA KeyUsed ==
  ASSUME KeysSound, NEW k \in Keys, Unclaimed(k), NEW m \in MutationRow,
         mutation' = [mutation EXCEPT ![k] = m],
         \A c \in RemoteConnections : connection'[c].key = connection[c].key,
         \A c \in RemoteConnections : connection[c].key \in Keys \cup {NoKey}
  PROVE  KeysSound'
<1>1. mutation' \in [Keys -> MutationRow] /\ \A o \in Keys \ {k} : mutation'[o] = mutation[o]
  BY DEF KeysSound
<1>2. ASSUME NEW c \in RemoteConnections, connection'[c].key # NoKey
      PROVE  mutation'[connection'[c].key] = [operation |-> "create", connection |-> c]
  <2>1. mutation[connection[c].key] = [operation |-> "create", connection |-> c]
    BY <1>2 DEF KeysSound
  <2>2. connection[c].key # k
    BY <2>1 DEF Unclaimed
  <2> QED BY <1>1, <1>2, <2>1, <2>2
<1> QED BY <1>1, <1>2 DEF KeysSound, NoKey, MutationRow, Named, NewConnection

\* A Connection is created under a key that was not used.
LEMMA ConnectionCreated ==
  ASSUME RemoteInv, NEW c \in FreshConnections, NEW k \in Keys, Unclaimed(k),
         NEW auth \in {"oauth", "bearer"}, Issue,
         connection' = [connection EXCEPT ![c] =
           [status |-> "active", authKind |-> auth, credential |-> issued + 1, key |-> k]],
         mutation' = [mutation EXCEPT ![k] = [operation |-> "create", connection |-> c]],
         UNCHANGED <<refused, agentRevision, grants, attaching>>
  PROVE  /\ AgentInv' /\ RevokedStay /\ KeysStay /\ UnavailableRefused' /\ KeysSound'
         /\ connection'[c].key = k /\ issued' \in 0 .. MaxCredential
<1> DEFINE row == [status |-> "active", authKind |-> auth, credential |-> issued + 1, key |-> k]
<1>1. /\ c \in RemoteConnections /\ c \in Connections /\ connection[c].status = "none"
      /\ connection \in [Connections -> ConnectionRow] /\ RowHolds(connection[c])
  BY DEF FreshConnections, RemoteInv, AgentInv, Connections
<1>2. connection[c].key = NoKey
  BY <1>1 DEF RowHolds
<1>3. issued + 1 \in 0 .. MaxCredential /\ issued + 1 # 0 /\ issued' = issued + 1
  BY AgentConnectionsAssumption DEF Issue, RemoteInv, RefreshSound
<1>4. row \in ConnectionRow /\ RowHolds(row) /\ row.status = "active" /\ row.key = k
  BY <1>3 DEF ConnectionRow, RowHolds
<1> HIDE DEF row
<1>5. connection' = [connection EXCEPT ![c] = row]
  BY DEF row
<1>6. /\ AgentInv' /\ RevokedStay /\ KeysStay /\ UnavailableRefused'
      /\ connection'[c] = row /\ \A d \in Connections \ {c} : connection'[d] = connection[d]
  BY <1>1, <1>2, <1>4, <1>5, RemoteRowMoves
<1>7. KeysSound'
  <2>1. mutation \in [Keys -> MutationRow]
    BY DEF RemoteInv, KeysSound
  <2>2. [operation |-> "create", connection |-> c] \in MutationRow
    BY <1>1 DEF MutationRow, Named
  <2>3. mutation' \in [Keys -> MutationRow]
    BY <2>1, <2>2
  <2>4. /\ mutation'[k] = [operation |-> "create", connection |-> c]
        /\ \A o \in Keys \ {k} : mutation'[o] = mutation[o]
    BY <2>1
  <2>5. ASSUME NEW d \in RemoteConnections, connection'[d].key # NoKey
        PROVE  mutation'[connection'[d].key] = [operation |-> "create", connection |-> d]
    <3>1. CASE d = c
      BY <1>4, <1>6, <2>4, <3>1
    <3>2. CASE d # c
      <4>1. connection'[d] = connection[d] /\ connection[d].key \in Keys
        BY <1>1, <1>6, <2>5, <3>2, RowFields DEF Connections
      <4>2. mutation[connection[d].key] = [operation |-> "create", connection |-> d]
        BY <2>5, <4>1 DEF RemoteInv, KeysSound
      <4>3. connection[d].key # k
        BY <4>2 DEF Unclaimed
      <4> QED BY <2>4, <4>1, <4>2, <4>3
    <3> QED BY <3>1, <3>2
  <2> QED BY <2>3, <2>5 DEF KeysSound, NoKey, MutationRow, Named, NewConnection
<1> QED BY <1>3, <1>4, <1>6, <1>7

\* A Connection gets another credential or status, and keeps its key.
LEMMA ConnectionRenewed ==
  ASSUME RemoteInv, NEW c \in RemoteConnections, Usable(c), Issue,
         \/ connection' = [connection EXCEPT ![c].status = "active", ![c].credential = issued + 1]
         \/ /\ connection[c].status = "active"
            /\ connection' = [connection EXCEPT ![c].credential = issued + 1],
         UNCHANGED <<refused, agentRevision, grants, attaching>>
  PROVE  /\ AgentInv' /\ RevokedStay /\ KeysStay /\ UnavailableRefused'
         /\ issued' \in 0 .. MaxCredential
         /\ \A d \in RemoteConnections : connection'[d].key = connection[d].key
<1>1. /\ c \in Connections /\ connection \in [Connections -> ConnectionRow]
      /\ connection[c] \in ConnectionRow /\ RowHolds(connection[c])
      /\ connection[c].status \in {"active", "unavailable"}
  BY DEF RemoteInv, AgentInv, Connections, Usable
<1>2. issued + 1 \in 0 .. MaxCredential /\ issued + 1 # 0 /\ issued' = issued + 1
  BY AgentConnectionsAssumption DEF Issue, RemoteInv, RefreshSound
<1>3. PICK row \in ConnectionRow :
        /\ connection' = [connection EXCEPT ![c] = row] /\ row.status = "active"
        /\ row.credential = issued + 1 /\ row.key = connection[c].key
        /\ row.authKind = connection[c].authKind
  <2>1. CASE connection' = [connection EXCEPT ![c].status = "active", ![c].credential = issued + 1]
    <3> DEFINE row == [connection[c] EXCEPT !.status = "active", !.credential = issued + 1]
    <3>1. /\ row \in ConnectionRow /\ row.status = "active" /\ row.credential = issued + 1
          /\ row.key = connection[c].key /\ row.authKind = connection[c].authKind
      BY <1>1, <1>2 DEF ConnectionRow
    <3>2. connection' = [connection EXCEPT ![c] = row]
      BY <1>1, <2>1
    <3> HIDE DEF row
    <3> QED BY <3>1, <3>2
  <2>2. CASE /\ connection[c].status = "active"
             /\ connection' = [connection EXCEPT ![c].credential = issued + 1]
    <3> DEFINE row == [connection[c] EXCEPT !.credential = issued + 1]
    <3>1. /\ row \in ConnectionRow /\ row.status = "active" /\ row.credential = issued + 1
          /\ row.key = connection[c].key /\ row.authKind = connection[c].authKind
      BY <1>1, <1>2, <2>2 DEF ConnectionRow
    <3>2. connection' = [connection EXCEPT ![c] = row]
      BY <1>1, <2>2
    <3> HIDE DEF row
    <3> QED BY <3>1, <3>2
  <2> QED BY <2>1, <2>2
<1>4. RowHolds(row)
  BY <1>1, <1>2, <1>3 DEF RowHolds
<1>5. /\ AgentInv' /\ RevokedStay /\ KeysStay /\ UnavailableRefused'
      /\ connection'[c] = row /\ \A d \in Connections \ {c} : connection'[d] = connection[d]
  BY <1>1, <1>3, <1>4, RemoteRowMoves
<1> QED BY <1>2, <1>3, <1>5 DEF Connections

\* The keys of the Connections are those of the mutations, or none.
LEMMA KeysTyped ==
  ASSUME RemoteInv
  PROVE  \A c \in RemoteConnections : connection[c].key \in Keys \cup {NoKey}
BY RowFields DEF RemoteInv, AgentInv, Connections

\* No key is used, and those of the Connections stay.
LEMMA KeysKept ==
  ASSUME KeysSound, UNCHANGED mutation,
         \A c \in RemoteConnections : connection'[c].key = connection[c].key
  PROVE  KeysSound'
BY DEF KeysSound, NoKey, MutationRow, Named, NewConnection

\* The exchange of an OAuth request ends in a Connection, a new credential or a failure.
LEMMA RequestCommitting ==
  ASSUME RemoteInv, NEW q \in Requests, CreateExchanged(q) \/ ReauthenticationSealed(q)
  PROVE  RemoteInv' /\ RevokedStay
<1>0. /\ UNCHANGED <<direct, refresh, refused, agentRevision, grants, attaching>>
      /\ Issue /\ flow' = [flow EXCEPT ![q] = IdleFlow] /\ RequestsSound /\ FlowsSound
      /\ issued' \in 0 .. MaxCredential
  BY AgentConnectionsAssumption DEF CreateExchanged, ReauthenticationSealed, Issue, RemoteInv, RefreshSound
<1>1. FlowsSound' /\ DirectSound' /\ RefreshSound'
  BY <1>0, FlowMoves DEF RemoteInv, DirectSound, RefreshSound
<1>2. ASSUME request' = Failed(q), UNCHANGED <<connection, mutation>>
      PROVE  RemoteInv' /\ RevokedStay
  <2>1. KeysStay /\ RevokedStay
    BY <1>2 DEF KeysStay, RevokedStay
  <2>2. RequestsSound'
    BY <1>0, <1>2, <2>1, RequestFails
  <2> QED BY <1>0, <1>1, <1>2, <2>1, <2>2
          DEF RemoteInv, AgentInv, GrantsBare, KeysSound, UnavailableRefused
<1>3. ASSUME CreateExchanged(q), Creatable(q)
      PROVE  RemoteInv' /\ RevokedStay
  <2>1. PICK c \in FreshConnections :
          /\ connection' = [connection EXCEPT ![c] =
               [status |-> "active", authKind |-> "oauth", credential |-> issued + 1,
                key |-> RequestKey[q]]]
          /\ mutation' = [mutation EXCEPT ![RequestKey[q]] = [operation |-> "create", connection |-> c]]
          /\ request' = [request EXCEPT ![q].status = "completed", ![q].connection = c]
    BY <1>3 DEF CreateExchanged
  <2>2. RequestKey[q] \in Keys /\ Unclaimed(RequestKey[q]) /\ Creates(q) /\ c \in RemoteConnections
    BY <1>3, RequestAssumption DEF Creatable, CreateExchanged, FreshConnections
  <2>3. /\ AgentInv' /\ RevokedStay /\ KeysStay /\ UnavailableRefused' /\ KeysSound'
        /\ connection'[c].key = RequestKey[q]
    BY <1>0, <2>1, <2>2, ConnectionCreated
  <2>4. RequestsSound'
    <3> DEFINE row == [request[q] EXCEPT !.status = "completed", !.connection = c]
    <3>1. request[q] \in RequestRow /\ request \in [Requests -> RequestRow]
      BY <1>0 DEF RequestsSound
    <3>2. /\ row \in RequestRow /\ row.connection = c
          /\ request' = [request EXCEPT ![q] = row]
      BY <2>1, <2>2, <3>1 DEF RequestRow, Named
    <3> HIDE DEF row
    <3> QED BY <1>0, <2>2, <2>3, <3>2, RequestMoves
  <2> QED BY <1>1, <2>3, <2>4 DEF RemoteInv
<1>4. ASSUME ReauthenticationSealed(q),
             Open(q, "exchanging") /\ Replaceable(RequestTarget[q], flow[q].base)
      PROVE  RemoteInv' /\ RevokedStay
  <2> DEFINE c == RequestTarget[q]
  <2>1. /\ request' = [request EXCEPT ![q].status = "completed"]
        /\ connection' = [connection EXCEPT ![c].status = "active", ![c].credential = issued + 1]
        /\ UNCHANGED mutation /\ Usable(c) /\ request[q].status # "none"
    BY <1>4 DEF ReauthenticationSealed, Open, Replaceable
  <2>2. ~Creates(q) /\ c \in RemoteConnections
    BY <1>0, <1>4, RequestAssumption DEF ReauthenticationSealed, FlowsSound, Creates
  <2> HIDE DEF c
  <2>3. /\ AgentInv' /\ RevokedStay /\ KeysStay /\ UnavailableRefused'
        /\ \A d \in RemoteConnections : connection'[d].key = connection[d].key
    BY <1>0, <2>1, <2>2, ConnectionRenewed
  <2>4. KeysSound'
    BY <2>1, <2>3, KeysKept DEF RemoteInv
  <2>5. RequestsSound'
    <3> DEFINE row == [request[q] EXCEPT !.status = "completed"]
    <3>1. request[q] \in RequestRow /\ request \in [Requests -> RequestRow]
      BY <1>0 DEF RequestsSound
    <3>2. /\ row \in RequestRow /\ row.connection = request[q].connection
          /\ request' = [request EXCEPT ![q] = row]
      BY <2>1, <3>1 DEF RequestRow
    <3>3. request[q].connection = RequestTarget[q]
      BY <1>0, <2>1, <2>2 DEF RequestsSound
    <3> HIDE DEF row
    <3> QED BY <1>0, <2>2, <2>3, <3>2, <3>3, RequestMoves
  <2> QED BY <1>1, <2>3, <2>4, <2>5 DEF RemoteInv
<1> QED BY <1>2, <1>3, <1>4 DEF CreateExchanged, ReauthenticationSealed

\* A step of the owner or the Agent on the Connections, with the requests left alone.
LEMMA RowsFollowed ==
  ASSUME RemoteInv, RowsFollow, UNCHANGED refused
  PROVE  /\ KeysStay /\ UnavailableRefused'
         /\ \A c \in RemoteConnections : connection'[c].key = connection[c].key
<1>1. \A c \in RemoteConnections : c \in Connections
  BY DEF Connections
<1>2. UnavailableRefused'
  BY <1>1 DEF RowsFollow, RemoteInv, UnavailableRefused
<1> QED BY <1>1, <1>2 DEF RowsFollow, KeysStay

\* The calls of create, reauthenticate and delete.
LEMMA DirectStep ==
  ASSUME RemoteInv, DirectNext
  PROVE  RemoteInv' /\ RevokedStay
<1>0. /\ direct \subseteq DirectCall
      /\ \A d \in direct : d.operation # "create" => d.connection \in RemoteConnections
      /\ mutation \in [Keys -> MutationRow] /\ connection \in [Connections -> ConnectionRow]
  BY DEF RemoteInv, DirectSound, KeysSound, AgentInv
<1>1. ASSUME NEW operation \in {"create", "reauthenticate", "delete"}, NEW k \in Keys, NEW c \in Named,
             operation # "create" => c \in RemoteConnections,
             c \in RemoteConnections \/ c = NewConnection, StartDirect(operation, k, c)
      PROVE  RemoteInv' /\ RevokedStay
  <2> DEFINE base == IF c = NewConnection THEN 0 ELSE connection[c].credential
             call == [operation |-> operation, key |-> k, connection |-> c, base |-> base]
  <2>1. /\ direct' = direct \cup {call}
        /\ UNCHANGED <<mutation, request, flow, refresh, issued, refused, connection,
                       agentRevision, grants, attaching>>
    BY <1>1 DEF StartDirect, agentConnectionVars
  <2>2. base \in 0 .. MaxCredential
    BY <1>0, <1>1, RowFields, AgentConnectionsAssumption DEF Connections
  <2> HIDE DEF base
  <2>3. call \in DirectCall /\ call.operation = operation /\ call.connection = c
    BY <1>1, <2>2 DEF DirectCall
  <2> HIDE DEF call
  <2>4. DirectSound'
    BY <1>0, <1>1, <2>1, <2>3 DEF DirectSound, DirectCall, Named, NewConnection
  <2>5. KeysStay /\ RevokedStay /\ RequestsSound' /\ FlowsSound'
    BY <2>1, RequestsKept DEF KeysStay, RevokedStay, RemoteInv, FlowsSound, Creates, NewConnection
  <2> QED BY <2>1, <2>4, <2>5 DEF RemoteInv, AgentInv, GrantsBare, KeysSound, RefreshSound, UnavailableRefused
<1>2. ASSUME NEW d \in direct, direct' = direct \ {d}, UNCHANGED <<request, flow>>, KeysStay
      PROVE  DirectSound' /\ RequestsSound' /\ FlowsSound'
  BY <1>0, <1>2, RequestsKept DEF DirectSound, RemoteInv, FlowsSound, Creates, NewConnection, DirectCall,
     Named
<1>3. ASSUME NEW d \in direct, DirectDies(d)
      PROVE  RemoteInv' /\ RevokedStay
  <2>1. /\ direct' = direct \ {d}
        /\ UNCHANGED <<mutation, request, flow, refresh, issued, refused, connection, agentRevision,
                       grants, attaching>>
    BY <1>3 DEF DirectDies, agentConnectionVars
  <2>2. KeysStay /\ RevokedStay
    BY <2>1 DEF KeysStay, RevokedStay
  <2>3. DirectSound' /\ RequestsSound' /\ FlowsSound'
    BY <1>2, <2>1, <2>2
  <2> QED BY <2>1, <2>2, <2>3 DEF RemoteInv, AgentInv, GrantsBare, KeysSound, RefreshSound, UnavailableRefused
<1>4. ASSUME NEW d \in direct, DirectCreated(d)
      PROVE  RemoteInv' /\ RevokedStay
  <2>1. PICK c \in FreshConnections :
          /\ connection' = [connection EXCEPT ![c] =
               [status |-> "active", authKind |-> "bearer", credential |-> issued + 1, key |-> d.key]]
          /\ Mutated(d, c)
    BY <1>4 DEF DirectCreated
  <2>2. d.key \in Keys /\ d.operation = "create" /\ Unclaimed(d.key) /\ Issue
    BY <1>0, <1>4 DEF DirectCreated, DirectCall
  <2>3. /\ mutation' = [mutation EXCEPT ![d.key] = [operation |-> "create", connection |-> c]]
        /\ direct' = direct \ {d}
        /\ UNCHANGED <<request, flow, refresh, refused, agentRevision, grants, attaching>>
    BY <1>4, <2>1, <2>2 DEF DirectCreated, Mutated
  <2>4. /\ AgentInv' /\ RevokedStay /\ KeysStay /\ UnavailableRefused' /\ KeysSound'
        /\ issued' \in 0 .. MaxCredential
    BY <2>1, <2>2, <2>3, ConnectionCreated
  <2>5. DirectSound' /\ RequestsSound' /\ FlowsSound'
    BY <1>2, <2>3, <2>4
  <2> QED BY <2>3, <2>4, <2>5 DEF RemoteInv, RefreshSound
<1>5. ASSUME NEW d \in direct, NEW m \in MutationRow, d.key \in Keys, Unclaimed(d.key),
             mutation' = [mutation EXCEPT ![d.key] = m],
             \A c \in RemoteConnections : connection'[c].key = connection[c].key
      PROVE  KeysSound'
  BY <1>5, KeyUsed, KeysTyped DEF RemoteInv
<1>6. ASSUME NEW d \in direct, Reauthenticated(d)
      PROVE  RemoteInv' /\ RevokedStay
  <2> DEFINE c == d.connection
             m == [operation |-> d.operation, connection |-> c]
  <2>1. /\ d.key \in Keys /\ d.operation = "reauthenticate" /\ Unclaimed(d.key) /\ Issue /\ Usable(c)
        /\ connection' = [connection EXCEPT ![c].status = "active", ![c].credential = issued + 1]
        /\ mutation' = [mutation EXCEPT ![d.key] = m] /\ direct' = direct \ {d}
        /\ UNCHANGED <<request, flow, refresh, refused, agentRevision, grants, attaching>>
    BY <1>0, <1>6 DEF Reauthenticated, Replaceable, Mutated, DirectCall
  <2>2. c \in RemoteConnections /\ m \in MutationRow
    BY <1>0, <2>1 DEF MutationRow, Named
  <2> HIDE DEF c, m
  <2>3. /\ AgentInv' /\ RevokedStay /\ KeysStay /\ UnavailableRefused'
        /\ issued' \in 0 .. MaxCredential
        /\ \A e \in RemoteConnections : connection'[e].key = connection[e].key
    BY <2>1, <2>2, ConnectionRenewed
  <2>4. KeysSound'
    BY <1>5, <2>1, <2>2, <2>3
  <2>5. DirectSound' /\ RequestsSound' /\ FlowsSound'
    BY <1>2, <2>1, <2>3
  <2> QED BY <2>1, <2>3, <2>4, <2>5 DEF RemoteInv, RefreshSound
<1>7. ASSUME NEW d \in direct, Deleted(d)
      PROVE  RemoteInv' /\ RevokedStay
  <2> DEFINE c == d.connection
             m == [operation |-> d.operation, connection |-> c]
  <2>1. /\ d.key \in Keys /\ d.operation = "delete" /\ Unclaimed(d.key)
        /\ connection' = [connection EXCEPT ![c] = RevokedRow(c)] /\ grants' = GrantsWithout(c)
        /\ mutation' = [mutation EXCEPT ![d.key] = m] /\ direct' = direct \ {d}
        /\ UNCHANGED <<request, flow, refresh, issued, refused, agentRevision, attaching>>
    BY <1>0, <1>7 DEF Deleted, Mutated, DirectCall
  <2>2. c \in RemoteConnections /\ c \in Connections /\ m \in MutationRow
    BY <1>0, <2>1 DEF MutationRow, Named, Connections
  <2> HIDE DEF c, m
  <2>3. AgentInv' /\ RevokedStay /\ RowsFollow
    BY <2>1, <2>2, RevokesAll DEF RemoteInv
  <2>4. /\ KeysStay /\ UnavailableRefused'
        /\ \A e \in RemoteConnections : connection'[e].key = connection[e].key
    BY <2>1, <2>3, RowsFollowed
  <2>5. KeysSound'
    BY <1>5, <2>1, <2>2, <2>4
  <2>6. DirectSound' /\ RequestsSound' /\ FlowsSound'
    BY <1>2, <2>1, <2>4
  <2> QED BY <2>1, <2>3, <2>4, <2>5, <2>6 DEF RemoteInv, RefreshSound
<1>8. ASSUME NEW k \in Keys, Create(k)
      PROVE  RemoteInv' /\ RevokedStay
  BY <1>1, <1>8 DEF Create, Named
<1>9. ASSUME NEW k \in Keys, NEW c \in RemoteConnections, Reauthenticate(k, c) \/ Delete(k, c)
      PROVE  RemoteInv' /\ RevokedStay
  BY <1>1, <1>9 DEF Reauthenticate, Delete, Named
<1> QED BY <1>3, <1>4, <1>6, <1>7, <1>8, <1>9 DEF DirectNext

\* The refresh of an expired token before a dispatch.
LEMMA RefreshStep ==
  ASSUME RemoteInv, NEW p \in Callers, RefreshNext(p)
  PROVE  RemoteInv' /\ RevokedStay
<1>0. /\ refresh \in [Callers -> RefreshRow] /\ refused \subseteq 1 .. MaxCredential
      /\ \A o \in Callers : refresh[o].at # "idle" =>
           refresh[o].connection \in RemoteConnections /\ refresh[o].base # 0
      /\ \A o \in Callers : refresh[o].at = "refused" => refresh[o].base \in refused
      /\ refresh[p].base \in 0 .. MaxCredential /\ issued \in 0 .. MaxCredential
      /\ connection \in [Connections -> ConnectionRow]
      /\ \A c \in Connections : RowHolds(connection[c])
  BY DEF RemoteInv, RefreshSound, RefreshRow, AgentInv
<1>1. UNCHANGED <<mutation, request, flow, direct, agentRevision, grants, attaching>>
  BY DEF RefreshNext, PrepareExecution, RefreshRefused, RefreshStored, RefreshFailed, RefreshDies,
         agentConnectionVars
<1>2. ASSUME KeysStay, \A c \in RemoteConnections : connection'[c].key = connection[c].key
      PROVE  KeysSound' /\ RequestsSound' /\ FlowsSound' /\ DirectSound'
  BY <1>1, <1>2, KeysKept, RequestsKept DEF RemoteInv, FlowsSound, DirectSound, Creates, NewConnection,
     DirectCall, Named
<1>3. ASSUME UNCHANGED connection, refused \subseteq refused', RefreshSound'
      PROVE  RemoteInv' /\ RevokedStay
  <2>1. KeysStay /\ RevokedStay
    BY <1>3 DEF KeysStay, RevokedStay
  <2>2. KeysSound' /\ RequestsSound' /\ FlowsSound' /\ DirectSound'
    BY <1>2, <1>3, <2>1
  <2> QED BY <1>1, <1>3, <2>1, <2>2 DEF RemoteInv, AgentInv, GrantsBare, UnavailableRefused
<1>4. IdleRefresh \in RefreshRow /\ IdleRefresh.at = "idle"
  BY AgentConnectionsAssumption DEF IdleRefresh, RefreshRow, Named
<1>5. ASSUME refresh' = [refresh EXCEPT ![p] = IdleRefresh], UNCHANGED refused,
             issued' \in 0 .. MaxCredential
      PROVE  RefreshSound'
  <2> HIDE DEF IdleRefresh
  <2> QED BY <1>0, <1>4, <1>5 DEF RefreshSound, RefreshRow, Named, NewConnection
<1>6. ASSUME NEW c \in RemoteConnections, PrepareExecution(p, c)
      PROVE  RemoteInv' /\ RevokedStay
  <2> DEFINE row == [at |-> "asked", connection |-> c, base |-> connection[c].credential]
  <2>1. /\ refresh' = [refresh EXCEPT ![p] = row] /\ UNCHANGED <<connection, issued, refused>>
        /\ connection[c].status = "active" /\ connection[c].authKind = "oauth"
    BY <1>6 DEF PrepareExecution, agentConnectionVars
  <2>2. connection[c].credential \in 0 .. MaxCredential /\ connection[c].credential # 0
    BY <1>0, <2>1, RowFields DEF Connections, RowHolds
  <2>3. row \in RefreshRow /\ row.at = "asked" /\ row.connection = c /\ row.base # 0
    BY <2>2 DEF RefreshRow, Named
  <2> HIDE DEF row
  <2>4. RefreshSound'
    BY <1>0, <2>1, <2>3 DEF RefreshSound, RefreshRow, Named, NewConnection
  <2> QED BY <1>3, <2>1, <2>4
<1>7. ASSUME RefreshRefused(p)
      PROVE  RemoteInv' /\ RevokedStay
  <2> DEFINE row == [refresh[p] EXCEPT !.at = "refused"]
  <2>1. /\ refresh[p].at = "asked" /\ refused' = refused \cup {refresh[p].base}
        /\ UNCHANGED <<connection, issued>> /\ refresh[p] \in RefreshRow
    BY <1>0, <1>7 DEF RefreshRefused, agentConnectionVars
  <2>2. refresh[p].base \in 1 .. MaxCredential
    BY <1>0, <2>1, AgentConnectionsAssumption
  <2>3. /\ row \in RefreshRow /\ row.base = refresh[p].base /\ row.connection = refresh[p].connection
        /\ refresh' = [refresh EXCEPT ![p] = row]
    BY <1>0, <1>7, <2>1 DEF RefreshRefused, RefreshRow
  <2> HIDE DEF row
  <2>4. RefreshSound'
    BY <1>0, <2>1, <2>2, <2>3 DEF RefreshSound, RefreshRow, Named, NewConnection
  <2> QED BY <1>3, <2>1, <2>4
<1>8. ASSUME RefreshStored(p)
      PROVE  RemoteInv' /\ RevokedStay
  <2> DEFINE c == refresh[p].connection
  <2>1. /\ refresh[p].at = "asked" /\ Issue /\ UNCHANGED refused
        /\ refresh' = [refresh EXCEPT ![p] = IdleRefresh] /\ c \in RemoteConnections
    BY <1>0, <1>8 DEF RefreshStored
  <2>2. issued' \in 0 .. MaxCredential
    BY <1>0, <2>1, AgentConnectionsAssumption DEF Issue
  <2>3. RefreshSound'
    BY <1>5, <2>1, <2>2
  <2>4. CASE StillStored(p)
    <3>1. /\ connection[c].status = "active"
          /\ connection' = [connection EXCEPT ![c].credential = issued + 1]
      BY <1>8, <2>4 DEF RefreshStored, StillStored
    <3> HIDE DEF c
    <3>2. /\ AgentInv' /\ RevokedStay /\ KeysStay /\ UnavailableRefused'
          /\ \A d \in RemoteConnections : connection'[d].key = connection[d].key
      BY <1>1, <2>1, <3>1, ConnectionRenewed DEF Usable
    <3> QED BY <1>2, <2>3, <3>2 DEF RemoteInv
  <2>5. CASE ~StillStored(p)
    <3>1. UNCHANGED connection
      BY <1>8, <2>5 DEF RefreshStored
    <3> QED BY <1>3, <2>1, <2>3, <3>1
  <2> QED BY <2>4, <2>5
<1>9. ASSUME RefreshFailed(p)
      PROVE  RemoteInv' /\ RevokedStay
  <2> DEFINE c == refresh[p].connection
             row == [connection[c] EXCEPT !.status = "unavailable"]
  <2>1. /\ refresh[p].at = "refused" /\ UNCHANGED <<issued, refused>>
        /\ refresh' = [refresh EXCEPT ![p] = IdleRefresh] /\ c \in RemoteConnections
        /\ refresh[p].base \in refused /\ refresh[p].base # 0
    BY <1>0, <1>9 DEF RefreshFailed
  <2>2. RefreshSound'
    BY <1>0, <1>5, <2>1
  <2>3. CASE StillStored(p)
    <3>1. /\ connection[c].status = "active" /\ connection[c].credential = refresh[p].base
          /\ c \in Connections /\ connection[c] \in ConnectionRow /\ RowHolds(connection[c])
      BY <1>0, <2>1, <2>3 DEF StillStored, Connections
    <3>2. connection' = [connection EXCEPT ![c] = row]
      BY <1>0, <1>9, <2>3, <3>1 DEF RefreshFailed
    <3>3. /\ row \in ConnectionRow /\ row.status = "unavailable"
          /\ row.credential = connection[c].credential /\ row.key = connection[c].key
      BY <3>1 DEF ConnectionRow
    <3> HIDE DEF row, c
    <3>4. RowHolds(row)
      BY <2>1, <3>1, <3>3 DEF RowHolds
    <3>5. /\ AgentInv' /\ RevokedStay /\ KeysStay /\ UnavailableRefused'
          /\ connection'[c] = row /\ \A d \in Connections \ {c} : connection'[d] = connection[d]
      BY <1>1, <2>1, <3>1, <3>2, <3>3, <3>4, RemoteRowMoves
    <3>6. \A d \in RemoteConnections : connection'[d].key = connection[d].key
      BY <3>3, <3>5 DEF Connections
    <3> QED BY <1>2, <2>2, <3>5, <3>6 DEF RemoteInv
  <2>4. CASE ~StillStored(p)
    <3>1. UNCHANGED connection
      BY <1>9, <2>4 DEF RefreshFailed
    <3> QED BY <1>3, <2>1, <2>2, <3>1
  <2> QED BY <2>3, <2>4
<1>10. ASSUME RefreshDies(p)
      PROVE  RemoteInv' /\ RevokedStay
  <2>1. /\ refresh' = [refresh EXCEPT ![p] = IdleRefresh] /\ UNCHANGED <<connection, issued, refused>>
    BY <1>10 DEF RefreshDies, agentConnectionVars
  <2> QED BY <1>0, <1>3, <1>5, <2>1
<1> QED BY <1>6, <1>7, <1>8, <1>9, <1>10 DEF RefreshNext

\* Every step keeps it, and what is revoked stays revoked.
LEMMA RemoteStepKeeps ==
  ASSUME RemoteInv, [RemoteMcpNext]_remoteMcpVars
  PROVE  RemoteInv' /\ RevokedStay
<1>1. CASE UNCHANGED remoteMcpVars
  <2>1. KeysStay /\ RevokedStay /\ RequestsSound' /\ FlowsSound'
    BY <1>1, RequestsKept DEF remoteMcpVars, remoteVars, agentConnectionVars, KeysStay, RevokedStay,
       RemoteInv, FlowsSound, Creates, NewConnection
  <2> QED BY <1>1, <2>1 DEF remoteMcpVars, remoteVars, agentConnectionVars, RemoteInv, AgentInv,
          GrantsBare, KeysSound, DirectSound, RefreshSound, UnavailableRefused
<1>2. CASE AgentConnectionsNext /\ UNCHANGED remoteVars
  <2>1. AgentInv' /\ RevokedStay /\ RowsFollow
    BY <1>2, AgentStep DEF RemoteInv
  <2>2. /\ KeysStay /\ UnavailableRefused'
        /\ \A c \in RemoteConnections : connection'[c].key = connection[c].key
    BY <1>2, <2>1, RowsFollowed DEF remoteVars
  <2>3. RequestsSound' /\ KeysSound'
    BY <1>2, <2>2, RequestsKept, KeysKept DEF remoteVars, RemoteInv
  <2> QED BY <1>2, <2>1, <2>2, <2>3 DEF remoteVars, RemoteInv, FlowsSound, DirectSound, RefreshSound,
          Creates, NewConnection
<1>3. ASSUME NEW q \in Requests, RequestNext(q)
      PROVE  RemoteInv' /\ RevokedStay
  BY <1>3, RequestWaiting, RequestCommitting DEF RequestNext
<1>4. CASE DirectNext
  BY <1>4, DirectStep
<1>5. ASSUME NEW p \in Callers, RefreshNext(p)
      PROVE  RemoteInv' /\ RevokedStay
  BY <1>5, RefreshStep
<1> QED BY <1>1, <1>2, <1>3, <1>4, <1>5 DEF RemoteMcpNext

LEMMA RemoteStarts ==
  ASSUME AgentConnectionsInit, RemoteMcpInit
  PROVE  RemoteInv
<1>1. NoMutation \in MutationRow /\ NoRequest \in RequestRow /\ NoRequest.status = "none"
  BY DEF NoMutation, MutationRow, NoRequest, RequestRow, Named
<1>2. /\ IdleFlow \in FlowRow /\ IdleFlow.at = "idle"
      /\ IdleRefresh \in RefreshRow /\ IdleRefresh.at = "idle" /\ 0 \in 0 .. MaxCredential
  BY AgentConnectionsAssumption DEF IdleFlow, FlowRow, IdleRefresh, RefreshRow, Named
<1>3. \A c \in RemoteConnections : connection[c].key = NoKey /\ connection[c].status = "none"
  BY DEF AgentConnectionsInit, Connections, NoConnection
<1> HIDE DEF NoMutation, NoRequest, IdleFlow, IdleRefresh
<1>4. KeysSound /\ RequestsSound /\ UnavailableRefused
  BY <1>1, <1>3 DEF RemoteMcpInit, KeysSound, RequestsSound, UnavailableRefused
<1>5. FlowsSound /\ DirectSound /\ RefreshSound
  BY <1>2 DEF RemoteMcpInit, FlowsSound, DirectSound, RefreshSound
<1> QED BY <1>4, <1>5, AgentStarts DEF RemoteInv

\* Keys, requests, refreshes and Connections agree in every state.
THEOREM RemoteInvariant == RemoteMcpSpec => []RemoteInv
<1>1. AgentConnectionsInit /\ RemoteMcpInit => RemoteInv
  BY RemoteStarts
<1>2. RemoteInv /\ [RemoteMcpNext]_remoteMcpVars => RemoteInv'
  BY RemoteStepKeeps
<1> QED BY <1>1, <1>2, PTL DEF RemoteMcpSpec

LEMMA RemoteTyped ==
  ASSUME RemoteInv
  PROVE  RemoteMcpTypeOK
<1>1. AgentConnectionsTypeOK
  BY RowFields DEF RemoteInv, AgentInv, RowHolds, Usable, AgentConnectionsTypeOK
<1>2. \A k \in Keys : /\ mutation[k].operation \in {"none", "create", "reauthenticate", "delete"}
                      /\ mutation[k].connection \in RemoteConnections \cup {NewConnection}
  BY DEF RemoteInv, KeysSound, MutationRow, Named
<1>3. ASSUME NEW q \in Requests
      PROVE  /\ request[q].status \in LiveStatuses \cup {"none", "completed", "failed"}
             /\ request[q].status = "completed" => request[q].connection \in RemoteConnections
             /\ flow[q].at \in {"idle", "reserving", "beginning", "exchanging", "sealing"}
  <2>1. ~Creates(q) => RequestTarget[q] \in RemoteConnections
    BY RequestAssumption DEF Creates
  <2> QED BY <2>1 DEF RemoteInv, RequestsSound, RequestRow, LiveStatuses, FlowsSound, FlowRow
<1>4. \A p \in Callers : refresh[p].at \in {"idle", "asked", "refused"}
  BY DEF RemoteInv, RefreshSound, RefreshRow
<1> QED BY <1>1, <1>2, <1>3, <1>4 DEF RemoteInv, RefreshSound, RemoteMcpTypeOK

\* The rows of Connections, mutations, requests and refreshes have their types, and an
\* OAuth or bearer Connection in use holds a credential.
THEOREM RemoteTypeCorrect == RemoteMcpSpec => []RemoteMcpTypeOK
<1>1. RemoteInv => RemoteMcpTypeOK
  BY RemoteTyped
<1> QED BY <1>1, RemoteInvariant, PTL

\* One key names at most one Connection, a request that completed names the Connection
\* of its key, and a Connection is unavailable only if the provider refused the very
\* credential that it stores.
THEOREM ConnectionsStayTrue == RemoteMcpSpec => []ConnectionsAreTrue
<1>1. RemoteInv => ConnectionsAreTrue
  <2> SUFFICES ASSUME RemoteInv PROVE ConnectionsAreTrue
    OBVIOUS
  <2>1. ASSUME NEW c \in RemoteConnections, NEW d \in RemoteConnections,
               connection[c].key = connection[d].key, connection[c].key # NoKey
        PROVE  c = d
    <3>1. /\ mutation[connection[c].key] = [operation |-> "create", connection |-> c]
          /\ mutation[connection[c].key] = [operation |-> "create", connection |-> d]
      BY <2>1 DEF RemoteInv, KeysSound
    <3> QED BY <3>1
  <2> QED BY <2>1 DEF RemoteInv, RequestsSound, UnavailableRefused, ConnectionsAreTrue
<1> QED BY <1>1, RemoteInvariant, PTL

\* Whatever setup in a browser, refresh, verification or deletion was on its way, a
\* revoked Connection stays revoked, holds no credential and is granted to no revision.
THEOREM RevokedConnectionsStayBare == RemoteMcpSpec => RevokedStaysBare
<1> DEFINE Bare == \A c \in Connections :
             connection[c].status = "revoked" =>
               /\ connection'[c].status = "revoked"
               /\ connection'[c].credential = 0
               /\ \A r \in Revisions : grants'[r][c] # "active"
<1>1. RemoteInv /\ [RemoteMcpNext]_remoteMcpVars => [Bare]_<<connection, grants>>
  <2> SUFFICES ASSUME RemoteInv, [RemoteMcpNext]_remoteMcpVars PROVE Bare
    OBVIOUS
  <2>1. AgentInv' /\ RevokedStay
    BY RemoteStepKeeps DEF RemoteInv
  <2> QED BY <2>1 DEF RevokedStay, AgentInv, RowHolds, GrantsBare, Connections, Revisions
<1> QED BY <1>1, RemoteInvariant, PTL DEF RemoteMcpSpec, RevokedStaysBare

-----------------------------------------------------------------------------
(* Configurations at the provider *)

\* What one setup has asked of the provider, was told of it and has recorded: a call or
\* a question under way keeps its recovery time, an answer that says nothing was made
\* comes when nothing will be, and so does a list.
SetupHolds(s) ==
  /\ setups[s].status \in {"none", "prepared", "exchanged"} =>
       configCalls[s] = "none" /\ s \notin sent /\ s \notin custom /\ reconciled[s] = {}
  /\ configCalls[s] # "none" \/ s \in sent => setups[s].recover > 0
  /\ configCalls[s] = "made" => s \in custom
  /\ s \in custom => s \notin sent
  /\ configCalls[s] = "refused" => s \notin custom /\ s \notin sent
  /\ reconciled[s] # {} => configCalls[s] = "none" /\ s \notin sent
  /\ "configured" \in reconciled[s] => s \in custom
  /\ "absent" \in reconciled[s] => s \notin custom
  /\ setups[s].status = "rejected" => s \notin custom /\ s \notin sent
  /\ setups[s].status = "configured" => CustomConfig(s) \in configs

SetupsSound ==
  /\ setups \in [Setups -> Setup]
  /\ reconciled \in [Setups -> SUBSET {"still_unknown", "configured", "absent"}]
  /\ \A s \in Setups : SetupHolds(s)

\* An enablement that is at the provider is the one that is pending, and the provider has
\* no configuration of its own before it answers.
EnablementHolds(e) ==
  /\ configCalls[e] # "none" \/ e \in sent =>
       enablements[e].status = "pending" /\ enablements[e].recover > 0
  /\ e \in sent => managed = 0
  /\ configCalls[e] = "made" => managed = 1
  /\ enablements[e].status = "completed" => enablements[e].config \subseteq configs

EnablementsSound ==
  /\ enablements \in [Enablements -> Enablement]
  /\ \A e \in Enablements : EnablementHolds(e)
  /\ \A e, f \in Enablements :
       enablements[e].status = "pending" /\ enablements[f].status = "pending" => e = f

\* Each row stands for a configuration that was made, and there is room for it.
RowsSound ==
  /\ \A c \in configs : (\E n \in 1..managed : c = ManagedConfig(n))
                          \/ \E s \in Setups : s \in custom /\ c = CustomConfig(s)
  /\ IsFiniteSet(configs) /\ Cardinality(configs) <= MaxConfigs
  /\ managed \in 0..MaxManaged /\ managed <= 1
  /\ custom \subseteq Setups /\ sent \subseteq Enablements \cup Setups
  /\ configCalls \in [Enablements \cup Setups -> CallPhases]

ConfigInv == RowsSound /\ EnablementsSound /\ SetupsSound

\* A step at something else leaves what a setup has asked and was told.
LEMMA SetupsKept ==
  ASSUME SetupsSound, UNCHANGED <<setups, custom, reconciled>>, configs \subseteq configs',
         \A s \in Setups : configCalls'[s] = configCalls[s] /\ (s \in sent' <=> s \in sent)
  PROVE  SetupsSound'
BY DEF SetupsSound, SetupHolds, CustomConfig, Setup

\* One setup moves, the others stay.
LEMMA SetupMoves ==
  ASSUME SetupsSound, NEW s \in Setups, configs \subseteq configs',
         setups' \in [Setups -> Setup],
         reconciled' \in [Setups -> SUBSET {"still_unknown", "configured", "absent"}],
         \A x \in Setups \ {s} :
           /\ setups'[x] = setups[x] /\ reconciled'[x] = reconciled[x]
           /\ configCalls'[x] = configCalls[x]
           /\ (x \in sent' <=> x \in sent) /\ (x \in custom' <=> x \in custom),
         SetupHolds(s)'
  PROVE  SetupsSound'
<1>1. ASSUME NEW x \in Setups \ {s}
      PROVE  SetupHolds(x)'
  <2>1. SetupHolds(x)
    BY DEF SetupsSound
  <2> QED BY <1>1, <2>1 DEF SetupHolds, CustomConfig
<1> QED BY <1>1 DEF SetupsSound, Setup

\* A step at a setup leaves what the enablements have asked and were told.
LEMMA EnablementsKept ==
  ASSUME EnablementsSound, UNCHANGED <<enablements, managed>>, configs \subseteq configs',
         \A e \in Enablements : configCalls'[e] = configCalls[e] /\ (e \in sent' <=> e \in sent)
  PROVE  EnablementsSound'
BY DEF EnablementsSound, EnablementHolds, Enablement, Configs, ManagedConfig, CustomConfig

\* Nothing is recorded.
LEMMA RowsKept ==
  ASSUME RowsSound, UNCHANGED configs, managed <= managed', managed' \in 0..MaxManaged, managed' <= 1,
         custom \subseteq custom', custom' \subseteq Setups, sent' \subseteq Enablements \cup Setups,
         configCalls' \in [Enablements \cup Setups -> CallPhases]
  PROVE  RowsSound'
<1>1. 1..managed \subseteq 1..managed'
  BY ProviderConfigsAssumption DEF RowsSound
<1> QED BY <1>1 DEF RowsSound, ManagedConfig, CustomConfig, CallPhases

\* A configuration that was made is recorded, if there is room for it.
LEMMA RowRecords ==
  ASSUME RowsSound, NEW c, Recordable(c), configs' = configs \cup {c},
         (\E n \in 1..managed : c = ManagedConfig(n)) \/ \E s \in Setups : s \in custom /\ c = CustomConfig(s),
         UNCHANGED <<managed, custom, sent>>, configCalls' \in [Enablements \cup Setups -> CallPhases]
  PROVE  RowsSound'
<1>1. IsFiniteSet(configs') /\ Cardinality(configs') <= MaxConfigs
  <2>1. CASE c \in configs
    <3>1. configs' = configs
      BY <2>1
    <3> QED BY <3>1 DEF RowsSound
  <2>2. CASE c \notin configs
    <3>1. Cardinality(configs) < MaxConfigs /\ IsFiniteSet(configs)
      BY <2>2 DEF Recordable, RowsSound
    <3>2. IsFiniteSet(configs') /\ Cardinality(configs') = Cardinality(configs) + 1
      BY <2>2, <3>1, FS_AddElement
    <3>3. Cardinality(configs) \in Nat
      BY <3>1, FS_CardinalityType
    <3> QED BY <3>1, <3>2, <3>3, ProviderConfigsAssumption
  <2> QED BY <2>1, <2>2
<1> QED BY <1>1 DEF RowsSound, ManagedConfig, CustomConfig, CallPhases

\* The reservations that are overdue are none of those at the provider.
LEMMA ExpiredSound ==
  ASSUME EnablementsSound
  PROVE  /\ Expired \in [Enablements -> Enablement]
         /\ \A e \in Enablements :
              /\ Expired[e].recover = enablements[e].recover /\ Expired[e].config = enablements[e].config
              /\ Expired[e].status \in {enablements[e].status, "abandoned"}
              /\ Busy(e) => Expired[e].status = "pending"
<1> SUFFICES ASSUME NEW e \in Enablements
             PROVE  /\ Expired[e] \in Enablement
                    /\ Expired[e].recover = enablements[e].recover
                    /\ Expired[e].config = enablements[e].config
                    /\ Expired[e].status \in {enablements[e].status, "abandoned"}
                    /\ Busy(e) => Expired[e].status = "pending"
  BY DEF Expired
<1>1. enablements[e] \in Enablement /\ EnablementHolds(e)
  BY DEF EnablementsSound
<1>2. CASE ~Overdue(e)
  <2>1. Expired[e] = enablements[e]
    BY <1>2 DEF Expired
  <2> QED BY <1>1, <2>1 DEF Busy, At, EnablementHolds
<1>3. CASE Overdue(e)
  <2>1. Expired[e] = [enablements[e] EXCEPT !.status = "abandoned"]
    BY <1>3 DEF Expired
  <2>2. ~Busy(e)
    BY <1>1, <1>3 DEF Overdue, Busy, At, EnablementHolds
  <2> QED BY <1>1, <2>1, <2>2 DEF Enablement
<1> QED BY <1>2, <1>3

\* What expires is given up, and what goes on is what it was.
LEMMA ExpiredKept ==
  ASSUME EnablementsSound, enablements' = Expired, configs \subseteq configs',
         UNCHANGED <<managed, sent>>,
         \A e \in Enablements : configCalls'[e] = configCalls[e] \/ configCalls'[e] = "none"
  PROVE  EnablementsSound'
<1>1. /\ enablements' \in [Enablements -> Enablement]
      /\ \A e \in Enablements :
           /\ enablements'[e].recover = enablements[e].recover
           /\ enablements'[e].config = enablements[e].config
           /\ enablements'[e].status \in {enablements[e].status, "abandoned"}
           /\ Busy(e) => enablements'[e].status = "pending"
  BY ExpiredSound
<1>2. ASSUME NEW e \in Enablements
      PROVE  EnablementHolds(e)'
  <2>1. EnablementHolds(e)
    BY DEF EnablementsSound
  <2> QED BY <1>1, <2>1 DEF EnablementHolds, Busy, At
<1>3. \A e, f \in Enablements :
        enablements'[e].status = "pending" /\ enablements'[f].status = "pending" => e = f
  BY <1>1 DEF EnablementsSound
<1> QED BY <1>1, <1>2, <1>3 DEF EnablementsSound, Enablement, Configs, ManagedConfig, CustomConfig


\* A setup that goes to another status keeps its session.
LEMMA SetupGoes ==
  ASSUME setups \in [Setups -> Setup], NEW s \in Setups, NEW status \in
           {"none", "prepared", "exchanged", "submitting", "outcome_unknown", "configured",
            "rejected", "deleted"},
         setups' = [setups EXCEPT ![s].status = status]
  PROVE  /\ setups' \in [Setups -> Setup]
         /\ setups'[s].status = status /\ setups'[s].recover = setups[s].recover
         /\ \A x \in Setups \ {s} : setups'[x] = setups[x]
<1> DEFINE y == [setups[s] EXCEPT !.status = status]
<1>1. y \in Setup /\ y.status = status /\ y.recover = setups[s].recover
  BY DEF Setup
<1>2. setups' = [setups EXCEPT ![s] = y]
  OBVIOUS
<1> HIDE DEF y
<1> QED BY <1>1, <1>2

\* The same, with another time until it is settled.
LEMMA SetupTimed ==
  ASSUME setups \in [Setups -> Setup], NEW s \in Setups, NEW status \in
           {"none", "prepared", "exchanged", "submitting", "outcome_unknown", "configured",
            "rejected", "deleted"},
         NEW recover \in 0..SetupRecovery,
         setups' = [setups EXCEPT ![s].status = status, ![s].recover = recover]
  PROVE  /\ setups' \in [Setups -> Setup]
         /\ setups'[s].status = status /\ setups'[s].recover = recover
         /\ \A x \in Setups \ {s} : setups'[x] = setups[x]
<1> DEFINE y == [setups[s] EXCEPT !.status = status, !.recover = recover]
<1>1. y \in Setup /\ y.status = status /\ y.recover = recover
  BY DEF Setup
<1>2. setups' = [setups EXCEPT ![s] = y]
  OBVIOUS
<1> HIDE DEF y
<1> QED BY <1>1, <1>2

\* A setup moves, with the calls at it, and nothing is made, asked or recorded.
LEMMA SetupStays ==
  ASSUME ConfigInv, NEW s \in Setups, UNCHANGED <<configs, enablements, managed, custom, sent>>,
         setups' \in [Setups -> Setup],
         reconciled' \in [Setups -> SUBSET {"still_unknown", "configured", "absent"}],
         configCalls' \in [Enablements \cup Setups -> CallPhases],
         \A x \in (Enablements \cup Setups) \ {s} : configCalls'[x] = configCalls[x],
         \A x \in Setups \ {s} : setups'[x] = setups[x] /\ reconciled'[x] = reconciled[x],
         SetupHolds(s)'
  PROVE  ConfigInv'
<1>1. RowsSound'
  BY RowsKept DEF ConfigInv, RowsSound
<1>2. EnablementsSound'
  BY EnablementsKept, ProviderConfigsAssumption DEF ConfigInv
<1>3. SetupsSound'
  BY SetupMoves, ProviderConfigsAssumption DEF ConfigInv
<1> QED BY <1>1, <1>2, <1>3 DEF ConfigInv

\* A configuration that the provider has made is recorded for the setup.
LEMMA SetupCompletes ==
  ASSUME ConfigInv, NEW s \in Setups, SetupCompleted(s), s \in custom,
         UNCHANGED <<enablements, managed, custom, sent>>,
         reconciled' \in [Setups -> SUBSET {"still_unknown", "configured", "absent"}],
         reconciled'[s] \subseteq reconciled[s],
         configCalls' \in [Enablements \cup Setups -> CallPhases], configCalls'[s] = "none",
         \A x \in (Enablements \cup Setups) \ {s} : configCalls'[x] = configCalls[x],
         \A x \in Setups \ {s} : reconciled'[x] = reconciled[x]
  PROVE  ConfigInv'
<1>0. SetupHolds(s) /\ setups \in [Setups -> Setup]
  BY DEF ConfigInv, SetupsSound
<1>1. CASE ~SetupCompletable(s)
  <2>1. UNCHANGED <<configs, setups>>
    BY <1>1 DEF SetupCompleted
  <2>2. SetupHolds(s)'
    BY <1>0, <2>1 DEF SetupHolds, CustomConfig
  <2> QED BY <1>0, <2>1, <2>2, SetupStays DEF Setup
<1>2. CASE SetupCompletable(s)
  <2>1. /\ configs' = configs \cup {CustomConfig(s)} /\ Recordable(CustomConfig(s))
        /\ setups' = [setups EXCEPT ![s].status = "configured", ![s].recover = 0]
    BY <1>2 DEF SetupCompleted, SetupCompletable
  <2>2. setups' \in [Setups -> Setup] /\ setups'[s].status = "configured" /\ setups'[s].recover = 0
    <3>1. 0 \in 0..SetupRecovery
      BY ProviderConfigsAssumption
    <3> QED BY <1>0, <2>1, <3>1, SetupTimed
  <2>3. \A x \in Setups \ {s} : setups'[x] = setups[x]
    BY <1>0, <2>1
  <2>4. s \notin sent
    BY <1>0 DEF SetupHolds
  <2>5. SetupHolds(s)'
    BY <1>0, <2>1, <2>2, <2>4 DEF SetupHolds
  <2>6. RowsSound'
    BY <2>1, RowRecords DEF ConfigInv
  <2>7. EnablementsSound'
    BY <2>1, EnablementsKept, ProviderConfigsAssumption DEF ConfigInv
  <2>8. SetupsSound'
    BY <2>1, <2>2, <2>3, <2>5, SetupMoves, ProviderConfigsAssumption DEF ConfigInv
  <2> QED BY <2>6, <2>7, <2>8 DEF ConfigInv
<1> QED BY <1>1, <1>2

\* A setup is prepared, and those whose time is over are deleted.
LEMMA PrepareStep ==
  ASSUME ConfigInv, NEW s \in Setups, PrepareSetup(s)
  PROVE  ConfigInv'
<1>0. setups \in [Setups -> Setup] /\ \A x \in Setups : SetupHolds(x)
  BY DEF ConfigInv, SetupsSound
<1> DEFINE new == [status |-> "prepared", left |-> SetupLifetime, recover |-> 0]
<1>1. new \in Setup /\ new.status = "prepared"
  BY ProviderConfigsAssumption DEF Setup
<1>2. setups[s].status = "none" /\ setups' = [Purged EXCEPT ![s] = new]
  BY DEF PrepareSetup
<1>3. UNCHANGED <<configs, enablements, managed, custom, sent, configCalls, reconciled>>
  BY DEF PrepareSetup, providerVars
<1> HIDE DEF new
<1>4. ASSUME NEW x \in Setups
      PROVE  /\ Purged[x] \in Setup /\ Purged[x].recover = setups[x].recover
             /\ Purged[x].status \in {setups[x].status, "deleted"}
  <2>1. setups[x] \in Setup
    BY <1>0
  <2>2. CASE ~Purgeable(x)
    BY <2>1, <2>2 DEF Purged
  <2>3. CASE Purgeable(x)
    <3>1. Purged[x] = [setups[x] EXCEPT !.status = "deleted"]
      BY <2>3 DEF Purged
    <3> QED BY <2>1, <3>1 DEF Setup
  <2> QED BY <2>2, <2>3
<1>5. setups' \in [Setups -> Setup] /\ setups'[s] = new /\ \A x \in Setups \ {s} : setups'[x] = Purged[x]
  BY <1>1, <1>2, <1>4 DEF Purged
<1>6. SetupHolds(s)'
  BY <1>0, <1>1, <1>2, <1>3, <1>5 DEF SetupHolds
<1>7. ASSUME NEW x \in Setups \ {s}
      PROVE  SetupHolds(x)'
  <2>1. SetupHolds(x)
    BY <1>0
  <2>2. setups'[x].recover = setups[x].recover /\ setups'[x].status \in {setups[x].status, "deleted"}
    BY <1>4, <1>5
  <2> QED BY <1>3, <2>1, <2>2 DEF SetupHolds, CustomConfig
<1>8. SetupsSound'
  BY <1>3, <1>5, <1>6, <1>7 DEF SetupsSound, ConfigInv, Setup
<1>9. RowsSound'
  BY <1>3, RowsKept DEF ConfigInv, RowsSound
<1>10. EnablementsSound'
  BY <1>3, EnablementsKept DEF ConfigInv
<1> QED BY <1>8, <1>9, <1>10 DEF ConfigInv


\* A call at a setup goes to another phase.
LEMMA CallAtSetup ==
  ASSUME ConfigInv, NEW s \in Setups, NEW phase \in CallPhases, GoesTo(s, phase)
  PROVE  /\ configCalls' \in [Enablements \cup Setups -> CallPhases] /\ configCalls'[s] = phase
         /\ \A x \in (Enablements \cup Setups) \ {s} : configCalls'[x] = configCalls[x]
BY DEF ConfigInv, RowsSound, GoesTo, CallPhases

\* The capability is exchanged, and the configuration is asked for.
LEMMA ConfigureStep ==
  ASSUME ConfigInv, NEW s \in Setups, ExchangeSetup(s) \/ ReserveConfiguration(s)
  PROVE  ConfigInv'
<1>0. setups \in [Setups -> Setup] /\ SetupHolds(s) /\ SetupsSound
  BY DEF ConfigInv, SetupsSound
<1>1. CASE ExchangeSetup(s)
  <2>1. /\ setups[s].status = "prepared" /\ setups' = [setups EXCEPT ![s].status = "exchanged"]
        /\ UNCHANGED <<configs, enablements, managed, custom, sent, configCalls, reconciled>>
    BY <1>1 DEF ExchangeSetup, providerVars
  <2>2. setups' \in [Setups -> Setup] /\ setups'[s].status = "exchanged"
    BY <1>0, <2>1, SetupGoes
  <2>3. \A x \in Setups \ {s} : setups'[x] = setups[x]
    BY <1>0, <2>1
  <2>4. SetupHolds(s)'
    BY <1>0, <2>1, <2>2 DEF SetupHolds
  <2> QED BY <2>1, <2>2, <2>3, <2>4, SetupStays DEF ConfigInv, RowsSound, SetupsSound
<1>2. CASE ReserveConfiguration(s)
  <2>1. /\ setups[s].status = "exchanged" /\ GoesTo(s, "asking") /\ sent' = sent \cup {s}
        /\ setups' = [setups EXCEPT ![s].status = "submitting", ![s].recover = SetupRecovery]
        /\ UNCHANGED <<configs, enablements, managed, custom, reconciled>>
    BY <1>2 DEF ReserveConfiguration
  <2>2. setups' \in [Setups -> Setup] /\ setups'[s].status = "submitting" /\ setups'[s].recover > 0
    <3>1. SetupRecovery \in 0..SetupRecovery /\ SetupRecovery > 0
      BY ProviderConfigsAssumption
    <3>2. setups' \in [Setups -> Setup] /\ setups'[s].status = "submitting"
          /\ setups'[s].recover = SetupRecovery
      BY <1>0, <2>1, <3>1, SetupTimed
    <3> QED BY <3>1, <3>2
  <2>3. \A x \in Setups \ {s} : setups'[x] = setups[x]
    BY <1>0, <2>1
  <2>4. /\ configCalls' \in [Enablements \cup Setups -> CallPhases] /\ configCalls'[s] = "asking"
        /\ \A x \in (Enablements \cup Setups) \ {s} : configCalls'[x] = configCalls[x]
    BY <2>1, CallAtSetup DEF CallPhases
  <2>5. SetupHolds(s)'
    BY <1>0, <2>1, <2>2, <2>4 DEF SetupHolds
  <2>6. RowsSound'
    BY <2>1, <2>4, RowsKept DEF ConfigInv, RowsSound
  <2>7. EnablementsSound'
    BY <2>1, <2>4, EnablementsKept, ProviderConfigsAssumption DEF ConfigInv
  <2>8. SetupsSound'
    BY <2>1, <2>2, <2>3, <2>4, <2>5, SetupMoves, ProviderConfigsAssumption DEF ConfigInv, SetupsSound
  <2> QED BY <2>6, <2>7, <2>8 DEF ConfigInv
<1> QED BY <1>1, <1>2

\* The provider's answer, and what it is recorded as.
LEMMA AnswerStep ==
  ASSUME ConfigInv, NEW s \in Setups,
         (\E answered \in BOOLEAN : CustomAnswered(s, answered)) \/ CompleteSetup(s) \/ RejectSetup(s)
  PROVE  ConfigInv'
<1>0. /\ setups \in [Setups -> Setup] /\ SetupHolds(s) /\ SetupsSound
      /\ reconciled \in [Setups -> SUBSET {"still_unknown", "configured", "absent"}]
  BY DEF ConfigInv, SetupsSound
<1>1. ASSUME NEW answered \in BOOLEAN, CustomAnswered(s, answered)
      PROVE  ConfigInv'
  <2>1. PICK phase \in {"made", "refused", "unknown"} :
          /\ GoesTo(s, phase)
          /\ phase = "made" => s \in custom
          /\ phase = "refused" => s \notin custom /\ s \notin sent
    BY <1>1 DEF CustomAnswered
  <2>2. /\ At(s, "asking")
        /\ UNCHANGED <<setups, configs, enablements, managed, custom, sent, reconciled>>
    BY <1>1 DEF CustomAnswered, configRows, providerVars
  <2>3. /\ configCalls' \in [Enablements \cup Setups -> CallPhases] /\ configCalls'[s] = phase
        /\ \A x \in (Enablements \cup Setups) \ {s} : configCalls'[x] = configCalls[x]
    BY <2>1, CallAtSetup DEF CallPhases
  <2>4. SetupHolds(s)'
    BY <1>0, <2>1, <2>2, <2>3 DEF SetupHolds, At, CustomConfig
  <2> HIDE DEF SetupsSound
  <2> QED BY <1>0, <2>2, <2>3, <2>4, SetupStays
<1>2. CASE CompleteSetup(s)
  <2>1. /\ At(s, "made") /\ SetupCompleted(s) /\ GoesTo(s, "none")
        /\ UNCHANGED <<enablements, managed, custom, sent, reconciled>>
    BY <1>2 DEF CompleteSetup, providerVars
  <2>2. /\ configCalls' \in [Enablements \cup Setups -> CallPhases] /\ configCalls'[s] = "none"
        /\ \A x \in (Enablements \cup Setups) \ {s} : configCalls'[x] = configCalls[x]
    BY <2>1, CallAtSetup DEF CallPhases
  <2>3. s \in custom
    BY <1>0, <2>1 DEF SetupHolds, At
  <2> QED BY <1>0, <2>1, <2>2, <2>3, SetupCompletes
<1>3. CASE RejectSetup(s)
  <2>1. /\ configCalls[s] \in {"refused", "unknown"} /\ GoesTo(s, "none")
        /\ UNCHANGED <<configs, enablements, managed, custom, sent, reconciled>>
    BY <1>3 DEF RejectSetup, providerVars
  <2>2. /\ configCalls' \in [Enablements \cup Setups -> CallPhases] /\ configCalls'[s] = "none"
        /\ \A x \in (Enablements \cup Setups) \ {s} : configCalls'[x] = configCalls[x]
    BY <2>1, CallAtSetup DEF CallPhases
  <2>3. /\ setups' \in [Setups -> Setup] /\ \A x \in Setups \ {s} : setups'[x] = setups[x]
        /\ SetupHolds(s)'
    <3>1. CASE setups' = setups
      <4>1. SetupHolds(s)'
        BY <1>0, <2>1, <2>2, <3>1 DEF SetupHolds, CustomConfig
      <4> QED BY <1>0, <3>1, <4>1
    <3>2. ASSUME setups' # setups
          PROVE  \E status \in {"rejected", "outcome_unknown"} :
                   /\ setups' = [setups EXCEPT ![s].status = status]
                   /\ status = "rejected" => At(s, "refused")
      BY <1>3, <3>2 DEF RejectSetup
    <3>3. CASE setups' # setups
      <4>1. PICK status \in {"rejected", "outcome_unknown"} :
              /\ setups' = [setups EXCEPT ![s].status = status]
              /\ status = "rejected" => At(s, "refused")
        BY <3>2, <3>3
      <4>3. /\ setups' \in [Setups -> Setup] /\ setups'[s].status = status
            /\ setups'[s].recover = setups[s].recover
        BY <1>0, <4>1, SetupGoes
      <4>4. SetupHolds(s)'
        BY <1>0, <2>1, <2>2, <4>1, <4>3 DEF SetupHolds, At, CustomConfig
      <4> QED BY <1>0, <4>1, <4>3, <4>4
    <3> QED BY <3>1, <3>3
  <2> HIDE DEF SetupsSound
  <2> QED BY <1>0, <2>1, <2>2, <2>3, SetupStays
<1> QED BY <1>1, <1>2, <1>3

\* A setup without an answer is reconciled with what the provider lists.
LEMMA ReconcileStep ==
  ASSUME ConfigInv, NEW s \in Setups,
         ReconcileLists(s)
           \/ \E told \in {"still_unknown", "configured", "absent"} : ReconcileSetup(s, told)
  PROVE  ConfigInv'
<1>0. /\ setups \in [Setups -> Setup] /\ SetupHolds(s) /\ SetupsSound
      /\ reconciled \in [Setups -> SUBSET {"still_unknown", "configured", "absent"}]
      /\ configCalls \in [Enablements \cup Setups -> CallPhases]
  BY DEF ConfigInv, SetupsSound, RowsSound
<1>1. CASE ReconcileLists(s)
  <2>1. PICK told \in {"still_unknown", IF s \in custom THEN "configured" ELSE "absent"} :
          reconciled' = [reconciled EXCEPT ![s] = @ \cup {told}]
    BY <1>1 DEF ReconcileLists
  <2>2. /\ s \in Reserved /\ setups[s].recover = 0
        /\ UNCHANGED <<setups, configs, enablements, managed, custom, sent, configCalls>>
    BY <1>1 DEF ReconcileLists, Reconcilable, RecoverDue, configRows, providerVars
  <2>3. configCalls[s] = "none" /\ s \notin sent
    BY <1>0, <2>2 DEF SetupHolds
  <2>4. /\ told \in {"still_unknown", "configured", "absent"}
        /\ told = "configured" => s \in custom
        /\ told = "absent" => s \notin custom
    BY <2>1
  <2>5. /\ reconciled' \in [Setups -> SUBSET {"still_unknown", "configured", "absent"}]
        /\ reconciled'[s] = reconciled[s] \cup {told}
        /\ \A x \in Setups \ {s} : reconciled'[x] = reconciled[x]
    BY <1>0, <2>1, <2>4
  <2>6. setups[s].status \in {"submitting", "outcome_unknown"}
    BY <2>2 DEF Reserved
  <2>7. SetupHolds(s)'
    BY <1>0, <2>2, <2>3, <2>4, <2>5, <2>6 DEF SetupHolds, CustomConfig
  <2> HIDE DEF SetupsSound
  <2> QED BY <1>0, <2>2, <2>5, <2>7, SetupStays
<1>2. ASSUME NEW told \in {"still_unknown", "configured", "absent"}, ReconcileSetup(s, told)
      PROVE  ConfigInv'
  <2>1. /\ told \in reconciled[s] /\ reconciled' = [reconciled EXCEPT ![s] = @ \ {told}]
        /\ UNCHANGED <<enablements, managed, custom, sent, configCalls>>
    BY <1>2 DEF ReconcileSetup, providerVars
  <2>2. /\ reconciled' \in [Setups -> SUBSET {"still_unknown", "configured", "absent"}]
        /\ reconciled'[s] = reconciled[s] \ {told}
        /\ \A x \in Setups \ {s} : reconciled'[x] = reconciled[x]
    BY <1>0, <2>1
  <2>3. configCalls[s] = "none" /\ s \notin sent
    BY <1>0, <2>1 DEF SetupHolds
  <2>4. CASE told = "configured"
    <3>1. s \in custom /\ SetupCompleted(s)
      BY <1>0, <1>2, <2>1, <2>4 DEF SetupHolds, ReconcileSetup
    <3>2. configCalls' \in [Enablements \cup Setups -> CallPhases] /\ configCalls'[s] = "none"
      BY <1>0, <2>1, <2>3
    <3> QED BY <2>1, <2>2, <3>1, <3>2, SetupCompletes
  <2>5. CASE told # "configured"
    <3>1. UNCHANGED configs
      BY <1>2, <2>5 DEF ReconcileSetup
    <3>2. /\ setups' \in [Setups -> Setup] /\ \A x \in Setups \ {s} : setups'[x] = setups[x]
          /\ SetupHolds(s)'
      <4>1. CASE ~Reconcilable(s)
        <5>1. setups' = setups
          BY <1>2, <2>5, <4>1 DEF ReconcileSetup
        <5>2. SetupHolds(s)'
          BY <1>0, <2>1, <2>2, <3>1, <5>1 DEF SetupHolds, CustomConfig
        <5> QED BY <1>0, <5>1, <5>2
      <4>2. CASE Reconcilable(s) /\ told = "absent"
        <5>1. setups' = [setups EXCEPT ![s].status = "rejected"]
          BY <1>2, <4>2 DEF ReconcileSetup
        <5>3. setups' \in [Setups -> Setup] /\ setups'[s].status = "rejected"
          BY <1>0, <5>1, SetupGoes
        <5>4. SetupHolds(s)'
          BY <1>0, <2>1, <2>2, <2>3, <3>1, <4>2, <5>3 DEF SetupHolds
        <5> QED BY <1>0, <5>1, <5>3, <5>4
      <4>3. CASE Reconcilable(s) /\ told = "still_unknown"
        <5>1. setups' = [setups EXCEPT ![s].status = "outcome_unknown", ![s].recover = SetupRecovery]
          BY <1>2, <4>3 DEF ReconcileSetup
        <5>2. SetupRecovery \in 0..SetupRecovery
          BY ProviderConfigsAssumption
        <5>3. setups' \in [Setups -> Setup] /\ setups'[s].status = "outcome_unknown"
          BY <1>0, <5>1, <5>2, SetupTimed
        <5>4. SetupHolds(s)'
          BY <1>0, <2>1, <2>2, <2>3, <3>1, <4>3, <5>3 DEF SetupHolds
        <5> QED BY <1>0, <5>1, <5>3, <5>4
      <4> QED BY <2>5, <4>1, <4>2, <4>3
    <3> HIDE DEF SetupsSound
    <3> QED BY <1>0, <2>1, <2>2, <3>1, <3>2, SetupStays
  <2> QED BY <2>4, <2>5
<1> QED BY <1>1, <1>2


\* A call at an enablement goes to another phase.
LEMMA CallAtEnablement ==
  ASSUME ConfigInv, NEW e \in Enablements, NEW phase \in CallPhases, GoesTo(e, phase)
  PROVE  /\ configCalls' \in [Enablements \cup Setups -> CallPhases] /\ configCalls'[e] = phase
         /\ \A x \in (Enablements \cup Setups) \ {e} : configCalls'[x] = configCalls[x]
BY DEF ConfigInv, RowsSound, GoesTo, CallPhases

\* Nothing but an enablement changes.
LEMMA EnablementStays ==
  ASSUME ConfigInv, UNCHANGED <<configs, setups, managed, custom, reconciled>>,
         sent' \subseteq Enablements \cup Setups,
         configCalls' \in [Enablements \cup Setups -> CallPhases],
         \A s \in Setups : configCalls'[s] = configCalls[s] /\ (s \in sent' <=> s \in sent)
  PROVE  RowsSound' /\ SetupsSound'
<1>1. RowsSound'
  BY RowsKept DEF ConfigInv, RowsSound
<1> QED BY <1>1, SetupsKept DEF ConfigInv

\* A place is reserved for an enablement, when no other is pending.
LEMMA ReserveStep ==
  ASSUME ConfigInv, NEW e \in Enablements, ReserveEnablement(e)
  PROVE  ConfigInv'
<1> DEFINE new == [status |-> "pending", recover |-> EnableRecovery, config |-> {}]
<1>1. new \in Enablement /\ new.status = "pending" /\ new.recover > 0 /\ new.config = {}
  BY ProviderConfigsAssumption DEF Enablement
<1>2. /\ At(e, "none") /\ Enablable(e) /\ GoesTo(e, "listing")
      /\ enablements' = [Expired EXCEPT ![e] = new]
      /\ UNCHANGED <<configs, setups, managed, custom, sent, reconciled>>
  BY DEF ReserveEnablement, providerVars
<1> HIDE DEF new
<1>3. /\ configCalls' \in [Enablements \cup Setups -> CallPhases] /\ configCalls'[e] = "listing"
      /\ \A x \in (Enablements \cup Setups) \ {e} : configCalls'[x] = configCalls[x]
  BY <1>2, CallAtEnablement DEF CallPhases
<1>4. RowsSound' /\ SetupsSound'
  BY <1>2, <1>3, EnablementStays, ProviderConfigsAssumption DEF ConfigInv, RowsSound
<1>5. /\ Expired \in [Enablements -> Enablement]
      /\ \A x \in Enablements :
           /\ Expired[x].recover = enablements[x].recover /\ Expired[x].config = enablements[x].config
           /\ Expired[x].status \in {enablements[x].status, "abandoned"}
           /\ Busy(x) => Expired[x].status = "pending"
  BY ExpiredSound DEF ConfigInv
<1>6. \A x \in Enablements : Expired[x].status # "pending"
  BY <1>2 DEF Enablable
<1>7. /\ enablements' \in [Enablements -> Enablement] /\ enablements'[e] = new
      /\ \A x \in Enablements \ {e} : enablements'[x] = Expired[x]
  BY <1>1, <1>2, <1>5
<1>8. \A x \in Enablements : configCalls[x] = "none" /\ x \notin sent
  BY <1>5, <1>6 DEF Busy, At
<1>9. ASSUME NEW x \in Enablements
      PROVE  EnablementHolds(x)'
  <2>1. EnablementHolds(x)
    BY DEF ConfigInv, EnablementsSound
  <2>2. CASE x = e
    BY <1>1, <1>2, <1>3, <1>7, <1>8, <2>2 DEF EnablementHolds
  <2>3. CASE x # e
    <3>1. /\ configCalls'[x] = "none" /\ x \notin sent'
      BY <1>2, <1>3, <1>8, <2>3
    <3>2. enablements'[x].status \in {enablements[x].status, "abandoned"}
          /\ enablements'[x].config = enablements[x].config
      BY <1>5, <1>7, <2>3
    <3> QED BY <1>2, <2>1, <3>1, <3>2 DEF EnablementHolds
  <2> QED BY <2>2, <2>3
<1>10. \A x, f \in Enablements :
         enablements'[x].status = "pending" /\ enablements'[f].status = "pending" => x = f
  BY <1>6, <1>7
<1>11. EnablementsSound'
  BY <1>7, <1>9, <1>10 DEF EnablementsSound, Enablement, Configs, ManagedConfig, CustomConfig
<1> QED BY <1>4, <1>11 DEF ConfigInv

\* The enablement that is pending looks for a configuration, and asks for one.
LEMMA ListStep ==
  ASSUME ConfigInv, NEW e \in Enablements, ListManaged(e) \/ ManagedMade(e)
  PROVE  ConfigInv'
<1>0. /\ EnablementHolds(e) /\ enablements \in [Enablements -> Enablement]
      /\ \A x \in Enablements : EnablementHolds(x)
      /\ \A x, f \in Enablements :
           enablements[x].status = "pending" /\ enablements[f].status = "pending" => x = f
      /\ sent \subseteq Enablements \cup Setups /\ managed \in Nat /\ managed <= 1
  BY ProviderConfigsAssumption DEF ConfigInv, EnablementsSound, RowsSound
<1>1. /\ configCalls[e] # "none"
      /\ UNCHANGED <<configs, enablements, setups, managed, custom, reconciled>>
  BY DEF ListManaged, ManagedMade, At, configRows, providerVars
<1>2. PICK phase \in {"made", "asking"} :
        /\ GoesTo(e, phase)
        /\ phase = "made" => managed > 0 /\ sent' = sent
        /\ phase = "asking" => managed = 0 /\ sent' = sent \cup {e}
  BY <1>0 DEF ListManaged, ManagedMade, providerVars
<1>3. /\ configCalls' \in [Enablements \cup Setups -> CallPhases] /\ configCalls'[e] = phase
      /\ \A x \in (Enablements \cup Setups) \ {e} : configCalls'[x] = configCalls[x]
  BY <1>2, CallAtEnablement DEF CallPhases
<1>4. sent' \subseteq Enablements \cup Setups /\ \A x \in (Enablements \cup Setups) \ {e} : x \in sent' <=> x \in sent
  BY <1>0, <1>2
<1>5. RowsSound' /\ SetupsSound'
  BY <1>1, <1>3, <1>4, EnablementStays, ProviderConfigsAssumption
<1>6. ASSUME NEW x \in Enablements
      PROVE  EnablementHolds(x)'
  <2>1. EnablementHolds(x)
    BY <1>0
  <2>2. CASE x = e
    BY <1>0, <1>1, <1>2, <1>3, <2>2 DEF EnablementHolds
  <2>3. CASE x # e
    <3>1. configCalls'[x] = configCalls[x] /\ (x \in sent' <=> x \in sent)
      BY <1>3, <1>4, <2>3
    <3> QED BY <1>1, <2>1, <3>1 DEF EnablementHolds
  <2> QED BY <2>2, <2>3
<1>7. EnablementsSound'
  BY <1>0, <1>1, <1>6 DEF EnablementsSound, Enablement, Configs, ManagedConfig, CustomConfig
<1> QED BY <1>5, <1>7 DEF ConfigInv

\* The enablement is completed with the configuration there is, or its reservation was
\* given up; those that are overdue are given up too.
LEMMA CompleteStep ==
  ASSUME ConfigInv, NEW e \in Enablements, CompleteEnablement(e)
  PROVE  ConfigInv'
<1>0. /\ EnablementHolds(e) /\ EnablementsSound
      /\ \A x \in Enablements : EnablementHolds(x)
      /\ \A x, f \in Enablements :
           enablements[x].status = "pending" /\ enablements[f].status = "pending" => x = f
  BY DEF ConfigInv, EnablementsSound
<1>1. /\ configCalls[e] = "made" /\ GoesTo(e, "none")
      /\ UNCHANGED <<setups, managed, custom, sent, reconciled>>
  BY DEF CompleteEnablement, At, providerVars
<1>2. /\ configCalls' \in [Enablements \cup Setups -> CallPhases] /\ configCalls'[e] = "none"
      /\ \A x \in (Enablements \cup Setups) \ {e} : configCalls'[x] = configCalls[x]
  BY <1>1, CallAtEnablement DEF CallPhases
<1>3. managed = 1 /\ e \notin sent
  BY <1>0, <1>1 DEF EnablementHolds
<1>4. CASE ~(Expired[e].status = "pending" /\ Recordable(ManagedConfig(1)))
  <2>1. enablements' = Expired /\ UNCHANGED configs
    BY <1>4 DEF CompleteEnablement
  <2>2. EnablementsSound'
    <3>1. \A x \in Enablements : configCalls'[x] = configCalls[x] \/ configCalls'[x] = "none"
      BY <1>2
    <3> QED BY <1>0, <1>1, <2>1, <3>1, ExpiredKept
  <2>3. RowsSound' /\ SetupsSound'
    BY <1>1, <1>2, <2>1, EnablementStays, ProviderConfigsAssumption DEF ConfigInv, RowsSound
  <2> QED BY <2>2, <2>3 DEF ConfigInv
<1>5. CASE Expired[e].status = "pending" /\ Recordable(ManagedConfig(1))
  <2>1. /\ enablements' = [Expired EXCEPT ![e].status = "completed", ![e].config = {ManagedConfig(1)}]
        /\ configs' = configs \cup {ManagedConfig(1)}
    BY <1>5 DEF CompleteEnablement
  <2>2. /\ Expired \in [Enablements -> Enablement]
        /\ \A x \in Enablements :
             /\ Expired[x].recover = enablements[x].recover /\ Expired[x].config = enablements[x].config
             /\ Expired[x].status \in {enablements[x].status, "abandoned"}
             /\ Busy(x) => Expired[x].status = "pending"
    BY <1>0, ExpiredSound
  <2> DEFINE row == [Expired[e] EXCEPT !.status = "completed", !.config = {ManagedConfig(1)}]
  <2>3. row \in Enablement /\ row.status = "completed" /\ row.config = {ManagedConfig(1)}
    <3>1. 1 \in 1..MaxManaged
      BY <1>3, ProviderConfigsAssumption DEF ConfigInv, RowsSound
    <3>2. {ManagedConfig(1)} \in {{c} : c \in Configs}
      BY <3>1 DEF Configs
    <3> DEFINE c1 == {ManagedConfig(1)}
               f == Expired[e]
               Shown == {{}} \cup {{c} : c \in Configs}
    <3>3. c1 \in Shown
      BY <3>2
    <3>4. row = [f EXCEPT !.status = "completed", !.config = c1]
      OBVIOUS
    <3>6. f \in [status : {"none", "pending", "completed", "abandoned"}, recover : 0..EnableRecovery,
               config : Shown]
      BY <2>2 DEF Enablement
    <3> HIDE DEF c1, Shown, f
    <3>7. [f EXCEPT !.status = "completed", !.config = c1] \in
            [status : {"none", "pending", "completed", "abandoned"}, recover : 0..EnableRecovery,
               config : Shown]
      BY <3>3, <3>6
    <3>8. /\ [f EXCEPT !.status = "completed", !.config = c1].status = "completed"
          /\ [f EXCEPT !.status = "completed", !.config = c1].config = c1
      BY <3>6
    <3> HIDE DEF row
    <3>9. row \in [status : {"none", "pending", "completed", "abandoned"}, recover : 0..EnableRecovery,
                 config : Shown]
      BY <3>4, <3>7
    <3>5. row \in Enablement /\ row.status = "completed" /\ row.config = c1
      BY <3>4, <3>8, <3>9 DEF Enablement, Shown
    <3> QED BY <3>5 DEF c1
  <2>4. enablements' = [Expired EXCEPT ![e] = row]
    BY <2>1
  <2> HIDE DEF row
  <2>5. /\ enablements' \in [Enablements -> Enablement] /\ enablements'[e] = row
        /\ \A x \in Enablements \ {e} : enablements'[x] = Expired[x]
    BY <2>2, <2>3, <2>4
  <2>6. Busy(e) /\ enablements[e].status = "pending"
    BY <1>0, <1>1 DEF Busy, At, EnablementHolds
  <2>7. ASSUME NEW x \in Enablements
        PROVE  EnablementHolds(x)'
    <3>1. CASE x = e
      BY <1>1, <1>2, <1>3, <2>1, <2>3, <2>5, <3>1 DEF EnablementHolds
    <3>2. CASE x # e
      <4>1. configCalls'[x] = "none" /\ x \notin sent'
        BY <1>0, <1>1, <1>2, <2>6, <3>2 DEF EnablementHolds
      <4>2. /\ enablements'[x].status \in {enablements[x].status, "abandoned"}
            /\ enablements'[x].config = enablements[x].config
        BY <2>2, <2>5, <3>2
      <4>3. enablements[x].status = "completed" => enablements[x].config \subseteq configs
        BY <1>0 DEF EnablementHolds
      <4> QED BY <2>1, <4>1, <4>2, <4>3 DEF EnablementHolds
    <3> QED BY <3>1, <3>2
  <2>8. \A x, f \in Enablements :
          enablements'[x].status = "pending" /\ enablements'[f].status = "pending" => x = f
    BY <1>0, <2>2, <2>3, <2>5
  <2>9. EnablementsSound'
    BY <2>5, <2>7, <2>8 DEF EnablementsSound, Enablement, Configs, ManagedConfig, CustomConfig
  <2>10. RowsSound'
    <3>1. \E n \in 1..managed : ManagedConfig(1) = ManagedConfig(n)
      BY <1>3
    <3> QED BY <1>1, <1>2, <1>5, <2>1, <3>1, RowRecords DEF ConfigInv
  <2>11. SetupsSound'
    BY <1>1, <1>2, <2>1, SetupsKept, ProviderConfigsAssumption DEF ConfigInv
  <2> QED BY <2>9, <2>10, <2>11 DEF ConfigInv
<1> QED BY <1>4, <1>5

\* Reservations expire, and what is found at the provider is recorded.
LEMMA FoundStep ==
  ASSUME ConfigInv, ExpireEnablements \/ \E n \in 1..MaxManaged : RecordConfig(n)
  PROVE  ConfigInv'
<1>1. CASE ExpireEnablements
  <2>1. enablements' = Expired
        /\ UNCHANGED <<configs, setups, managed, custom, sent, configCalls, reconciled>>
    BY <1>1 DEF ExpireEnablements, providerVars
  <2>2. EnablementsSound'
    BY <2>1, ExpiredKept DEF ConfigInv
  <2>3. RowsSound' /\ SetupsSound'
    BY <2>1, EnablementStays DEF ConfigInv, RowsSound
  <2> QED BY <2>2, <2>3 DEF ConfigInv
<1>2. ASSUME NEW n \in 1..MaxManaged, RecordConfig(n)
      PROVE  ConfigInv'
  <2>1. /\ n \in 1..managed /\ Recordable(ManagedConfig(n)) /\ configs' = configs \cup {ManagedConfig(n)}
        /\ UNCHANGED <<enablements, setups, managed, custom, sent, configCalls, reconciled>>
    BY <1>2 DEF RecordConfig, providerVars
  <2>2. RowsSound'
    <3>1. \E m \in 1..managed : ManagedConfig(n) = ManagedConfig(m)
      BY <2>1
    <3>2. configCalls' \in [Enablements \cup Setups -> CallPhases]
      BY <2>1 DEF ConfigInv, RowsSound
    <3> QED BY <2>1, <3>1, <3>2, RowRecords DEF ConfigInv
  <2>3. EnablementsSound'
    BY <2>1, EnablementsKept DEF ConfigInv
  <2>4. SetupsSound'
    BY <2>1, SetupsKept DEF ConfigInv
  <2> QED BY <2>2, <2>3, <2>4 DEF ConfigInv
<1> QED BY <1>1, <1>2


\* The provider makes what it was asked for, or drops it.
LEMMA ProviderStep ==
  ASSUME ConfigInv, NEW x \in Enablements \cup Setups, ProviderMakes(x)
  PROVE  ConfigInv'
<1>0. /\ sent \subseteq Enablements \cup Setups /\ custom \subseteq Setups
      /\ managed \in 0..MaxManaged /\ managed <= 1
      /\ configCalls \in [Enablements \cup Setups -> CallPhases]
      /\ enablements \in [Enablements -> Enablement] /\ setups \in [Setups -> Setup]
      /\ \A e \in Enablements : EnablementHolds(e)
      /\ \A e, f \in Enablements :
           enablements[e].status = "pending" /\ enablements[f].status = "pending" => e = f
  BY DEF ConfigInv, RowsSound, EnablementsSound, SetupsSound
<1>1. /\ x \in sent /\ sent' = sent \ {x}
      /\ UNCHANGED <<configs, enablements, setups, configCalls, reconciled>>
  BY DEF ProviderMakes, configRows
<1>2. CASE UNCHANGED <<managed, custom>>
  <2>1. RowsSound'
    BY <1>0, <1>1, <1>2, RowsKept DEF ConfigInv
  <2>2. ASSUME NEW e \in Enablements
        PROVE  EnablementHolds(e)'
    <3>1. EnablementHolds(e)
      BY <1>0
    <3> QED BY <1>1, <1>2, <3>1 DEF EnablementHolds
  <2>3. EnablementsSound'
    BY <1>0, <1>1, <2>2 DEF EnablementsSound, Enablement, Configs, ManagedConfig, CustomConfig
  <2>4. ASSUME NEW s \in Setups
        PROVE  SetupHolds(s)'
    <3>1. SetupHolds(s)
      BY DEF ConfigInv, SetupsSound
    <3> QED BY <1>1, <1>2, <3>1 DEF SetupHolds, CustomConfig
  <2>5. SetupsSound'
    BY <1>1, <2>4 DEF ConfigInv, SetupsSound, Setup
  <2> QED BY <2>1, <2>3, <2>5 DEF ConfigInv
<1>3. CASE x \in Setups /\ custom' = custom \cup {x} /\ UNCHANGED managed
  <2>1. RowsSound'
    BY <1>0, <1>1, <1>3, RowsKept DEF ConfigInv
  <2>2. EnablementsSound'
    BY <1>1, <1>3, EnablementsKept, ProviderConfigsAssumption DEF ConfigInv
  <2>3. SetupHolds(x)'
    <3>1. SetupHolds(x)
      BY <1>3 DEF ConfigInv, SetupsSound
    <3> QED BY <1>1, <1>3, <3>1 DEF SetupHolds, CustomConfig
  <2>4. SetupsSound'
    BY <1>0, <1>1, <1>3, <2>3, SetupMoves DEF ConfigInv, SetupsSound
  <2> QED BY <2>1, <2>2, <2>4 DEF ConfigInv
<1>4. CASE x \in Enablements /\ managed < MaxManaged /\ managed' = managed + 1 /\ UNCHANGED custom
  <2>1. managed = 0 /\ enablements[x].status = "pending"
    BY <1>0, <1>1, <1>4 DEF EnablementHolds
  <2>2. managed' = 1 /\ managed' \in 0..MaxManaged
    BY <1>0, <1>4, <2>1, ProviderConfigsAssumption
  <2>3. RowsSound'
    BY <1>0, <1>1, <1>4, <2>1, <2>2, RowsKept DEF ConfigInv
  <2>4. ASSUME NEW e \in Enablements
        PROVE  EnablementHolds(e)'
    <3>1. EnablementHolds(e)
      BY <1>0
    <3>2. e \notin sent'
      BY <1>0, <1>1, <1>4, <2>1, <3>1 DEF EnablementHolds
    <3> QED BY <1>1, <2>2, <3>1, <3>2 DEF EnablementHolds
  <2>5. EnablementsSound'
    BY <1>0, <1>1, <2>4 DEF EnablementsSound, Enablement, Configs, ManagedConfig, CustomConfig
  <2>6. SetupsSound'
    BY <1>1, <1>4, SetupsKept, ProviderConfigsAssumption DEF ConfigInv
  <2> QED BY <2>3, <2>5, <2>6 DEF ConfigInv
<1> QED BY <1>2, <1>3, <1>4 DEF ProviderMakes

\* A call ends, whatever it was about to do.
LEMMA ConfigCallEndsStep ==
  ASSUME ConfigInv, NEW x \in Enablements \cup Setups, ConfigCallEnds(x)
  PROVE  ConfigInv'
<1>1. /\ GoesTo(x, "none")
      /\ UNCHANGED <<configs, enablements, setups, managed, custom, sent, reconciled>>
  BY DEF ConfigCallEnds, configRows, providerVars
<1>2. /\ configCalls' \in [Enablements \cup Setups -> CallPhases] /\ configCalls'[x] = "none"
      /\ \A y \in (Enablements \cup Setups) \ {x} : configCalls'[y] = configCalls[y]
  BY <1>1, CallAtEnablement, CallAtSetup DEF CallPhases
<1>3. RowsSound'
  BY <1>1, <1>2, RowsKept DEF ConfigInv, RowsSound
<1>4. ASSUME NEW e \in Enablements
      PROVE  EnablementHolds(e)'
  <2>1. EnablementHolds(e)
    BY DEF ConfigInv, EnablementsSound
  <2>2. configCalls'[e] = configCalls[e] \/ configCalls'[e] = "none"
    BY <1>2
  <2> QED BY <1>1, <2>1, <2>2 DEF EnablementHolds
<1>5. EnablementsSound'
  BY <1>1, <1>4 DEF ConfigInv, EnablementsSound, Enablement, Configs, ManagedConfig, CustomConfig
<1>6. ASSUME NEW s \in Setups
      PROVE  SetupHolds(s)'
  <2>1. SetupHolds(s)
    BY DEF ConfigInv, SetupsSound
  <2>2. configCalls'[s] = configCalls[s] \/ configCalls'[s] = "none"
    BY <1>2
  <2> QED BY <1>1, <2>1, <2>2 DEF SetupHolds, CustomConfig
<1>7. SetupsSound'
  BY <1>1, <1>6 DEF ConfigInv, SetupsSound, Setup
<1> QED BY <1>3, <1>5, <1>7 DEF ConfigInv

\* Time passes while what was asked is not overdue.
LEMMA ConfigTickStep ==
  ASSUME ConfigInv, ConfigTick
  PROVE  ConfigInv'
<1>0. /\ enablements \in [Enablements -> Enablement] /\ setups \in [Setups -> Setup]
      /\ \A e \in Enablements : EnablementHolds(e)
      /\ \A s \in Setups : SetupHolds(s)
  BY DEF ConfigInv, EnablementsSound, SetupsSound
<1>1. UNCHANGED <<configs, managed, custom, sent, configCalls, reconciled>>
  BY DEF ConfigTick, providerVars
<1>2. ASSUME NEW e \in Enablements
      PROVE  /\ enablements'[e] \in Enablement /\ enablements'[e].status = enablements[e].status
             /\ enablements'[e].config = enablements[e].config
             /\ Busy(e) => enablements'[e].recover > 0
  <2> DEFINE old == enablements[e]
  <2>1. old \in Enablement /\ (Busy(e) => old.recover > 1)
    BY <1>0 DEF ConfigTick
  <2>2. enablements'[e] = [old EXCEPT !.recover = Down(old.recover)]
    BY DEF ConfigTick
  <2>3. old.recover \in 0..EnableRecovery
    BY <2>1 DEF Enablement
  <2> HIDE DEF old
  <2>4. Down(old.recover) \in 0..EnableRecovery /\ (Busy(e) => Down(old.recover) > 0)
    BY <2>1, <2>3, ProviderConfigsAssumption DEF Down
  <2> DEFINE d == Down(old.recover)
  <2>5. d \in 0..EnableRecovery /\ (Busy(e) => d > 0)
    BY <2>4
  <2>6. enablements'[e] = [old EXCEPT !.recover = d]
    BY <2>2
  <2> HIDE DEF d
  <2>7. /\ [old EXCEPT !.recover = d] \in Enablement /\ [old EXCEPT !.recover = d].recover = d
        /\ [old EXCEPT !.recover = d].status = old.status /\ [old EXCEPT !.recover = d].config = old.config
    BY <2>1, <2>5 DEF Enablement
  <2> QED BY <2>5, <2>6, <2>7 DEF old
<1>3. enablements' \in [Enablements -> Enablement]
  BY <1>2 DEF ConfigTick
<1>4. ASSUME NEW s \in Setups
      PROVE  /\ setups'[s] \in Setup /\ setups'[s].status = setups[s].status
             /\ Busy(s) => setups'[s].recover > 0
  <2> DEFINE old == setups[s]
             d == Down(old.recover)
             l == IF old.left > -(2 * SetupRecovery) THEN old.left - 1 ELSE old.left
  <2>1. old \in Setup /\ (Busy(s) => old.recover > 1)
    BY <1>0 DEF ConfigTick
  <2>2. setups'[s] = [old EXCEPT !.recover = d, !.left = l]
    BY DEF ConfigTick
  <2>3. old.recover \in 0..SetupRecovery /\ old.left \in -(2 * SetupRecovery)..SetupLifetime
    BY <2>1 DEF Setup
  <2> HIDE DEF old
  <2>4. d \in 0..SetupRecovery /\ (Busy(s) => d > 0)
    BY <2>1, <2>3, ProviderConfigsAssumption DEF Down
  <2>5. l \in -(2 * SetupRecovery)..SetupLifetime
    BY <2>3, ProviderConfigsAssumption
  <2> HIDE DEF d, l
  <2>6. /\ [old EXCEPT !.recover = d, !.left = l] \in Setup
        /\ [old EXCEPT !.recover = d, !.left = l].recover = d
        /\ [old EXCEPT !.recover = d, !.left = l].status = old.status
    BY <2>1, <2>4, <2>5 DEF Setup
  <2> QED BY <2>2, <2>4, <2>6 DEF old
<1>5. setups' \in [Setups -> Setup]
  BY <1>4 DEF ConfigTick
<1>6. RowsSound'
  BY <1>1, RowsKept DEF ConfigInv, RowsSound
<1>7. ASSUME NEW e \in Enablements
      PROVE  EnablementHolds(e)'
  BY <1>0, <1>1, <1>2 DEF EnablementHolds, Busy, At
<1>8. EnablementsSound'
  <2>1. \A e, f \in Enablements :
          enablements[e].status = "pending" /\ enablements[f].status = "pending" => e = f
    BY DEF ConfigInv, EnablementsSound
  <2>2. \A e, f \in Enablements :
          enablements'[e].status = "pending" /\ enablements'[f].status = "pending" => e = f
    BY <1>2, <2>1
  <2> QED BY <1>3, <1>7, <2>2 DEF EnablementsSound, Enablement, Configs, ManagedConfig, CustomConfig
<1>9. ASSUME NEW s \in Setups
      PROVE  SetupHolds(s)'
  BY <1>0, <1>1, <1>4 DEF SetupHolds, Busy, At, CustomConfig
<1>10. SetupsSound'
  BY <1>1, <1>5, <1>9 DEF SetupsSound, ConfigInv, Setup
<1> QED BY <1>6, <1>8, <1>10 DEF ConfigInv

\* Nothing was asked of the provider yet.
LEMMA ConfigInitially ==
  ASSUME ProviderConfigsInit
  PROVE  ConfigInv
<1>1. RowsSound
  <2>1. configs = {} /\ managed = 0 /\ custom = {} /\ sent = {}
        /\ configCalls = [x \in Enablements \cup Setups |-> "none"]
    BY DEF ProviderConfigsInit
  <2>2. IsFiniteSet(configs) /\ Cardinality(configs) = 0
    BY <2>1, FS_EmptySet
  <2> QED BY <2>1, <2>2, ProviderConfigsAssumption DEF RowsSound, CallPhases
<1>2. EnablementsSound
  BY ProviderConfigsAssumption DEF ProviderConfigsInit, EnablementsSound, EnablementHolds, Enablement
<1>3. SetupsSound
  BY ProviderConfigsAssumption DEF ProviderConfigsInit, SetupsSound, SetupHolds, Setup
<1> QED BY <1>1, <1>2, <1>3 DEF ConfigInv

LEMMA ConfigStepKeeps ==
  ASSUME ConfigInv, [ProviderConfigsNext]_configVars
  PROVE  ConfigInv'
<1>1. CASE EnablementNext
  <2>1. CASE ExpireEnablements \/ \E n \in 1..MaxManaged : RecordConfig(n)
    BY <2>1, FoundStep
  <2>2. ASSUME NEW e \in Enablements,
               ReserveEnablement(e) \/ ListManaged(e) \/ ManagedMade(e) \/ CompleteEnablement(e)
        PROVE  ConfigInv'
    BY <2>2, ReserveStep, ListStep, CompleteStep
  <2> QED BY <1>1, <2>1, <2>2 DEF EnablementNext
<1>2. CASE SetupNext
  <2>1. PICK s \in Setups :
          \/ PrepareSetup(s) \/ ExchangeSetup(s) \/ ReserveConfiguration(s)
          \/ \E answered \in BOOLEAN : CustomAnswered(s, answered)
          \/ CompleteSetup(s) \/ RejectSetup(s)
          \/ ReconcileLists(s)
          \/ \E told \in {"still_unknown", "configured", "absent"} : ReconcileSetup(s, told)
    BY <1>2 DEF SetupNext
  <2> QED BY <2>1, PrepareStep, ConfigureStep, AnswerStep, ReconcileStep
<1>3. ASSUME NEW x \in Enablements \cup Setups, ProviderMakes(x) \/ ConfigCallEnds(x)
      PROVE  ConfigInv'
  BY <1>3, ProviderStep, ConfigCallEndsStep
<1>4. CASE ConfigTick
  BY <1>4, ConfigTickStep
<1>5. CASE UNCHANGED configVars
  <2>1. UNCHANGED <<configs, enablements, setups, managed, custom, sent, configCalls, reconciled>>
    BY <1>5 DEF configVars, configRows, providerVars
  <2>2. RowsSound'
    BY <2>1, RowsKept DEF ConfigInv, RowsSound
  <2>3. EnablementsSound'
    BY <2>1, EnablementsKept DEF ConfigInv
  <2>4. SetupsSound'
    BY <2>1, SetupsKept DEF ConfigInv
  <2> QED BY <2>2, <2>3, <2>4 DEF ConfigInv
<1> QED BY <1>1, <1>2, <1>3, <1>4, <1>5 DEF ProviderConfigsNext

\* Whatever the owner asks for and whichever answers are lost, what is recorded and
\* what is under way agree with what the provider has made and may still make.
THEOREM ConfigInvariant == ProviderConfigsSpec => []ConfigInv
<1>1. ProviderConfigsInit => ConfigInv
  BY ConfigInitially
<1>2. ConfigInv /\ [ProviderConfigsNext]_configVars => ConfigInv'
  BY ConfigStepKeeps
<1> QED BY <1>1, <1>2, PTL DEF ProviderConfigsSpec

LEMMA ConfigsTyped ==
  ASSUME ConfigInv
  PROVE  ProviderConfigsTypeOK
<1>1. ASSUME NEW c \in configs
      PROVE  c \in Configs
  <2>1. (\E n \in 1..managed : c = ManagedConfig(n)) \/ \E s \in Setups : c = CustomConfig(s)
    BY DEF ConfigInv, RowsSound
  <2>2. 1..managed \subseteq 1..MaxManaged
    BY ProviderConfigsAssumption DEF ConfigInv, RowsSound
  <2> QED BY <2>1, <2>2 DEF Configs
<1>2. /\ managed \in 0..MaxManaged /\ custom \subseteq Setups /\ sent \subseteq Enablements \cup Setups
      /\ configCalls \in [Enablements \cup Setups -> CallPhases]
      /\ enablements \in [Enablements -> Enablement] /\ setups \in [Setups -> Setup]
  BY DEF ConfigInv, RowsSound, EnablementsSound, SetupsSound
<1> QED BY <1>1, <1>2 DEF ProviderConfigsTypeOK

\* The rows of configurations, enablements and setups are well typed, and so is what the
\* provider has and was asked for.
THEOREM ConfigsTypeCorrect == ProviderConfigsSpec => []ProviderConfigsTypeOK
<1>1. ConfigInv => ProviderConfigsTypeOK
  BY ConfigsTyped
<1> QED BY <1>1, ConfigInvariant, PTL

\* Each row stands for a configuration the provider has made, a setup that is configured
\* has its row and one that is rejected has nothing made or still to be made, the
\* provider is never asked for a second configuration of its own, and the limit holds.
THEOREM ConfigsStayTrue == ProviderConfigsSpec => []ConfigsAgreeWithProvider
<1>1. ASSUME ConfigInv
      PROVE  ConfigsAgreeWithProvider
  <2>1. ASSUME NEW c \in configs
        PROVE  c \in {ManagedConfig(n) : n \in 1..managed} \cup {CustomConfig(s) : s \in custom}
    BY <1>1 DEF ConfigInv, RowsSound
  <2>2. ASSUME NEW s \in Setups
        PROVE  /\ setups[s].status = "configured" => CustomConfig(s) \in configs
               /\ setups[s].status = "rejected" => s \notin custom \cup sent
    BY <1>1 DEF ConfigInv, SetupsSound, SetupHolds
  <2>3. ASSUME NEW e \in Enablements, enablements[e].status = "completed"
        PROVE  enablements[e].config \subseteq configs
    BY <1>1, <2>3 DEF ConfigInv, EnablementsSound, EnablementHolds
  <2>4. managed + Cardinality(sent \cap Enablements) <= 1
    <3>1. managed \in Nat /\ managed <= 1
      BY <1>1, ProviderConfigsAssumption DEF ConfigInv, RowsSound
    <3>2. CASE sent \cap Enablements = {}
      <4>1. Cardinality(sent \cap Enablements) = 0
        BY <3>2, FS_EmptySet
      <4> QED BY <3>1, <4>1
    <3>3. CASE sent \cap Enablements # {}
      <4>1. PICK e \in Enablements : e \in sent
        BY <3>3
      <4>2. managed = 0 /\ enablements[e].status = "pending"
        BY <1>1, <4>1 DEF ConfigInv, EnablementsSound, EnablementHolds
      <4>3. \A f \in Enablements : f \in sent => f = e
        BY <1>1, <4>2 DEF ConfigInv, EnablementsSound, EnablementHolds
      <4>4. sent \cap Enablements = {e}
        BY <4>1, <4>3
      <4>5. Cardinality(sent \cap Enablements) = 1
        BY <4>4, FS_Singleton
      <4> QED BY <4>2, <4>5
    <3> QED BY <3>2, <3>3
  <2>5. Cardinality(configs) <= MaxConfigs
    BY <1>1 DEF ConfigInv, RowsSound
  <2> QED BY <2>1, <2>2, <2>3, <2>4, <2>5 DEF ConfigsAgreeWithProvider
<1> QED BY <1>1, ConfigInvariant, PTL

-----------------------------------------------------------------------------
(* Installations: what processes that may die leave to each other *)

Started ==
  {"planning", "listing", "creating", "relisting", "storing", "makingBucket", "bucketMade",
   "checking", "migrating", "gating", "makingGateway", "gatewayAsked", "deploying", "deployed",
   "reconciling", "verifying"}
Placed == Started \ {"planning", "listing", "creating", "relisting"}
Stocked == Placed \ {"storing", "makingBucket", "bucketMade"}
Migrated == {"gating", "makingGateway", "gatewayAsked", "deploying", "deployed", "reconciling"}
Asked == {"deployed", "reconciling", "verifying"}
Cleaning == {"cleaning", "deleting", "confirming"}

\* There is one rehearsal of a fresh installation, and it has not begun to clean up.
Uncleaned == receipt.phase = "none" \/ Provisioning("rehearsal")

\* No upgrade has written the coordinates it began with over the metadata.
Unwritten == upgradeReceipt.phase # "completed"

\* A process by itself.
ProcessSound(c, x) ==
  /\ x \in Command
  /\ x.phase \in Started \cup {"inspecting", "recovering"} => x.package # 0
  /\ x.phase \in Placed => x.id # 0
  /\ x.phase = "recovering" => x.seen # 0 /\ x.recover
  /\ x.secret # <<>> => x.seen = 0 /\ x.phase \in Asked
  /\ x.phase \in {"deployed", "reconciling"} /\ x.seen = 0 => x.secret # <<>>
  /\ x.plan # "none" => x.limit
  /\ x.phase \in {"makingGateway", "gatewayAsked"} => x.plan # "none"
  /\ c = "up" => x.phase \notin Cleaning
  /\ c = "rehearsal" => x.seen = 0 /\ ~x.recover
  /\ c = "upgrade" =>
       /\ ~x.limit /\ x.phase \notin Cleaning
       /\ x.phase # "none" => x.recover
       /\ x.phase \in Started => x.seen # 0

\* What any process knows: ids are given once, and a database it has migrated stays so.
ProcessAt(c, x) ==
  /\ x.id <= made.database /\ x.seen <= made.version
  /\ x.phase \in Migrated /\ database.id = x.id => database.level >= x.package
  /\ Uncleaned /\ x.seen # 0 => Exists
  /\ Uncleaned /\ x.phase = "relisting" /\ x.answered => database.by = c /\ database.id # 0

\* `up' saw no Worker only where it has made none, and its options agree with the metadata.
UpAt(x) ==
  /\ x.phase \in Started \ Asked /\ x.seen = 0 => worker.by # "up"
  /\ x.phase = "reconciling" /\ x.seen = 0 /\ worker.by = "up" => worker.secret = x.secret
  /\ Uncleaned /\ x.id # 0 /\ x.id = database.id /\ database.by # "up" =>
       Exists /\ (x.phase \in Started => x.seen # 0)
  /\ x.phase # "none" /\ Unwritten => x.routed = metadata.routed
  /\ x.recover /\ x.phase \in {"inspecting", "recovering"} => ~metadata.saved
  /\ x.phase # "none" /\ (~x.recover \/ x.known) => metadata.saved
  /\ x.phase \in Started /\ ~metadata.saved => x.seen = 0
  /\ x.phase \in Stocked => metadata.saved

UpgradeAt(x) ==
  /\ x.phase # "none" => metadata.saved
  /\ x.phase # "none" /\ x.routed /\ Unwritten => metadata.routed
  /\ x.phase \in Started /\ x.seen = worker.version => x.routed = worker.routed

\* A rehearsal works on no database but its own.
RehearsalAt(x) ==
  /\ receipt.phase = "none" => x.phase = "none"
  /\ x.id # 0 /\ x.id = database.id => database.by = "rehearsal"

\* What is there, and the metadata. Until a rehearsal cleans up, no database is deleted,
\* so that of the Worker stays.
PlaceSound ==
  /\ worker.version <= made.version /\ database.id <= made.database
  /\ metadata.database <= made.database
  /\ ~Exists => worker = NoWorker
  /\ Exists => worker.package # 0 /\ worker.database # 0
  /\ metadata.routed \/ metadata.bucket => metadata.saved
  /\ Uncleaned /\ Exists => worker.database = database.id
  /\ Uncleaned /\ worker.by = "up" => database.by = "up"
  /\ Uncleaned /\ metadata.database # 0 /\ metadata.database = database.id
     /\ database.by # "up" => Exists
  /\ metadata.saved /\ worker.by = "up" /\ worker.routed /\ Unwritten => metadata.routed

ProcessHolds(c, x) ==
  /\ ProcessSound(c, x) /\ ProcessAt(c, x)
  /\ c = "up" => UpAt(x)
  /\ c = "upgrade" => UpgradeAt(x)
  /\ c = "rehearsal" => RehearsalAt(x)

CloudTypes ==
  /\ worker \in WorkerVersion /\ database \in Database
  /\ bucket \in Makers /\ gateway \in Makers
  /\ made \in [database : 0..MaxDatabase, version : 0..MaxVersion]
  /\ metadata \in Metadata /\ receipt \in Receipt /\ upgradeReceipt \in UpgradeReceipt

InstallationInv ==
  /\ CloudTypes /\ PlaceSound
  /\ command \in [Commands -> Command] /\ \A c \in Commands : ProcessHolds(c, command[c])

\* A step of one process, after which all hold what they know.
LEMMA ProcessMoves ==
  ASSUME command \in [Commands -> Command],
         NEW c \in Commands, NEW x, Becomes(c, x), CloudTypes', PlaceSound',
         ProcessHolds(c, x)', \A d \in Commands \ {c} : ProcessHolds(d, command[d])'
  PROVE  InstallationInv'
<1>1. x \in Command
  BY DEF ProcessHolds, ProcessSound
<1>2. command' = [command EXCEPT ![c] = x]
  BY DEF Becomes
<1>3. command' \in [Commands -> Command]
  BY <1>1, <1>2
<1>4. ASSUME NEW d \in Commands
      PROVE  ProcessHolds(d, command[d])'
  <2>1. CASE d = c
    <3>1. command'[d] = x
      BY <1>2, <2>1
    <3> QED BY <2>1, <3>1 DEF ProcessHolds, ProcessSound, ProcessAt, UpAt, UpgradeAt, RehearsalAt, Uncleaned, Unwritten, Exists, Provisioning
  <2>2. CASE d # c
    BY <2>2
  <2> QED BY <2>1, <2>2
<1> QED BY <1>3, <1>4 DEF InstallationInv

\* What stays as it is: the Worker, the database, the metadata.
Quiet ==
  /\ worker' = worker /\ database' = database /\ made' = made
  /\ metadata' = metadata /\ upgradeReceipt' = upgradeReceipt
  /\ receipt' \in Receipt /\ receipt'.phase = receipt.phase
  /\ bucket' \in Makers /\ gateway' \in Makers

LEMMA QuietHolds ==
  ASSUME NEW d, NEW y, Quiet, Uncleaned' => Uncleaned
  PROVE  ProcessHolds(d, y) => ProcessHolds(d, y)'
BY DEF ProcessHolds, ProcessSound, ProcessAt, UpAt, UpgradeAt, RehearsalAt, Unwritten, Exists, Quiet

\* A rehearsal that has cleaned up never provisions again.
LEMMA StaysCleaned ==
  ASSUME InstallationInv, NEW c \in Commands, NEW x, Becomes(c, x), receipt'.phase = receipt.phase,
         c = "rehearsal" /\ x.phase \notin {"none", "cleaning", "deleting", "confirming"} =>
           Provisioning(c)
  PROVE  Uncleaned' => Uncleaned
<1>1. command' = [command EXCEPT ![c] = x] /\ command \in [Commands -> Command]
  BY DEF Becomes, InstallationInv
<1>2. "rehearsal" \in Commands
  BY DEF Commands
<1>3. CASE c = "rehearsal"
  <2>1. command'[c] = x
    BY <1>1
  <2> QED BY <1>3, <2>1 DEF Uncleaned, Provisioning
<1>4. CASE c # "rehearsal"
  <2>1. command'["rehearsal"] = command["rehearsal"]
    BY <1>1, <1>2, <1>4
  <2> QED BY <2>1 DEF Uncleaned, Provisioning
<1> QED BY <1>3, <1>4

\* A step that changes no more than what its process knows.
LEMMA QuietStep ==
  ASSUME InstallationInv, NEW c \in Commands, NEW x, Becomes(c, x), Quiet, ProcessHolds(c, x),
         c = "rehearsal" /\ x.phase \notin {"none", "cleaning", "deleting", "confirming"} =>
           Provisioning(c)
  PROVE  InstallationInv'
<1>1. Uncleaned' => Uncleaned
  BY StaysCleaned DEF Quiet
<1>2. ProcessHolds(c, x)'
  BY <1>1, QuietHolds
<1>3. \A d \in Commands \ {c} : ProcessHolds(d, command[d])'
  <2>1. ASSUME NEW d \in Commands \ {c}
        PROVE  ProcessHolds(d, command[d])'
    <3>1. PICK y : y = command[d]
      OBVIOUS
    <3>2. command'[d] = y
      BY <3>1 DEF Becomes, InstallationInv
    <3>3. ProcessHolds(d, y)'
      BY <1>1, <3>1, QuietHolds DEF InstallationInv
    <3> QED BY <3>2, <3>3 DEF ProcessHolds, ProcessSound, ProcessAt, UpAt, UpgradeAt, RehearsalAt
  <2> QED BY <2>1
<1>4. CloudTypes' /\ PlaceSound'
  BY <1>1 DEF InstallationInv, CloudTypes, PlaceSound, Quiet, Exists, Unwritten
<1> QED BY <1>2, <1>3, <1>4, ProcessMoves DEF InstallationInv

-----------------------------------------------------------------------------
(* Steps of a process that change nothing but what it knows *)

LEMMA HeldRecord ==
  ASSUME InstallationInv, NEW c \in Commands
  PROVE  command[c] \in Command /\ ProcessHolds(c, command[c])
BY DEF InstallationInv

\* What a process is when it has stopped.
LEMMA StopHolds ==
  ASSUME InstallationInv, NEW c \in Commands, NEW r, r \in SUBSET Resources,
         command[c].phase # "none" \/ receipt.phase # "none"
  PROVE  ProcessHolds(c, IF c = "rehearsal" THEN [Idle EXCEPT !.phase = "cleaning", !.left = r]
                                            ELSE Idle)
<1> DEFINE x == IF c = "rehearsal" THEN [Idle EXCEPT !.phase = "cleaning", !.left = r] ELSE Idle
<1>1. Idle \in Command
  BY InstallationsAssumption DEF Idle, Command, Phases, Secrets
<1>2. x \in Command /\ x.phase \in {"none", "cleaning"} /\ (c # "rehearsal" => x.phase = "none")
  BY <1>1 DEF Idle, Command, Phases
<1>3. /\ x.id = 0 /\ x.seen = 0 /\ x.secret = <<>> /\ x.plan = "none" /\ ~x.recover /\ ~x.limit
  BY DEF Idle
<1>4. ProcessSound(c, x)
  BY <1>2, <1>3 DEF ProcessSound, Started, Placed, Cleaning
<1>5. made.database \in Nat /\ made.version \in Nat
  BY InstallationsAssumption DEF InstallationInv, CloudTypes
<1>6. ProcessAt(c, x)
  BY <1>2, <1>3, <1>5 DEF ProcessAt, Migrated
<1>7. c = "up" => UpAt(x)
  BY <1>2, <1>3 DEF UpAt, Started, Placed, Stocked
<1>8. c = "upgrade" => UpgradeAt(x)
  BY <1>2, <1>3 DEF UpgradeAt, Started
<1>9. c = "rehearsal" => RehearsalAt(x)
  BY <1>2, <1>3 DEF InstallationInv, ProcessHolds, RehearsalAt
<1> QED BY <1>4, <1>6, <1>7, <1>8, <1>9 DEF ProcessHolds

\* A process stops, or dies.
LEMMA StopKeeps ==
  ASSUME InstallationInv, NEW c \in Commands, command[c].phase # "none", Quiet,
         NEW r, r \in SUBSET Resources, StopsWith(c, r) \/ Becomes(c, Idle)
  PROVE  InstallationInv'
<1>1. CASE StopsWith(c, r)
  <2> DEFINE x == IF c = "rehearsal" THEN [Idle EXCEPT !.phase = "cleaning", !.left = r] ELSE Idle
  <2>1. Becomes(c, x)
    BY <1>1 DEF StopsWith
  <2>2. c = "rehearsal" => x.phase = "cleaning"
    BY DEF Idle
  <2>3. ProcessHolds(c, x)
    BY StopHolds
  <2> HIDE DEF x
  <2> QED BY <2>1, <2>2, <2>3, QuietStep
<1>2. CASE Becomes(c, Idle)
  <2>1. ProcessHolds(c, Idle)
    <3>1. Idle \in Command /\ Idle.phase = "none"
      BY InstallationsAssumption DEF Idle, Command, Phases, Secrets
    <3>2. /\ Idle.id = 0 /\ Idle.seen = 0 /\ Idle.secret = <<>> /\ Idle.plan = "none" /\ ~Idle.recover
          /\ ~Idle.limit
      BY DEF Idle
    <3>3. made.database \in Nat /\ made.version \in Nat
      BY InstallationsAssumption DEF InstallationInv, CloudTypes
    <3>4. ProcessSound(c, Idle)
      BY <3>1, <3>2 DEF ProcessSound, Started, Placed, Cleaning
    <3> QED BY <3>1, <3>2, <3>3, <3>4 DEF ProcessHolds, ProcessAt, UpAt, UpgradeAt, RehearsalAt, Migrated,
                                         Started, Placed, Stocked
  <2>2. Idle.phase = "none"
    BY DEF Idle
  <2> QED BY <1>2, <2>1, <2>2, QuietStep
<1> QED BY <1>1, <1>2

\* The files and the cloud are as they were.
LEMMA AllUnchanged ==
  ASSUME InstallationInv, UNCHANGED <<cloudVars, fileVars>>
  PROVE  Quiet /\ receipt.resources \in SUBSET Resources
BY DEF InstallationInv, CloudTypes, Quiet, cloudVars, fileVars, Receipt

LEMMA InspectKeeps ==
  ASSUME InstallationInv, NEW c \in Commands, Inspect(c)
  PROVE  InstallationInv'
<1>1. Quiet /\ receipt.resources \in SUBSET Resources /\ command[c].phase = "inspecting"
  BY AllUnchanged DEF Inspect, Is
<1>2. CASE (RequireFresh(c) /\ Exists) \/ (RequireExisting(c) /\ ~Exists)
  BY <1>1, <1>2, StopKeeps DEF Inspect, Stop
<1>3. CASE ~((RequireFresh(c) /\ Exists) \/ (RequireExisting(c) /\ ~Exists))
  <2> DEFINE x == command[c]
             p == IF x.recover /\ Exists THEN "recovering" ELSE "planning"
             m == IF Exists THEN Message(worker) ELSE <<>>
             y == [x EXCEPT !.phase = p, !.seen = worker.version, !.current = m]
  <2>1. Becomes(c, y)
    BY <1>1, <1>3 DEF Inspect
  <2>2. x \in Command /\ ProcessHolds(c, x)
    BY HeldRecord
  <2>3. worker \in WorkerVersion /\ made \in [database : 0..MaxDatabase, version : 0..MaxVersion]
        /\ PlaceSound
    BY DEF InstallationInv, CloudTypes
  <2>4. m \in {<<>>} \cup Messages
    BY <2>3 DEF PlaceSound, Message, Messages, Packages, DatabaseIds, WorkerVersion, Exists
  <2>5. worker.version \in 0..MaxVersion /\ worker.version <= made.version
    BY <2>3 DEF PlaceSound, WorkerVersion
  <2> HIDE DEF m
  <2>6. y \in Command
    BY <2>2, <2>4, <2>5 DEF Command, Phases
  <2>7. /\ y.phase = p /\ y.seen = worker.version /\ y.id = x.id /\ y.package = x.package
        /\ y.secret = x.secret /\ y.plan = x.plan /\ y.limit = x.limit /\ y.recover = x.recover
        /\ y.routed = x.routed /\ y.known = x.known /\ y.answered = x.answered
    BY <2>2 DEF Command
  <2> HIDE DEF y
  <2>8. ProcessSound(c, y)
    <3>1. p \in {"planning", "recovering"} /\ p \notin Cleaning /\ p \notin {"makingGateway", "gatewayAsked"} /\ p \notin Placed \cup Asked
      BY DEF Placed, Cleaning, Started, Asked
    <3>2. x.secret = <<>> /\ x.package # 0
      BY <1>1, <2>2 DEF ProcessHolds, ProcessSound, Asked
    <3>3. c = "rehearsal" => worker.version = 0 /\ ~x.recover
      BY <1>3, <2>2 DEF ProcessHolds, ProcessSound, RequireFresh, Exists
    <3>4. p = "recovering" => worker.version # 0 /\ x.recover
      BY DEF Exists
    <3>5. c = "upgrade" => worker.version # 0 /\ x.recover /\ ~x.limit
      BY <1>1, <1>3, <2>2 DEF ProcessHolds, ProcessSound, RequireExisting, Exists
    <3>6. x.plan # "none" => x.limit
      BY <2>2 DEF ProcessHolds, ProcessSound
    <3> HIDE DEF p
    <3> QED BY <2>6, <2>7, <3>1, <3>2, <3>3, <3>4, <3>5, <3>6 DEF ProcessSound, Asked
  <2>9. ProcessAt(c, y)
    <3>1. p \notin Migrated /\ p # "relisting"
      BY DEF Migrated
    <3>2. x.id <= made.database
      BY <2>2 DEF ProcessHolds, ProcessAt
    <3> HIDE DEF p
    <3> QED BY <2>5, <2>7, <3>1, <3>2 DEF ProcessAt, Exists
  <2>10. ASSUME c = "up" PROVE UpAt(y)
    <3>1. UpAt(x)
      BY <2>2, <2>10 DEF ProcessHolds
    <3>2. p \notin Stocked /\ p # "reconciling"
      BY DEF Stocked, Placed, Started
    <3>3. worker.version = 0 => worker.by = "none"
      BY <2>3 DEF PlaceSound, NoWorker, Exists
    <3>4. x.recover /\ p = "planning" => worker.version = 0
      BY DEF Exists
    <3>5. p \in Started => p = "planning"
      BY DEF Started
    <3> HIDE DEF p
    <3> QED BY <1>1, <2>7, <3>1, <3>2, <3>3, <3>4, <3>5 DEF UpAt, Exists
  <2>11. ASSUME c = "upgrade" PROVE UpgradeAt(y)
    <3>1. UpgradeAt(x) /\ x.recover
      BY <1>1, <2>2, <2>11 DEF ProcessHolds, ProcessSound
    <3>2. p = "recovering"
      BY <1>3, <2>11, <3>1 DEF RequireExisting
    <3>3. p \notin Started
      BY <3>2 DEF Started
    <3> HIDE DEF p
    <3> QED BY <1>1, <2>7, <3>1, <3>3 DEF UpgradeAt
  <2>12. ASSUME c = "rehearsal" PROVE RehearsalAt(y)
    BY <1>1, <2>2, <2>7, <2>12 DEF ProcessHolds, RehearsalAt
  <2>13. ProcessHolds(c, y)
    BY <2>8, <2>9, <2>10, <2>11, <2>12 DEF ProcessHolds
  <2> QED BY <1>1, <2>1, <2>13, QuietStep DEF Provisioning
<1> QED BY <1>2, <1>3

\* A process goes on to a phase that supposes nothing it does not know.
LEMMA PhaseKeeps ==
  ASSUME InstallationInv, NEW c \in Commands, NEW y, Becomes(c, y), Quiet,
         command[c].phase \in Started, y.phase \in Started, y \in Command,
         y.id = command[c].id, y.seen = command[c].seen, y.package = command[c].package,
         y.secret = command[c].secret, y.limit = command[c].limit, y.recover = command[c].recover,
         y.known = command[c].known, y.routed = command[c].routed \/ c = "rehearsal",
         y.plan # "none" => y.limit,
         y.phase \in {"makingGateway", "gatewayAsked"} => y.plan # "none",
         y.phase \in Placed => y.id # 0,
         command[c].phase \in Asked => y.phase \in Asked,
         y.phase = "reconciling" => command[c].phase = "reconciling",
         y.phase = "deployed" => command[c].phase = "deployed",
         y.phase \in Migrated /\ command[c].phase \notin Migrated /\ database.id = y.id =>
           database.level >= y.package,
         Uncleaned /\ y.phase = "relisting" /\ y.answered => database.by = c /\ database.id # 0,
         c = "up" /\ y.phase \in Stocked => metadata.saved
  PROVE  InstallationInv'
<1> DEFINE x == command[c]
<1>1. x \in Command /\ ProcessHolds(c, x)
  BY HeldRecord
<1>2. y.phase \notin {"none", "inspecting", "recovering"} \cup Cleaning /\ x.phase # "none"
  BY DEF Started, Cleaning
<1>3. ProcessSound(c, y)
  BY <1>1, <1>2 DEF ProcessHolds, ProcessSound
<1>4. ProcessAt(c, y)
  BY <1>1, <1>2 DEF ProcessHolds, ProcessAt
<1>5. ASSUME c = "up" PROVE UpAt(y)
  <2>1. x.phase # "none"
    BY DEF Started
  <2> QED BY <1>1, <1>2, <1>5, <2>1 DEF ProcessHolds, UpAt
<1>6. ASSUME c = "upgrade" PROVE UpgradeAt(y)
  <2>1. x.phase # "none"
    BY DEF Started
  <2> QED BY <1>1, <1>2, <1>6, <2>1 DEF ProcessHolds, UpgradeAt
<1>7. ASSUME c = "rehearsal" PROVE RehearsalAt(y)
  <2>1. x.phase # "none"
    BY DEF Started
  <2> QED BY <1>1, <1>2, <1>7, <2>1 DEF ProcessHolds, RehearsalAt
<1>8. ProcessHolds(c, y)
  BY <1>3, <1>4, <1>5, <1>6, <1>7 DEF ProcessHolds
<1>9. Provisioning(c)
  BY DEF Provisioning, Started
<1> QED BY <1>8, <1>9, QuietStep

LEMMA PlanKeeps ==
  ASSUME InstallationInv, NEW c \in Commands, PlanAiGateway(c)
  PROVE  InstallationInv'
<1>1. Quiet /\ receipt.resources \in SUBSET Resources /\ command[c].phase = "planning"
  BY AllUnchanged DEF PlanAiGateway, Is
<1>2. CASE RequireFresh(c) /\ command[c].limit /\ gateway # "none"
  BY <1>1, <1>2, StopKeeps DEF PlanAiGateway, Stop
<1>3. CASE ~(RequireFresh(c) /\ command[c].limit /\ gateway # "none")
  <2>1. PICK plan \in {"none", "create", "change", "keep"} :
          /\ (plan = "none") = ~command[c].limit
          /\ Becomes(c, [command[c] EXCEPT !.phase = "listing", !.plan = plan])
    BY <1>3 DEF PlanAiGateway
  <2> DEFINE y == [command[c] EXCEPT !.phase = "listing", !.plan = plan]
  <2>2. command[c] \in Command
    BY HeldRecord
  <2>3. /\ y \in Command /\ y.phase = "listing" /\ y.plan = plan
        /\ y.id = command[c].id /\ y.seen = command[c].seen /\ y.package = command[c].package
        /\ y.secret = command[c].secret /\ y.limit = command[c].limit /\ y.recover = command[c].recover
        /\ y.known = command[c].known /\ y.routed = command[c].routed
    BY <2>2 DEF Command, Phases
  <2>4. /\ {"planning", "listing"} \subseteq Started /\ "listing" \notin Placed \cup Asked \cup Migrated
        /\ "planning" \notin Asked /\ "listing" \notin Stocked
    BY DEF Started, Placed, Asked, Migrated, Stocked
  <2>5. command[c].limit \in BOOLEAN
    BY <2>2 DEF Command
  <2> HIDE DEF y
  <2> QED BY <1>1, <2>1, <2>3, <2>4, <2>5, PhaseKeeps DEF y
<1> QED BY <1>2, <1>3

\* The same when only the phase changes.
LEMMA GoesKeeps ==
  ASSUME InstallationInv, NEW c \in Commands, NEW p, Goes(c, p), Quiet,
         command[c].phase \in Started, p \in Started,
         p \in Placed => command[c].id # 0,
         command[c].phase \in Asked => p \in Asked,
         p \notin {"reconciling", "deployed", "relisting"},
         p \in {"makingGateway", "gatewayAsked"} => command[c].plan # "none",
         p \in Migrated /\ command[c].phase \notin Migrated /\ database.id = command[c].id =>
           database.level >= command[c].package,
         c = "up" /\ p \in Stocked => metadata.saved
  PROVE  InstallationInv'
<1> DEFINE y == [command[c] EXCEPT !.phase = p]
<1>1. command[c] \in Command /\ (command[c].plan # "none" => command[c].limit)
  BY HeldRecord DEF ProcessHolds, ProcessSound
<1>2. p \in Phases
  BY DEF Started, Phases
<1>3. /\ y \in Command /\ y.phase = p /\ y.plan = command[c].plan
      /\ y.id = command[c].id /\ y.seen = command[c].seen /\ y.package = command[c].package
      /\ y.secret = command[c].secret /\ y.limit = command[c].limit /\ y.recover = command[c].recover
      /\ y.known = command[c].known /\ y.routed = command[c].routed
  BY <1>1, <1>2 DEF Command
<1>4. Becomes(c, y)
  BY DEF Goes
<1> HIDE DEF y
<1> QED BY <1>1, <1>3, <1>4, PhaseKeeps

LEMMA ListKeeps ==
  ASSUME InstallationInv, NEW c \in Commands, ListDatabases(c)
  PROVE  InstallationInv'
<1>1. Quiet /\ receipt.resources \in SUBSET Resources /\ command[c].phase = "listing"
  BY AllUnchanged DEF ListDatabases, Is
<1>2. CASE database.id # command[c].id \/ ~ValidForReuse(database.level, command[c].package, TRUE)
  BY <1>1, <1>2, StopKeeps DEF ListDatabases, Stop
<1>3. CASE ~(database.id # command[c].id \/ ~ValidForReuse(database.level, command[c].package, TRUE))
  <2> DEFINE p == IF database.id = 0 THEN "creating" ELSE "storing"
  <2>1. Goes(c, p)
    BY <1>3 DEF ListDatabases
  <2>2. /\ "listing" \in Started \ Asked /\ p \in Started \ (Asked \cup Migrated \cup Stocked)
        /\ p \notin {"reconciling", "deployed", "relisting", "makingGateway", "gatewayAsked"}
        /\ (p \in Placed => database.id # 0)
    BY DEF Started, Placed, Asked, Migrated, Stocked
  <2> HIDE DEF p
  <2> QED BY <1>1, <1>3, <2>1, <2>2, GoesKeeps
<1> QED BY <1>2, <1>3

\* A bucket that is known is in the metadata, which is saved then.
LEMMA ReadBucketKeeps ==
  ASSUME InstallationInv, NEW c \in Commands, ReadBucket(c)
  PROVE  InstallationInv'
<1>1. Quiet /\ receipt.resources \in SUBSET Resources /\ command[c].phase = "storing"
  BY AllUnchanged DEF ReadBucket, Is
<1>2. "storing" \in Started \ (Asked \cup Migrated) /\ "storing" \in Placed
  BY DEF Started, Placed, Asked, Migrated
<1>3. command[c].id # 0
  BY <1>1, <1>2, HeldRecord DEF ProcessHolds, ProcessSound
<1>4. CASE bucket = "none"
  <2>1. Goes(c, "makingBucket") /\ "makingBucket" \in Started \ (Asked \cup Migrated \cup Stocked)
    BY <1>4 DEF ReadBucket, Started, Placed, Asked, Migrated, Stocked
  <2> QED BY <1>1, <1>2, <1>3, <2>1, GoesKeeps
<1>5. CASE bucket # "none" /\ (command[c].known \/ (~RequireFresh(c) /\ command[c].seen # 0))
  <2> DEFINE p == IF RequireExisting(c) THEN "checking" ELSE "migrating"
  <2>1. Goes(c, p)
    BY <1>5 DEF ReadBucket
  <2>2. p \in Started \ (Asked \cup Migrated) 
        /\ p \notin {"reconciling", "deployed", "relisting", "makingGateway", "gatewayAsked"}
    BY DEF Started, Asked, Migrated
  <2>3. c = "up" => metadata.saved
    BY <1>1, <1>2, <1>5, HeldRecord DEF ProcessHolds, UpAt
  <2> HIDE DEF p
  <2> QED BY <1>1, <1>2, <1>3, <2>1, <2>2, <2>3, GoesKeeps
<1>6. CASE bucket # "none" /\ ~(command[c].known \/ (~RequireFresh(c) /\ command[c].seen # 0))
  BY <1>1, <1>6, StopKeeps DEF ReadBucket, Stop
<1> QED BY <1>4, <1>5, <1>6

LEMMA CreateBucketKeeps ==
  ASSUME InstallationInv, NEW c \in Commands, CreateBucket(c)
  PROVE  InstallationInv'
<1>1. command[c].phase = "makingBucket" /\ receipt.resources \in SUBSET Resources
  BY DEF CreateBucket, Is, InstallationInv, CloudTypes, Receipt
<1>2. PICK makes, answered \in BOOLEAN :
        /\ bucket' = IF makes THEN c ELSE bucket
        /\ IF answered THEN Goes(c, "bucketMade") ELSE Stop(c)
  BY DEF CreateBucket
<1>3. Quiet
  BY <1>2 DEF CreateBucket, Quiet, fileVars, InstallationInv, CloudTypes, Makers
<1>4. "makingBucket" \in Started \ (Asked \cup Migrated) /\ "makingBucket" \in Placed
      /\ "bucketMade" \in Started \ (Asked \cup Migrated \cup Stocked)
  BY DEF Started, Placed, Asked, Migrated, Stocked
<1>5. command[c].id # 0
  BY <1>1, <1>4, HeldRecord DEF ProcessHolds, ProcessSound
<1>6. CASE answered
  BY <1>1, <1>2, <1>3, <1>4, <1>5, <1>6, GoesKeeps
<1>7. CASE ~answered
  BY <1>1, <1>2, <1>3, <1>7, StopKeeps DEF Stop
<1> QED BY <1>6, <1>7

LEMMA CheckKeeps ==
  ASSUME InstallationInv, NEW c \in Commands, CheckVersion(c)
  PROVE  InstallationInv'
<1>1. Quiet /\ receipt.resources \in SUBSET Resources /\ command[c].phase = "checking"
  BY AllUnchanged DEF CheckVersion, Is
<1>2. CASE worker.version = command[c].seen
  <2> DEFINE p == IF database.level < command[c].package THEN "migrating" ELSE "deploying"
  <2>1. Goes(c, p)
    BY <1>2 DEF CheckVersion
  <2>2. /\ "checking" \in Started \ (Asked \cup Migrated) /\ "checking" \in Stocked
        /\ "checking" \in Placed
    BY DEF Started, Placed, Stocked, Asked, Migrated
  <2>3. command[c].id # 0 /\ (c = "up" => metadata.saved)
    BY <1>1, <2>2, HeldRecord DEF ProcessHolds, ProcessSound, UpAt
  <2>4. database.level \in Nat /\ command[c].package \in Nat
    BY InstallationsAssumption, HeldRecord DEF InstallationInv, CloudTypes, Database, Command
  <2>5. /\ p \in Started \ Asked /\ p \notin {"reconciling", "deployed", "relisting", "makingGateway", "gatewayAsked"}
        /\ (p \in Migrated => database.level >= command[c].package)
    BY <2>4 DEF Started, Asked, Migrated
  <2> HIDE DEF p
  <2> QED BY <1>1, <2>1, <2>2, <2>3, <2>5, GoesKeeps
<1>3. CASE worker.version # command[c].seen
  BY <1>1, <1>3, StopKeeps DEF CheckVersion, Stop
<1> QED BY <1>2, <1>3

LEMMA FailKeeps ==
  ASSUME InstallationInv, NEW c \in Commands, Fails(c) \/ Crash(c)
  PROVE  InstallationInv'
<1>1. Quiet /\ receipt.resources \in SUBSET Resources /\ command[c].phase # "none"
  BY AllUnchanged DEF Fails, Crash, Provisioning, Is
<1> QED BY <1>1, StopKeeps DEF Fails, Crash, Stop

-----------------------------------------------------------------------------
(* Steps that record, or that change the metadata *)

\* What `up' writes to the metadata agrees with its options and with the Worker.
LEMMA PersistKeeps ==
  ASSUME InstallationInv, NEW y, Becomes("up", y),
         UNCHANGED <<worker, database, made, upgradeReceipt>>,
         receipt' \in Receipt, receipt'.phase = receipt.phase,
         bucket' \in Makers, gateway' \in Makers,
         metadata' \in Metadata, metadata'.saved,
         command["up"].phase \in Started \cup {"recovering"},
         y.phase \notin Cleaning, ProcessHolds("up", y)',
         metadata'.database <= made.database,
         Uncleaned /\ metadata'.database # 0 /\ metadata'.database = database.id
           /\ database.by # "up" => Exists,
         worker.by = "up" /\ worker.routed /\ Unwritten => metadata'.routed,
         Unwritten /\ metadata.routed => metadata'.routed
  PROVE  InstallationInv'
<1>1. "up" \in Commands /\ {"upgrade", "rehearsal"} \subseteq Commands
  BY DEF Commands
<1>2. Uncleaned' => Uncleaned
  BY <1>1, StaysCleaned
<1>3. CloudTypes'
  BY DEF InstallationInv, CloudTypes
<1>4. PlaceSound'
  BY <1>2 DEF InstallationInv, PlaceSound, Exists, Unwritten
<1>5. ASSUME NEW d \in Commands \ {"up"}
      PROVE  ProcessHolds(d, command[d])'
  <2>1. PICK x : x = command[d]
    OBVIOUS
  <2>2. command'[d] = x
    BY <2>1 DEF Becomes, InstallationInv
  <2>3. ProcessHolds(d, x)
    BY <2>1, HeldRecord
  <2>4. ProcessHolds(d, x)'
    BY <1>2, <2>3 DEF ProcessHolds, ProcessSound, ProcessAt, UpgradeAt, RehearsalAt, Unwritten, Exists
  <2> QED BY <2>2, <2>4 DEF ProcessHolds, ProcessSound, ProcessAt, UpgradeAt, RehearsalAt
<1> QED BY <1>1, <1>3, <1>4, <1>5, ProcessMoves DEF InstallationInv

LEMMA RecoverKeeps ==
  ASSUME InstallationInv, NEW c \in Commands, Recover(c)
  PROVE  InstallationInv'
<1>1. command[c].phase = "recovering" /\ receipt.resources \in SUBSET Resources
      /\ UNCHANGED <<cloudVars, receipt, upgradeReceipt>>
  BY DEF Recover, Is, InstallationInv, CloudTypes, Receipt
<1>2. CASE ~Recoverable(c)
  <2>1. Quiet /\ Stop(c)
    BY <1>1, <1>2 DEF Recover, Quiet, cloudVars, InstallationInv, CloudTypes
  <2> QED BY <1>1, <2>1, StopKeeps DEF Stop
<1>3. CASE Recoverable(c)
  <2> DEFINE x == command[c]
  <2>0. PICK y, m :
          /\ y = [x EXCEPT !.phase = "planning", !.id = database.id, !.routed = worker.routed]
          /\ m = [saved |-> TRUE, database |-> database.id, routed |-> worker.routed,
                  limit |-> FALSE, bucket |-> TRUE]
    OBVIOUS
  <2>1. Becomes(c, y) /\ Persist(c, m)
    BY <1>3, <2>0 DEF Recover
  <2>2. x \in Command /\ ProcessHolds(c, x)
    BY HeldRecord
  <2>3. /\ worker \in WorkerVersion /\ database \in Database /\ PlaceSound
        /\ made \in [database : 0..MaxDatabase, version : 0..MaxVersion]
    BY DEF InstallationInv, CloudTypes
  <2>4. m \in Metadata /\ y \in Command
    BY <2>0, <2>2, <2>3 DEF Metadata, Command, WorkerVersion, Database, Phases
  <2>5. /\ y.phase = "planning" /\ y.seen = x.seen /\ y.id = database.id /\ y.package = x.package
        /\ y.secret = x.secret /\ y.plan = x.plan /\ y.limit = x.limit /\ y.recover = x.recover
        /\ y.routed = worker.routed /\ y.known = x.known /\ y.answered = x.answered
    BY <2>0, <2>2 DEF Command
  <2>6. /\ worker.version = x.seen /\ x.seen # 0
        /\ c = "upgrade" => x.routed = worker.routed
    BY <1>1, <1>3, <2>2 DEF Recoverable, ProcessHolds, ProcessSound
  <2>7. "planning" \in Started \ (Placed \cup Asked \cup Migrated \cup Stocked \cup Cleaning)
    BY DEF Started, Placed, Asked, Migrated, Stocked, Cleaning
  <2>8. ProcessSound(c, y)
    BY <1>1, <2>2, <2>4, <2>5, <2>6, <2>7 DEF ProcessHolds, ProcessSound, Asked
  <2>9. c # "rehearsal"
    BY <2>2, <2>6 DEF ProcessHolds, ProcessSound
  <2>10. x.seen <= made.version /\ database.id <= made.database
    BY <2>2, <2>3 DEF ProcessHolds, ProcessAt, PlaceSound
  <2>11. CASE c = "upgrade"
    <3>1. Quiet
      BY <1>1, <2>1, <2>11 DEF Persist, Quiet, cloudVars, InstallationInv, CloudTypes
    <3>2. ProcessAt(c, y)
      BY <2>5, <2>6, <2>7, <2>10 DEF ProcessAt, Exists
    <3>3. UpgradeAt(y)
      BY <1>1, <2>2, <2>5, <2>6, <2>11 DEF ProcessHolds, UpgradeAt
    <3> QED BY <2>1, <2>8, <2>11, <3>1, <3>2, <3>3, QuietStep DEF ProcessHolds
  <2>12. CASE c = "up"
    <3>1. metadata' = m /\ c = "up"
      BY <2>1, <2>12 DEF Persist
    <3>2. m.saved /\ m.database = database.id /\ m.routed = worker.routed
      BY <2>0
    <3>3. Uncleaned' => Uncleaned
      BY <1>1, <2>1, <2>12, StaysCleaned
    <3>4. /\ worker' = worker /\ database' = database /\ made' = made /\ bucket' = bucket
          /\ gateway' = gateway
      BY <1>1 DEF cloudVars
    <3>5. ProcessAt(c, y)'
      BY <2>5, <2>6, <2>7, <2>10, <3>3, <3>4 DEF ProcessAt, Exists
    <3>6. UpAt(y)'
      BY <2>5, <2>6, <2>7, <3>1, <3>2, <3>4 DEF UpAt, Exists, Started
    <3>7. ProcessHolds("up", y)'
      BY <2>8, <3>1, <3>5, <3>6 DEF ProcessHolds, ProcessSound
    <3>8. ~metadata.saved /\ ~metadata.routed
      BY <1>1, <2>2, <2>3, <2>12 DEF ProcessHolds, ProcessSound, UpAt, PlaceSound
    <3>9. y.phase \notin Cleaning /\ receipt' \in Receipt /\ receipt'.phase = receipt.phase
          /\ upgradeReceipt' = upgradeReceipt
      BY <1>1, <2>5, <2>7 DEF InstallationInv, CloudTypes
    <3>10. bucket' \in Makers /\ gateway' \in Makers
      BY <3>4 DEF InstallationInv, CloudTypes
    <3> QED BY <1>1, <2>1, <2>4, <2>6, <2>10, <3>1, <3>2, <3>4, <3>7, <3>8, <3>9, <3>10, PersistKeeps DEF Exists
  <2> QED BY <2>9, <2>11, <2>12 DEF Commands
<1> QED BY <1>2, <1>3

\* `up' writes its coordinates to the metadata.
LEMMA UpPersists ==
  ASSUME InstallationInv, NEW y, Becomes("up", y),
         UNCHANGED <<worker, database, made, upgradeReceipt>>,
         receipt' \in Receipt, receipt'.phase = receipt.phase,
         bucket' \in Makers, gateway' \in Makers,
         metadata' \in Metadata, metadata'.saved, metadata'.database = command["up"].id,
         metadata'.routed = command["up"].routed \/ metadata'.routed,
         command["up"].phase \in Started,
         y.phase \notin Cleaning, ProcessHolds("up", y)'
  PROVE  InstallationInv'
<1> DEFINE x == command["up"]
<1>1. x \in Command /\ ProcessHolds("up", x)
  BY HeldRecord DEF Commands
<1>2. x.phase # "none" /\ (x.phase \in Asked => x.phase \in Stocked)
  BY DEF Started, Placed, Stocked, Asked
<1>3. x.id <= made.database
  BY <1>1 DEF ProcessHolds, ProcessAt
<1>4. Uncleaned /\ metadata'.database # 0 /\ metadata'.database = database.id
        /\ database.by # "up" => Exists
  BY <1>1 DEF ProcessHolds, UpAt
<1>5. Unwritten /\ metadata.routed => metadata'.routed
  BY <1>1, <1>2 DEF ProcessHolds, UpAt
<1>6. worker.by = "up" /\ worker.routed /\ Unwritten => metadata'.routed
  <2>1. metadata.saved \/ worker.by # "up"
    BY <1>1, <1>2 DEF ProcessHolds, UpAt
  <2> QED BY <1>5, <2>1 DEF InstallationInv, PlaceSound
<1> QED BY <1>3, <1>4, <1>5, <1>6, PersistKeeps

\* An idle process knows nothing.
LEMMA IdleHolds ==
  ASSUME NEW c \in Commands, made.database \in Nat, made.version \in Nat
  PROVE  ProcessHolds(c, Idle)
<1>1. Idle \in Command /\ Idle.phase = "none"
  BY InstallationsAssumption DEF Idle, Command, Phases, Secrets
<1>2. /\ Idle.id = 0 /\ Idle.seen = 0 /\ Idle.secret = <<>> /\ Idle.plan = "none" /\ ~Idle.recover
      /\ ~Idle.limit
  BY DEF Idle
<1>3. ProcessSound(c, Idle)
  BY <1>1, <1>2 DEF ProcessSound, Started, Placed, Cleaning
<1> QED BY <1>1, <1>2, <1>3 DEF ProcessHolds, ProcessAt, UpAt, UpgradeAt, RehearsalAt, Migrated,
                               Started, Placed, Stocked

LEMMA RecordedTyped ==
  ASSUME InstallationInv, NEW c \in Commands, NEW resource \in Resources, Record(c, resource)
  PROVE  /\ receipt' \in Receipt /\ receipt'.phase = receipt.phase
         /\ Recorded(c, resource) \in SUBSET Resources /\ receipt.resources \in SUBSET Resources
<1>1. receipt \in Receipt
  BY DEF InstallationInv, CloudTypes
<1>2. Recorded(c, resource) \in SUBSET Resources /\ receipt.resources \in SUBSET Resources
  BY <1>1 DEF Recorded, Receipt
<1> QED BY <1>1, <1>2 DEF Record, Receipt

LEMMA RecordBucketKeeps ==
  ASSUME InstallationInv, NEW c \in Commands, RecordBucket(c)
  PROVE  InstallationInv'
<1> DEFINE x == command[c]
           p == IF RequireExisting(c) THEN "checking" ELSE "migrating"
<1>1. x.phase = "bucketMade" /\ x \in Command /\ ProcessHolds(c, x)
  BY HeldRecord DEF RecordBucket, Is
<1>2. Bucket \in Resources
  BY DEF Resources
<1>3. /\ receipt' \in Receipt /\ receipt'.phase = receipt.phase
      /\ Recorded(c, Bucket) \in SUBSET Resources /\ UNCHANGED <<cloudVars, upgradeReceipt>>
  BY <1>2, RecordedTyped DEF RecordBucket
<1>4. /\ worker' = worker /\ database' = database /\ made' = made /\ bucket' = bucket
      /\ gateway' = gateway /\ bucket' \in Makers /\ gateway' \in Makers
  BY <1>3 DEF cloudVars, InstallationInv, CloudTypes
<1>5. "bucketMade" \in Started \ (Asked \cup Migrated) /\ "bucketMade" \in Placed
      /\ p \in Started \ (Asked \cup Migrated \cup {"relisting", "makingGateway", "gatewayAsked"})
  BY DEF Started, Placed, Asked, Migrated
<1>6. x.id # 0
  BY <1>1, <1>5 DEF ProcessHolds, ProcessSound
<1>7. CASE bucket = "none"
  <2>1. Quiet /\ StopsWith(c, Recorded(c, Bucket))
    BY <1>3, <1>4, <1>7 DEF RecordBucket, Quiet
  <2> QED BY <1>1, <1>3, <2>1, StopKeeps
<1>8. CASE bucket # "none"
  <2>1. Goes(c, p) /\ Persist(c, Provisioned(c, x.routed))
    BY <1>8 DEF RecordBucket
  <2>2. CASE c # "up"
    <3>1. Quiet
      BY <1>3, <1>4, <2>1, <2>2 DEF Persist, Quiet
    <3>2. p \notin {"reconciling", "deployed"}
      BY <1>5 DEF Asked
    <3> HIDE DEF p
    <3> QED BY <1>1, <1>5, <1>6, <2>1, <2>2, <3>1, <3>2, GoesKeeps
  <2>3. CASE c = "up"
    <3>1. PICK y : y = [x EXCEPT !.phase = p]
      OBVIOUS
    <3>2. Becomes("up", y) /\ metadata' = Provisioned("up", x.routed)
      BY <2>1, <2>3, <3>1 DEF Goes, Persist
    <3>3. /\ y \in Command /\ y.phase = "migrating" /\ y.plan = x.plan
          /\ y.id = x.id /\ y.seen = x.seen /\ y.package = x.package
          /\ y.secret = x.secret /\ y.limit = x.limit /\ y.recover = x.recover
          /\ y.known = x.known /\ y.routed = x.routed
      BY <1>1, <2>3, <3>1 DEF Command, Phases, RequireExisting
    <3>4. /\ metadata' \in Metadata /\ metadata'.saved /\ metadata'.database = command["up"].id
          /\ metadata'.routed = command["up"].routed
      BY <1>1, <2>3, <3>2 DEF Provisioned, Metadata, Command
    <3>5. Uncleaned' => Uncleaned
      BY <1>3, <2>3, <3>2, StaysCleaned
    <3>6. "migrating" \in Started \ (Asked \cup Migrated \cup Cleaning)
          /\ "bucketMade" \in Started \ Asked /\ "migrating" \in Stocked
      BY DEF Started, Placed, Asked, Migrated, Cleaning, Stocked
    <3>7. ProcessSound("up", y) /\ ProcessAt("up", y)'
      BY <1>1, <1>4, <1>6, <2>3, <3>3, <3>5, <3>6 DEF ProcessHolds, ProcessSound, ProcessAt, Exists
    <3>8. UpAt(y)'
      BY <1>1, <1>4, <2>3, <3>3, <3>4, <3>5, <3>6 DEF ProcessHolds, UpAt, Exists
    <3>9. ProcessHolds("up", y)'
      BY <3>7, <3>8 DEF ProcessHolds, ProcessSound
    <3> QED BY <1>1, <1>3, <1>4, <1>5, <2>3, <3>2, <3>3, <3>4, <3>6, <3>9, UpPersists
  <2> QED BY <2>2, <2>3
<1> QED BY <1>7, <1>8

\* A configured gateway is the route of the process, and in the metadata of `up'.
LEMMA GatewayKeeps ==
  ASSUME InstallationInv, NEW c \in Commands, GatewayConfigured(c), c # "upgrade",
         command[c].phase \in {"gating", "gatewayAsked"},
         receipt' \in Receipt, receipt'.phase = receipt.phase,
         UNCHANGED <<cloudVars, upgradeReceipt>>
  PROVE  InstallationInv'
<1> DEFINE x == command[c]
<1>1. x \in Command /\ ProcessHolds(c, x)
  BY HeldRecord
<1>2. PICK y : y = [x EXCEPT !.phase = "deploying", !.routed = TRUE]
  OBVIOUS
<1>3. Becomes(c, y) /\ Persist(c, Provisioned(c, TRUE))
  BY <1>2 DEF GatewayConfigured, AfterGateway, RequireExisting
<1>4. /\ y \in Command /\ y.phase = "deploying" /\ y.plan = x.plan
      /\ y.id = x.id /\ y.seen = x.seen /\ y.package = x.package
      /\ y.secret = x.secret /\ y.limit = x.limit /\ y.recover = x.recover
      /\ y.known = x.known /\ y.routed = TRUE
  BY <1>1, <1>2 DEF Command, Phases
<1>5. /\ {"gating", "gatewayAsked"} \subseteq Started \ Asked /\ {"gating", "gatewayAsked"} \subseteq Migrated
      /\ {"gating", "gatewayAsked"} \subseteq Placed /\ {"gating", "gatewayAsked"} \subseteq Stocked
      /\ "deploying" \in Started \ (Asked \cup Cleaning)
  BY DEF Started, Placed, Asked, Migrated, Cleaning, Stocked
<1>6. /\ worker' = worker /\ database' = database /\ made' = made /\ bucket' = bucket
      /\ gateway' = gateway /\ bucket' \in Makers /\ gateway' \in Makers
      /\ upgradeReceipt' = upgradeReceipt
  BY DEF cloudVars, InstallationInv, CloudTypes
<1>7. x.id # 0 /\ x.phase \in Started \ Asked
  BY <1>1, <1>5 DEF ProcessHolds, ProcessSound
<1>8. CASE c = "rehearsal"
  <2>1. Quiet
    BY <1>3, <1>6, <1>8 DEF Persist, Quiet
  <2>2. y.plan # "none" => y.limit
    BY <1>1, <1>4 DEF ProcessHolds, ProcessSound
  <2> QED BY <1>3, <1>4, <1>5, <1>7, <1>8, <2>1, <2>2, PhaseKeeps
<1>9. CASE c = "up"
  <2>1. metadata' = Provisioned("up", TRUE)
    BY <1>3, <1>9 DEF Persist
  <2>2. /\ metadata' \in Metadata /\ metadata'.saved /\ metadata'.database = command["up"].id
        /\ metadata'.routed = TRUE
    BY <1>1, <1>9, <2>1 DEF Provisioned, Metadata, Command
  <2>3. Uncleaned' => Uncleaned
    BY <1>3, <1>9, StaysCleaned
  <2>4. ProcessSound("up", y) /\ ProcessAt("up", y)'
    BY <1>1, <1>4, <1>5, <1>6, <1>7, <1>9, <2>3 DEF ProcessHolds, ProcessSound, ProcessAt, Exists
  <2>5. UpAt(y)'
    BY <1>1, <1>4, <1>5, <1>6, <1>7, <1>9, <2>2, <2>3 DEF ProcessHolds, UpAt, Exists
  <2>6. ProcessHolds("up", y)'
    BY <2>4, <2>5 DEF ProcessHolds, ProcessSound
  <2> QED BY <1>3, <1>4, <1>5, <1>6, <1>7, <1>9, <2>2, <2>6, UpPersists
<1> QED BY <1>8, <1>9 DEF Commands

LEMMA ApplyKeeps ==
  ASSUME InstallationInv, NEW c \in Commands, ApplyAiGatewayPlan(c)
  PROVE  InstallationInv'
<1> DEFINE x == command[c]
<1>1. x.phase = "gating" /\ x \in Command /\ ProcessHolds(c, x) /\ receipt.resources \in SUBSET Resources
  BY HeldRecord DEF ApplyAiGatewayPlan, Is, InstallationInv, CloudTypes, Receipt
<1>2. UNCHANGED <<cloudVars, receipt, upgradeReceipt>>
  BY DEF ApplyAiGatewayPlan
<1>3. metadata' = metadata => Quiet
  BY <1>2 DEF Quiet, cloudVars, InstallationInv, CloudTypes
<1>4. /\ {"gating", "checking", "deploying", "makingGateway"} \subseteq Started \ Asked
      /\ {"gating", "deploying", "makingGateway"} \subseteq Migrated
      /\ {"gating", "checking", "deploying", "makingGateway"} \subseteq Stocked
      /\ "gating" \in Placed
  BY DEF Started, Placed, Asked, Migrated, Stocked
<1>5. x.id # 0 /\ (c = "up" => metadata.saved)
  BY <1>1, <1>4 DEF ProcessHolds, ProcessSound, UpAt
<1>6. CASE x.plan = "none"
  <2> DEFINE p == AfterGateway(c)
  <2>1. Goes(c, p) /\ metadata' = metadata
    BY <1>6 DEF ApplyAiGatewayPlan
  <2>2. p \in {"checking", "deploying"}
    BY DEF AfterGateway
  <2> HIDE DEF p
  <2> QED BY <1>1, <1>3, <1>4, <1>5, <2>1, <2>2, GoesKeeps
<1>7. CASE x.plan = "create" /\ gateway = "none"
  <2>1. Goes(c, "makingGateway") /\ metadata' = metadata
    BY <1>7 DEF ApplyAiGatewayPlan
  <2> QED BY <1>1, <1>3, <1>4, <1>5, <1>7, <2>1, GoesKeeps
<1>8. CASE x.plan \in {"change", "keep"} /\ gateway # "none"
  <2>1. GatewayConfigured(c)
    BY <1>8 DEF ApplyAiGatewayPlan
  <2>2. c # "upgrade"
    BY <1>1, <1>8 DEF ProcessHolds, ProcessSound
  <2>3. receipt' \in Receipt /\ receipt'.phase = receipt.phase
    BY <1>2 DEF InstallationInv, CloudTypes
  <2> QED BY <1>1, <1>2, <2>1, <2>2, <2>3, GatewayKeeps
<1>9. CASE ~(x.plan = "none") /\ ~(x.plan = "create" /\ gateway = "none")
           /\ ~(x.plan \in {"change", "keep"} /\ gateway # "none")
  <2>1. Stop(c) /\ metadata' = metadata
    BY <1>9 DEF ApplyAiGatewayPlan
  <2> QED BY <1>1, <1>3, <2>1, StopKeeps DEF Stop
<1> QED BY <1>6, <1>7, <1>8, <1>9

LEMMA CreateGatewayKeeps ==
  ASSUME InstallationInv, NEW c \in Commands, CreateGateway(c)
  PROVE  InstallationInv'
<1> DEFINE x == command[c]
<1>1. x.phase = "makingGateway" /\ x \in Command /\ ProcessHolds(c, x)
      /\ receipt.resources \in SUBSET Resources
  BY HeldRecord DEF CreateGateway, Is, InstallationInv, CloudTypes, Receipt
<1>2. Quiet
  BY DEF CreateGateway, Quiet, fileVars, InstallationInv, CloudTypes, Makers
<1>3. CASE Stop(c)
  BY <1>1, <1>2, <1>3, StopKeeps DEF Stop
<1>4. ASSUME NEW y, Becomes(c, y), y = [x EXCEPT !.phase = "gatewayAsked"]
                                   \/ \E answered \in BOOLEAN :
                                        y = [x EXCEPT !.phase = "gatewayAsked", !.answered = answered]
      PROVE  InstallationInv'
  <2>1. /\ y \in Command /\ y.phase = "gatewayAsked" /\ y.plan = x.plan
        /\ y.id = x.id /\ y.seen = x.seen /\ y.package = x.package
        /\ y.secret = x.secret /\ y.limit = x.limit /\ y.recover = x.recover
        /\ y.known = x.known /\ y.routed = x.routed
    BY <1>1, <1>4 DEF Command, Phases
  <2>2. /\ {"makingGateway", "gatewayAsked"} \subseteq (Started \cap Placed) \ Asked
        /\ {"makingGateway", "gatewayAsked"} \subseteq Migrated \cap Stocked
    BY DEF Started, Placed, Asked, Migrated, Stocked
  <2>3. x.id # 0 /\ x.plan # "none" /\ x.limit /\ (c = "up" => metadata.saved)
    BY <1>1, <2>2 DEF ProcessHolds, ProcessSound, UpAt
  <2> QED BY <1>1, <1>2, <1>4, <2>1, <2>2, <2>3, PhaseKeeps
<1> QED BY <1>3, <1>4 DEF CreateGateway

LEMMA RecordGatewayKeeps ==
  ASSUME InstallationInv, NEW c \in Commands, RecordGateway(c)
  PROVE  InstallationInv'
<1> DEFINE x == command[c]
<1>1. x.phase = "gatewayAsked" /\ x \in Command /\ ProcessHolds(c, x)
      /\ receipt.resources \in SUBSET Resources /\ UNCHANGED <<cloudVars, upgradeReceipt>>
  BY HeldRecord DEF RecordGateway, Is, InstallationInv, CloudTypes, Receipt
<1>2. CASE gateway = "none"
  <2>1. Quiet /\ Stop(c)
    BY <1>1, <1>2 DEF RecordGateway, Quiet, cloudVars, InstallationInv, CloudTypes
  <2> QED BY <1>1, <2>1, StopKeeps DEF Stop
<1>3. CASE gateway # "none"
  <2>1. Gateway \in Resources /\ Record(c, Gateway) /\ GatewayConfigured(c)
    BY <1>3 DEF RecordGateway, Resources
  <2>2. receipt' \in Receipt /\ receipt'.phase = receipt.phase
    BY <2>1, RecordedTyped
  <2>3. c # "upgrade"
    BY <1>1 DEF ProcessHolds, ProcessSound
  <2> QED BY <1>1, <2>1, <2>2, <2>3, GatewayKeeps
<1> QED BY <1>2, <1>3

\* A database that a process has created is its own as long as none is deleted.
LEMMA ReconcileDatabaseKeeps ==
  ASSUME InstallationInv, NEW c \in Commands, ReconcileDatabase(c)
  PROVE  InstallationInv'
<1> DEFINE x == command[c]
<1>1. x.phase = "relisting" /\ x \in Command /\ ProcessHolds(c, x)
      /\ receipt.resources \in SUBSET Resources /\ UNCHANGED <<cloudVars, metadata, upgradeReceipt>>
  BY HeldRecord DEF ReconcileDatabase, Is, InstallationInv, CloudTypes, Receipt
<1>2. /\ database \in Database /\ receipt \in Receipt
      /\ PlaceSound
  BY DEF InstallationInv, CloudTypes
<1>3. CASE database.id = 0
  <2>1. Quiet /\ Stop(c)
    BY <1>1, <1>2, <1>3 DEF ReconcileDatabase, Quiet, cloudVars, InstallationInv, CloudTypes
  <2> QED BY <1>1, <2>1, StopKeeps DEF Stop
<1>4. CASE database.id # 0
  <2>1. DatabaseOf(database.id) \in Resources
    BY <1>2, <1>4, InstallationsAssumption DEF Database, Resources, DatabaseIds
  <2>2. Record(c, DatabaseOf(database.id))
    BY <1>4 DEF ReconcileDatabase
  <2>3. /\ receipt' \in Receipt /\ receipt'.phase = receipt.phase
        /\ Recorded(c, DatabaseOf(database.id)) \in SUBSET Resources
    BY <2>1, <2>2, RecordedTyped
  <2>4. Quiet
    BY <1>1, <2>3 DEF Quiet, cloudVars, InstallationInv, CloudTypes
  <2>5. CASE ~x.answered
    <3>1. StopsWith(c, Recorded(c, DatabaseOf(database.id)))
      BY <1>4, <2>5 DEF ReconcileDatabase
    <3> QED BY <1>1, <2>3, <2>4, <3>1, StopKeeps
  <2>6. CASE x.answered
    <3> DEFINE y == [x EXCEPT !.phase = "storing", !.id = database.id]
    <3>1. Becomes(c, y)
      BY <1>4, <2>6 DEF ReconcileDatabase
    <3>2. /\ y \in Command /\ y.phase = "storing" /\ y.plan = x.plan
          /\ y.id = database.id /\ y.seen = x.seen /\ y.package = x.package
          /\ y.secret = x.secret /\ y.limit = x.limit /\ y.recover = x.recover
          /\ y.known = x.known /\ y.routed = x.routed
      BY <1>1, <1>2 DEF Command, Phases, Database
    <3> HIDE DEF y
    <3>3. "storing" \in Started \ (Asked \cup Migrated \cup Stocked \cup Cleaning)
          /\ "relisting" \in Started \ (Asked \cup Cleaning)
      BY DEF Started, Placed, Asked, Migrated, Stocked, Cleaning
    <3>4. ProcessSound(c, y)
      BY <1>1, <1>4, <3>2, <3>3 DEF ProcessHolds, ProcessSound
    <3>5. ProcessAt(c, y)
      BY <1>1, <1>2, <3>2, <3>3 DEF ProcessHolds, ProcessAt, PlaceSound
    <3>6. ASSUME c = "up" PROVE UpAt(y)
      <4>1. Uncleaned => database.by = "up"
        BY <1>1, <2>6, <3>6 DEF ProcessHolds, ProcessAt
      <4> QED BY <1>1, <3>2, <3>3, <3>6, <4>1 DEF ProcessHolds, UpAt
    <3>7. ASSUME c = "upgrade" PROVE UpgradeAt(y)
      BY <1>1, <3>2, <3>3, <3>7 DEF ProcessHolds, UpgradeAt
    <3>8. ASSUME c = "rehearsal" PROVE RehearsalAt(y)
      <4>1. Uncleaned
        BY <1>1, <3>8 DEF Uncleaned, Provisioning
      <4>2. database.by = "rehearsal"
        BY <1>1, <2>6, <3>8, <4>1 DEF ProcessHolds, ProcessAt
      <4> QED BY <1>1, <3>2, <3>8, <4>2 DEF ProcessHolds, RehearsalAt
    <3>9. ProcessHolds(c, y) /\ Provisioning(c)
      BY <1>1, <3>4, <3>5, <3>6, <3>7, <3>8 DEF ProcessHolds, Provisioning
    <3> QED BY <2>4, <3>1, <3>9, QuietStep
  <2> QED BY <2>5, <2>6
<1> QED BY <1>3, <1>4

LEMMA RecordWorkerKeeps ==
  ASSUME InstallationInv, NEW c \in Commands, RecordWorker(c)
  PROVE  InstallationInv'
<1> DEFINE x == command[c]
<1>1. x.phase = "deployed" /\ x \in Command /\ ProcessHolds(c, x)
      /\ UNCHANGED <<cloudVars, metadata, upgradeReceipt>> /\ Goes(c, "verifying")
  BY HeldRecord DEF RecordWorker, Is
<1>2. Worker \in Resources
  BY DEF Resources
<1>3. receipt' \in Receipt /\ receipt'.phase = receipt.phase
  <2>1. CASE command[c].seen = 0
    BY <1>2, <2>1, RecordedTyped DEF RecordWorker
  <2>2. CASE command[c].seen # 0
    BY <2>2 DEF RecordWorker, InstallationInv, CloudTypes
  <2> QED BY <2>1, <2>2
<1>4. Quiet
  BY <1>1, <1>3 DEF Quiet, cloudVars, InstallationInv, CloudTypes
<1>5. {"deployed", "verifying"} \subseteq Started \cap Placed \cap Stocked \cap Asked
  BY DEF Started, Placed, Asked, Stocked
<1>6. x.id # 0 /\ (c = "up" => metadata.saved)
  BY <1>1, <1>5 DEF ProcessHolds, ProcessSound, UpAt
<1>7. "verifying" \notin Migrated
  BY DEF Migrated
<1> QED BY <1>1, <1>4, <1>5, <1>6, <1>7, GoesKeeps

\* `up' ends, and has saved its coordinates.
LEMMA VerifyFreshKeeps ==
  ASSUME InstallationInv, NEW c \in Commands, VerifyFresh(c)
  PROVE  InstallationInv'
<1> DEFINE x == command[c]
<1>1. x.phase = "verifying" /\ x \in Command /\ ProcessHolds(c, x) /\ c # "upgrade"
      /\ receipt.resources \in SUBSET Resources /\ UNCHANGED <<cloudVars, receipt, upgradeReceipt>>
      /\ Stop(c)
  BY HeldRecord DEF VerifyFresh, Is, InstallationInv, CloudTypes, Receipt
<1>2. CASE metadata' = metadata
  <2>1. Quiet
    BY <1>1, <1>2 DEF Quiet, cloudVars, InstallationInv, CloudTypes
  <2> QED BY <1>1, <2>1, StopKeeps DEF Stop
<1>3. CASE metadata' # metadata
  <2>1. c = "up" /\ metadata' = [saved |-> TRUE, database |-> x.id, routed |-> x.routed,
                                 limit |-> x.limit, bucket |-> TRUE]
    BY <1>1, <1>3 DEF VerifyFresh, Persist
  <2>2. Becomes("up", Idle) /\ Idle.phase \notin Cleaning
    BY <1>1, <2>1 DEF Stop, StopsWith, Idle, Cleaning
  <2>3. /\ metadata' \in Metadata /\ metadata'.saved /\ metadata'.database = command["up"].id
        /\ metadata'.routed = command["up"].routed
    BY <1>1, <2>1 DEF Metadata, Command
  <2>4. /\ worker' = worker /\ database' = database /\ made' = made /\ bucket' \in Makers
        /\ gateway' \in Makers /\ receipt' \in Receipt
    BY <1>1 DEF cloudVars, InstallationInv, CloudTypes
  <2>5. made'.database \in Nat /\ made'.version \in Nat
    BY <2>4, InstallationsAssumption DEF InstallationInv, CloudTypes
  <2>6. ProcessHolds("up", Idle)'
    <3>1. PICK y : y = Idle
      OBVIOUS
    <3>2. y \in Command /\ y.phase = "none"
      BY <3>1, InstallationsAssumption DEF Idle, Command, Phases, Secrets
    <3>3. /\ y.id = 0 /\ y.seen = 0 /\ y.secret = <<>> /\ y.plan = "none" /\ ~y.recover
          /\ ~y.limit /\ ~y.known
      BY <3>1 DEF Idle
    <3>4. ProcessSound("up", y) /\ ProcessAt("up", y)' /\ UpAt(y)'
      BY <2>5, <3>2, <3>3 DEF ProcessSound, Started, Placed, Cleaning, ProcessAt, UpAt, Stocked, Migrated
    <3> QED BY <3>1, <3>4 DEF ProcessHolds, ProcessSound, ProcessAt, UpAt, Exists, Uncleaned, Unwritten
  <2>7. x.phase \in Started
    BY <1>1 DEF Started
  <2> QED BY <1>1, <2>1, <2>2, <2>3, <2>4, <2>6, <2>7, UpPersists
<1> QED BY <1>2, <1>3


-----------------------------------------------------------------------------
(* How a process starts *)

LEMMA InstallationStarts ==
  ASSUME InstallationsInit
  PROVE  InstallationInv
<1>1. CloudTypes
  BY InstallationsAssumption DEF InstallationsInit, CloudTypes, WorkerVersion, NoWorker, Database, NoDatabase,
     Metadata, NoMetadata, Receipt, UpgradeReceipt, Makers, Commands, Secrets
<1>2. PlaceSound
  BY InstallationsAssumption DEF InstallationsInit, PlaceSound, NoWorker, NoDatabase, NoMetadata, Exists
<1>3. made.database \in Nat /\ made.version \in Nat
  BY InstallationsAssumption DEF InstallationsInit
<1>4. Idle \in Command
  BY InstallationsAssumption DEF Idle, Command, Phases, Secrets
<1>5. command = [c \in Commands |-> Idle]
  BY DEF InstallationsInit
<1>6. command \in [Commands -> Command]
  BY <1>4, <1>5
<1>7. \A c \in Commands : ProcessHolds(c, command[c])
  BY <1>3, <1>5, IdleHolds
<1> QED BY <1>1, <1>2, <1>6, <1>7 DEF InstallationInv

\* A step that changes nothing but the receipts, and forgets nothing of them.
LEMMA ReceiptStep ==
  ASSUME InstallationInv, NEW c \in Commands, NEW x, Becomes(c, x), ProcessHolds(c, x)',
         UNCHANGED <<cloudVars, metadata>>, receipt' \in Receipt, upgradeReceipt' \in UpgradeReceipt,
         Uncleaned' => Uncleaned, Unwritten' => Unwritten,
         receipt'.phase = "none" => receipt.phase = "none"
  PROVE  InstallationInv'
<1>1. /\ worker' = worker /\ database' = database /\ made' = made /\ metadata' = metadata
      /\ bucket' = bucket /\ gateway' = gateway
  BY DEF cloudVars
<1>2. CloudTypes' /\ PlaceSound'
  BY <1>1 DEF InstallationInv, CloudTypes, PlaceSound, Exists
<1>3. ASSUME NEW d \in Commands \ {c}
      PROVE  ProcessHolds(d, command[d])'
  <2>1. PICK y : y = command[d]
    OBVIOUS
  <2>2. command'[d] = y /\ ProcessHolds(d, y)
    BY <2>1, HeldRecord DEF Becomes, InstallationInv
  <2>3. ProcessHolds(d, y)'
    BY <1>1, <2>2 DEF ProcessHolds, ProcessSound, ProcessAt, UpAt, UpgradeAt, RehearsalAt, Exists
  <2> QED BY <2>2, <2>3 DEF ProcessHolds, ProcessSound, ProcessAt, UpAt, UpgradeAt, RehearsalAt
<1> QED BY <1>2, <1>3, ProcessMoves DEF InstallationInv

\* The options of a process become a process that begins.
LEMMA BegunTyped ==
  ASSUME NEW z \in Command, NEW package \in Packages
  PROVE  [z EXCEPT !.phase = "inspecting", !.package = package] \in Command
<1>1. package \in 0..MaxPackage
  BY DEF Packages
<1>2. "inspecting" \in Phases
  BY DEF Phases
<1> QED BY <1>1, <1>2 DEF Command

LEMMA BeginUpKeeps ==
  ASSUME InstallationInv, NEW package \in Packages, NEW limit \in BOOLEAN, NEW id \in 0..MaxDatabase,
         BeginUp(package, limit, id)
  PROVE  InstallationInv'
<1>1. PICK y : y = [[Idle EXCEPT !.id = id, !.routed = metadata.routed, !.limit = limit \/ metadata.limit,
                                 !.known = metadata.bucket, !.recover = ~metadata.saved]
                     EXCEPT !.phase = "inspecting", !.package = package]
  OBVIOUS
<1>2. Becomes("up", y) /\ Quiet /\ id \in ConfirmedDatabases
  BY <1>1, AllUnchanged DEF BeginUp, Begins
<1>3. metadata \in Metadata /\ PlaceSound
  BY DEF InstallationInv, CloudTypes
<1>4. Idle \in Command
  BY InstallationsAssumption DEF Idle, Command, Phases, Secrets
<1>5. y \in Command
  <2> DEFINE z == [Idle EXCEPT !.id = id, !.routed = metadata.routed, !.limit = limit \/ metadata.limit,
                               !.known = metadata.bucket, !.recover = ~metadata.saved]
  <2>1. (limit \/ metadata.limit) \in BOOLEAN /\ (~metadata.saved) \in BOOLEAN
    OBVIOUS
  <2>2. metadata.routed \in BOOLEAN /\ metadata.bucket \in BOOLEAN
    BY <1>3 DEF Metadata
  <2>3. z \in Command
    BY <1>4, <2>1, <2>2 DEF Command
  <2> HIDE DEF z
  <2>4. [z EXCEPT !.phase = "inspecting", !.package = package] \in Command
    BY <2>3, BegunTyped
  <2> QED BY <1>1, <2>4 DEF z
<1>6. /\ y.phase = "inspecting" /\ y.package = package /\ y.id = id /\ y.seen = 0 /\ y.secret = <<>>
      /\ y.plan = "none" /\ y.routed = metadata.routed /\ y.known = metadata.bucket
      /\ y.recover = ~metadata.saved
  BY <1>1, <1>4 DEF Command, Idle
<1>7. "inspecting" \notin Started \cup Placed \cup Asked \cup Migrated \cup Stocked \cup Cleaning
  BY DEF Started, Placed, Asked, Migrated, Stocked, Cleaning
<1>8. ProcessSound("up", y)
  BY <1>5, <1>6, <1>7 DEF ProcessSound, Packages
<1>9. id <= made.database /\ made.version \in Nat
  BY <1>2, <1>3, InstallationsAssumption DEF ConfirmedDatabases, PlaceSound, InstallationInv, CloudTypes
<1>10. ProcessAt("up", y)
  BY <1>6, <1>7, <1>9 DEF ProcessAt
<1>11. UpAt(y)
  BY <1>2, <1>3, <1>6, <1>7 DEF UpAt, ConfirmedDatabases, PlaceSound
<1> QED BY <1>2, <1>8, <1>10, <1>11, QuietStep DEF ProcessHolds, Commands

\* While there is no receipt, no rehearsal has begun.
LEMMA BeginRehearsalKeeps ==
  ASSUME InstallationInv, NEW package \in Packages, NEW limit \in BOOLEAN, BeginRehearsal(package, limit)
  PROVE  InstallationInv'
<1>1. PICK y : y = [[Idle EXCEPT !.limit = limit] EXCEPT !.phase = "inspecting", !.package = package]
  OBVIOUS
<1>2. /\ Becomes("rehearsal", y) /\ receipt.phase = "none"
      /\ receipt' = [receipt EXCEPT !.phase = "provisioning"]
      /\ UNCHANGED <<cloudVars, metadata, upgradeReceipt>>
  BY <1>1 DEF BeginRehearsal, Begins
<1>3. Idle \in Command
  BY InstallationsAssumption DEF Idle, Command, Phases, Secrets
<1>4. y \in Command
  <2> DEFINE z == [Idle EXCEPT !.limit = limit]
  <2>1. z \in Command
    BY <1>3 DEF Command
  <2> HIDE DEF z
  <2>2. [z EXCEPT !.phase = "inspecting", !.package = package] \in Command
    BY <2>1, BegunTyped
  <2> QED BY <1>1, <2>2 DEF z
<1>5. /\ y.phase = "inspecting" /\ y.package = package /\ y.id = 0 /\ y.seen = 0 /\ y.secret = <<>>
      /\ y.plan = "none" /\ ~y.recover
  BY <1>1, <1>3 DEF Command, Idle
<1>6. "inspecting" \notin Started \cup Placed \cup Asked \cup Migrated \cup Cleaning
  BY DEF Started, Placed, Asked, Migrated, Cleaning
<1>7. ProcessSound("rehearsal", y)
  BY <1>4, <1>5, <1>6 DEF ProcessSound, Packages
<1>8. made'.database \in Nat /\ made'.version \in Nat
  BY <1>2, InstallationsAssumption DEF cloudVars, InstallationInv, CloudTypes
<1>9. receipt' \in Receipt /\ receipt'.phase = "provisioning" /\ upgradeReceipt' \in UpgradeReceipt
  BY <1>2 DEF InstallationInv, CloudTypes, Receipt
<1>10. ProcessAt("rehearsal", y)' /\ RehearsalAt(y)'
  BY <1>5, <1>6, <1>8, <1>9 DEF ProcessAt, RehearsalAt
<1>11. ProcessHolds("rehearsal", y)'
  BY <1>7, <1>10 DEF ProcessHolds, ProcessSound
<1>12. Uncleaned /\ (Unwritten' => Unwritten)
  BY <1>2 DEF Uncleaned, Unwritten
<1> QED BY <1>2, <1>9, <1>11, <1>12, ReceiptStep DEF Commands

LEMMA BeginUpgradeKeeps ==
  ASSUME InstallationInv, NEW package \in Packages, BeginUpgrade(package)
  PROVE  InstallationInv'
<1>1. PICK y : y = [UpgradeOptions(FALSE) EXCEPT !.phase = "inspecting", !.package = package]
  OBVIOUS
<1>2. /\ Becomes("upgrade", y) /\ upgradeReceipt.phase # "completed" /\ metadata.saved
      /\ UNCHANGED <<cloudVars, metadata, receipt>>
      /\ upgradeReceipt' =
           IF upgradeReceipt.phase = "none"
             THEN [phase |-> "upgrade_pending", package |-> package, baseline |-> worker.package]
             ELSE upgradeReceipt
  BY <1>1 DEF BeginUpgrade, Begins
<1>3. /\ metadata \in Metadata /\ PlaceSound /\ worker \in WorkerVersion
      /\ receipt \in Receipt /\ upgradeReceipt \in UpgradeReceipt
  BY DEF InstallationInv, CloudTypes
<1>4. Idle \in Command
  BY InstallationsAssumption DEF Idle, Command, Phases, Secrets
<1>5. y \in Command
  <2> DEFINE z == UpgradeOptions(FALSE)
  <2>1. z \in Command
    BY <1>3, <1>4 DEF UpgradeOptions, Command, Metadata
  <2> HIDE DEF z
  <2>2. [z EXCEPT !.phase = "inspecting", !.package = package] \in Command
    BY <2>1, BegunTyped
  <2> QED BY <1>1, <2>2 DEF z
<1>6. /\ y.phase = "inspecting" /\ y.package = package /\ y.id = metadata.database /\ y.seen = 0
      /\ y.secret = <<>> /\ y.plan = "none" /\ y.routed = metadata.routed /\ y.recover /\ ~y.limit
  BY <1>1, <1>3, <1>4 DEF UpgradeOptions, Command, Idle, Metadata
<1>7. "inspecting" \notin Started \cup Placed \cup Asked \cup Migrated \cup Cleaning
  BY DEF Started, Placed, Asked, Migrated, Cleaning
<1>8. ProcessSound("upgrade", y)
  BY <1>5, <1>6, <1>7 DEF ProcessSound, Packages
<1>9. /\ metadata' = metadata /\ metadata.database <= made'.database /\ made'.version \in Nat
      /\ receipt' = receipt
  BY <1>2, <1>3, InstallationsAssumption DEF cloudVars, InstallationInv, CloudTypes, PlaceSound
<1>10. ProcessAt("upgrade", y)' /\ UpgradeAt(y)'
  BY <1>2, <1>6, <1>7, <1>9 DEF ProcessAt, UpgradeAt
<1>11. ProcessHolds("upgrade", y)'
  BY <1>8, <1>10 DEF ProcessHolds, ProcessSound
<1>12. upgradeReceipt' \in UpgradeReceipt
  BY <1>2, <1>3 DEF UpgradeReceipt, WorkerVersion, Packages
<1>13. Unwritten
  BY <1>2 DEF Unwritten
<1>14. Uncleaned' => Uncleaned
  BY <1>2, <1>9, StaysCleaned DEF Commands
<1> QED BY <1>2, <1>3, <1>9, <1>11, <1>12, <1>13, <1>14, ReceiptStep DEF Commands

\* Metadata is lost when neither of the processes that go by it runs.
LEMMA LoseKeeps ==
  ASSUME InstallationInv, LoseMetadata
  PROVE  InstallationInv'
<1>1. /\ command["up"].phase = "none" /\ command["upgrade"].phase = "none"
      /\ metadata' = NoMetadata /\ UNCHANGED <<cloudVars, receipt, upgradeReceipt, command>>
  BY DEF LoseMetadata, Is
<1>2. /\ worker' = worker /\ database' = database /\ made' = made
      /\ bucket' = bucket /\ gateway' = gateway /\ command' = command
      /\ receipt' = receipt /\ upgradeReceipt' = upgradeReceipt
  BY <1>1 DEF cloudVars
<1>3. CloudTypes'
  BY <1>1, <1>2, InstallationsAssumption DEF InstallationInv, CloudTypes, Metadata, NoMetadata
<1>4. Uncleaned' = Uncleaned
  BY <1>2 DEF Uncleaned, Provisioning
<1>5. made.database \in Nat
  BY InstallationsAssumption DEF InstallationInv, CloudTypes
<1>6. PlaceSound'
  BY <1>1, <1>2, <1>4, <1>5 DEF InstallationInv, PlaceSound, NoMetadata, Exists
<1>7. ASSUME NEW d \in Commands
      PROVE  ProcessHolds(d, command[d])'
  <2>1. PICK y : y = command[d]
    OBVIOUS
  <2>2. command'[d] = y /\ ProcessHolds(d, y) /\ (d \in {"up", "upgrade"} => y.phase = "none")
    BY <1>1, <1>2, <2>1, HeldRecord
  <2>3. "none" \notin Started \cup Stocked
    BY DEF Started, Placed, Stocked
  <2>4. ProcessHolds(d, y)'
    BY <1>2, <1>4, <2>2, <2>3
       DEF ProcessHolds, ProcessSound, ProcessAt, UpAt, UpgradeAt, RehearsalAt, Exists
  <2> QED BY <2>2, <2>4 DEF ProcessHolds, ProcessSound, ProcessAt, UpAt, UpgradeAt, RehearsalAt
<1> QED BY <1>2, <1>3, <1>6, <1>7 DEF InstallationInv

-----------------------------------------------------------------------------
(* The database *)

\* The name may have been taken meanwhile; a new database has an id none was given before.
LEMMA CreateDatabaseKeeps ==
  ASSUME InstallationInv, NEW c \in Commands, CreateDatabase(c)
  PROVE  InstallationInv'
<1>1. PICK makes \in BOOLEAN, answered \in BOOLEAN :
        /\ answered => makes
        /\ makes => database = NoDatabase /\ made.database < MaxDatabase
        /\ database' = IF makes THEN [id |-> made.database + 1, level |-> 0, by |-> c] ELSE database
        /\ made' = IF makes THEN [made EXCEPT !.database = @ + 1] ELSE made
        /\ Becomes(c, [command[c] EXCEPT !.phase = "relisting", !.answered = answered])
  BY DEF CreateDatabase
<1>2. PICK x : x = command[c]
  OBVIOUS
<1>3. PICK y : y = [x EXCEPT !.phase = "relisting", !.answered = answered]
  OBVIOUS
<1>4. /\ x.phase = "creating" /\ x \in Command /\ ProcessHolds(c, x) /\ Becomes(c, y)
      /\ UNCHANGED <<worker, bucket, gateway, metadata, receipt, upgradeReceipt>>
  BY <1>1, <1>2, <1>3, HeldRecord DEF CreateDatabase, Is, fileVars
<1>5. /\ y \in Command /\ y.phase = "relisting" /\ y.answered = answered /\ y.plan = x.plan
      /\ y.id = x.id /\ y.seen = x.seen /\ y.package = x.package
      /\ y.secret = x.secret /\ y.limit = x.limit /\ y.recover = x.recover
      /\ y.known = x.known /\ y.routed = x.routed
  BY <1>3, <1>4 DEF Command, Phases
<1>6. {"creating", "relisting"} \subseteq Started \ (Placed \cup Asked \cup Migrated \cup Stocked \cup Cleaning)
  BY DEF Started, Placed, Asked, Migrated, Stocked, Cleaning
<1>7. x.plan # "none" => x.limit
  BY <1>4 DEF ProcessHolds, ProcessSound
<1>8. CASE ~makes
  <2>1. Quiet
    BY <1>1, <1>4, <1>8 DEF Quiet, InstallationInv, CloudTypes
  <2>2. ~answered
    BY <1>1, <1>8
  <2> QED BY <1>2, <1>4, <1>5, <1>6, <1>7, <2>1, <2>2, PhaseKeeps
<1>9. CASE makes
  <2>1. /\ database.id = 0 /\ database.by = "none" /\ made.database < MaxDatabase
        /\ database' = [id |-> made.database + 1, level |-> 0, by |-> c]
        /\ made' = [made EXCEPT !.database = made.database + 1]
    BY <1>1, <1>9 DEF NoDatabase
  <2>2. /\ CloudTypes /\ PlaceSound /\ made \in [database : 0..MaxDatabase, version : 0..MaxVersion]
    BY DEF InstallationInv, CloudTypes
  <2>3. /\ database'.id = made.database + 1 /\ database'.by = c /\ made'.database = made.database + 1
        /\ made'.version = made.version /\ made.database \in Nat /\ made.version \in Nat
        /\ made' \in [database : 0..MaxDatabase, version : 0..MaxVersion]
    BY <2>1, <2>2, InstallationsAssumption
  <2>4. database' \in Database
    BY <2>1, <2>3, InstallationsAssumption DEF Database, Makers
  <2>5. CloudTypes'
    BY <1>4, <2>2, <2>3, <2>4 DEF CloudTypes
  <2>6. Uncleaned' => Uncleaned
    BY <1>2, <1>4, StaysCleaned DEF Provisioning
  <2>7. Uncleaned => ~Exists
    BY <2>1, <2>2 DEF PlaceSound
  <2>8. PlaceSound'
    BY <1>4, <2>2, <2>3, <2>6, <2>7 DEF PlaceSound, Exists, Unwritten, NoWorker, CloudTypes, WorkerVersion, Metadata
  <2>9. ASSUME NEW d \in Commands, NEW z \in Command, ProcessHolds(d, z)
        PROVE  ProcessHolds(d, z)'
    <3>1. z.id \in Nat /\ z.id <= made.database /\ z.id # database'.id
      BY <2>3, <2>9, InstallationsAssumption DEF ProcessHolds, ProcessAt, Command
    <3>2. ProcessAt(d, z)'
      BY <1>4, <2>1, <2>3, <2>6, <2>9, <3>1 DEF ProcessHolds, ProcessAt, Exists
    <3> QED BY <1>4, <2>6, <2>9, <3>1, <3>2
            DEF ProcessHolds, ProcessSound, UpAt, UpgradeAt, RehearsalAt, Exists, Unwritten
  <2>10. \A d \in Commands \ {c} : ProcessHolds(d, command[d])'
    <3>1. ASSUME NEW d \in Commands \ {c}
          PROVE  ProcessHolds(d, command[d])'
      <4>1. PICK z : z = command[d]
        OBVIOUS
      <4>2. command'[d] = z
        BY <1>4, <4>1 DEF Becomes, InstallationInv
      <4>3. ProcessHolds(d, z)'
        BY <2>9, <4>1, HeldRecord
      <4> QED BY <4>2, <4>3 DEF ProcessHolds, ProcessSound, ProcessAt, UpAt, UpgradeAt, RehearsalAt
    <3> QED BY <3>1
  <2>11. ProcessHolds(c, y)'
    <3>1. x.id \in Nat /\ x.id <= made.database /\ x.id # database'.id
      BY <1>4, <2>3, InstallationsAssumption DEF ProcessHolds, ProcessAt, Command
    <3>2. ProcessSound(c, y)
      BY <1>4, <1>5, <1>6 DEF ProcessHolds, ProcessSound
    <3>3. ProcessAt(c, y)'
      BY <1>4, <1>5, <1>6, <2>3, <2>6, <3>1 DEF ProcessHolds, ProcessAt, Exists
    <3>4. ASSUME c = "up" PROVE UpAt(y)'
      <4>1. "creating" # "none"
        OBVIOUS
      <4> QED BY <1>4, <1>5, <1>6, <3>1, <3>4, <4>1 DEF ProcessHolds, UpAt, Unwritten
    <3>5. ASSUME c = "upgrade" PROVE UpgradeAt(y)'
      BY <1>4, <1>5, <1>6, <3>5 DEF ProcessHolds, UpgradeAt, Unwritten
    <3>6. ASSUME c = "rehearsal" PROVE RehearsalAt(y)'
      BY <1>4, <1>5, <3>1, <3>6 DEF ProcessHolds, RehearsalAt
    <3> QED BY <3>2, <3>3, <3>4, <3>5, <3>6 DEF ProcessHolds, ProcessSound
  <2> QED BY <1>4, <2>5, <2>8, <2>10, <2>11, ProcessMoves DEF InstallationInv
<1> QED BY <1>8, <1>9

\* A database is only migrated further.
LEMMA LevelHolds ==
  ASSUME NEW d, NEW z \in Command, ProcessHolds(d, z),
         database' \in Database, database.level \in Nat,
         database'.id = database.id, database'.by = database.by, database'.level >= database.level,
         UNCHANGED <<worker, made, metadata, receipt, upgradeReceipt>>, Uncleaned' => Uncleaned
  PROVE  ProcessHolds(d, z)'
<1>1. z.package \in Nat /\ database'.level \in Nat
  BY InstallationsAssumption DEF Command, Database
<1>2. ProcessAt(d, z)'
  BY <1>1 DEF ProcessHolds, ProcessAt, Exists
<1> QED BY <1>2 DEF ProcessHolds, ProcessSound, UpAt, UpgradeAt, RehearsalAt, Exists, Unwritten

LEMMA MigrateKeeps ==
  ASSUME InstallationInv, NEW c \in Commands, Migrate(c)
  PROVE  InstallationInv'
<1>1. PICK x : x = command[c]
  OBVIOUS
<1>2. /\ x.phase = "migrating" /\ x \in Command /\ ProcessHolds(c, x)
      /\ receipt \in Receipt /\ receipt.resources \in SUBSET Resources /\ database \in Database
      /\ UNCHANGED <<worker, bucket, gateway, made, metadata, receipt, upgradeReceipt>>
  BY <1>1, HeldRecord DEF Migrate, Is, InstallationInv, CloudTypes, Receipt, fileVars
<1>3. CASE database.id # x.id
  <2>1. Quiet /\ Stop(c)
    BY <1>1, <1>2, <1>3 DEF Migrate, Quiet, InstallationInv, CloudTypes
  <2> QED BY <1>1, <1>2, <2>1, StopKeeps DEF Stop
<1>4. CASE database.id = x.id
  <2>1. PICK level \in Packages :
          /\ level >= database.level
          /\ database' = [database EXCEPT !.level = level]
          /\ IF MigrationsAreCurrent(level, x.package) THEN Goes(c, "gating") ELSE Stop(c)
    BY <1>1, <1>4 DEF Migrate
  <2>2. /\ database' \in Database /\ database.level \in Nat /\ level \in Nat /\ x.package \in Nat
        /\ database'.id = database.id /\ database'.by = database.by /\ database'.level = level
    BY <1>2, <2>1, InstallationsAssumption DEF Database, Packages, Command
  <2>3. PICK y : y = IF MigrationsAreCurrent(level, x.package) THEN [x EXCEPT !.phase = "gating"]
                     ELSE IF c = "rehearsal" THEN [Idle EXCEPT !.phase = "cleaning", !.left = receipt.resources]
                                             ELSE Idle
    OBVIOUS
  <2>4. Becomes(c, y)
    BY <1>1, <2>1, <2>3 DEF Goes, Stop, StopsWith
  <2>5. "migrating" \in Started \ Asked /\ "migrating" \in Placed /\ "migrating" \in Stocked
        /\ "gating" \in Started \ (Asked \cup Cleaning)
    BY DEF Started, Placed, Asked, Stocked, Cleaning
  <2>6. Uncleaned' => Uncleaned
    BY <1>1, <1>2, <2>4, StaysCleaned DEF Provisioning
  <2>7. ProcessHolds(c, y)'
    <3>1. CASE MigrationsAreCurrent(level, x.package)
      <4>1. /\ y \in Command /\ y.phase = "gating" /\ y.plan = x.plan
            /\ y.id = x.id /\ y.seen = x.seen /\ y.package = x.package
            /\ y.secret = x.secret /\ y.limit = x.limit /\ y.recover = x.recover
            /\ y.known = x.known /\ y.routed = x.routed
        BY <1>2, <2>3, <3>1 DEF Command, Phases
      <4>2. level >= x.package
        BY <3>1 DEF MigrationsAreCurrent
      <4>3. ProcessSound(c, y)
        BY <1>2, <2>5, <4>1 DEF ProcessHolds, ProcessSound
      <4>4. ProcessAt(c, y)'
        BY <1>2, <2>2, <2>6, <4>1, <4>2 DEF ProcessHolds, ProcessAt, Exists
      <4>5. ASSUME c = "up" PROVE UpAt(y)'
        <5>1. "migrating" # "none"
          OBVIOUS
        <5> QED BY <1>2, <2>2, <2>5, <2>6, <4>1, <4>5, <5>1 DEF ProcessHolds, UpAt, Unwritten, Exists
      <4>6. ASSUME c = "upgrade" PROVE UpgradeAt(y)'
        BY <1>2, <2>5, <4>1, <4>6 DEF ProcessHolds, UpgradeAt, Unwritten
      <4>7. ASSUME c = "rehearsal" PROVE RehearsalAt(y)'
        BY <1>2, <2>2, <4>1, <4>7 DEF ProcessHolds, RehearsalAt
      <4> QED BY <4>3, <4>4, <4>5, <4>6, <4>7 DEF ProcessHolds, ProcessSound
    <3>2. CASE ~MigrationsAreCurrent(level, x.package)
      <4>1. ProcessHolds(c, y)
        BY <1>1, <1>2, <2>3, <3>2, StopHolds
      <4>2. y \in Command
        BY <4>1 DEF ProcessHolds, ProcessSound
      <4> QED BY <1>2, <2>1, <2>2, <2>6, <4>1, <4>2, LevelHolds
    <3> QED BY <3>1, <3>2
  <2>8. \A d \in Commands \ {c} : ProcessHolds(d, command[d])'
    <3>1. ASSUME NEW d \in Commands \ {c}
          PROVE  ProcessHolds(d, command[d])'
      <4>1. PICK z : z = command[d]
        OBVIOUS
      <4>2. command'[d] = z
        BY <2>4, <4>1 DEF Becomes, InstallationInv
      <4>3. ProcessHolds(d, z)'
        BY <1>2, <2>1, <2>2, <2>6, <4>1, HeldRecord, LevelHolds
      <4> QED BY <4>2, <4>3 DEF ProcessHolds, ProcessSound, ProcessAt, UpAt, UpgradeAt, RehearsalAt
    <3> QED BY <3>1
  <2>9. CloudTypes' /\ PlaceSound'
    BY <1>2, <2>2, <2>6 DEF InstallationInv, CloudTypes, PlaceSound, Exists, Unwritten
  <2> QED BY <2>4, <2>7, <2>8, <2>9, ProcessMoves DEF InstallationInv
<1> QED BY <1>3, <1>4

-----------------------------------------------------------------------------
(* The deployment *)

\* A process that holds nothing may be in any state in which its receipt is there.
LEMMA StoppedStays ==
  ASSUME NEW d \in Commands, NEW z, ProcessHolds(d, z), z.phase \in {"none", "cleaning"},
         z.id = 0, z.seen = 0,
         made'.database \in Nat, made'.version \in Nat, receipt'.phase = receipt.phase
  PROVE  ProcessHolds(d, z)'
<1>1. z.phase \notin Started \cup Stocked \cup Migrated \cup Asked
  BY DEF Started, Placed, Stocked, Migrated, Asked
<1>2. d # "rehearsal" => z.phase = "none"
  BY DEF ProcessHolds, ProcessSound, Commands, Cleaning
<1>3. ProcessAt(d, z)'
  BY <1>1 DEF ProcessAt
<1> QED BY <1>1, <1>2, <1>3 DEF ProcessHolds, ProcessSound, UpAt, UpgradeAt, RehearsalAt

LEMMA StoppedRecord ==
  ASSUME NEW c \in Commands, NEW r,
         NEW z, z = IF c = "rehearsal" THEN [Idle EXCEPT !.phase = "cleaning", !.left = r] ELSE Idle
  PROVE  z.phase \in {"none", "cleaning"} /\ z.id = 0 /\ z.seen = 0
BY DEF Idle

\* A deployment that lands has all its database's migrations. It is over a Worker of
\* `up' only with that Worker's secret, and has its route as far as the metadata does.
LEMMA LandingKeeps ==
  ASSUME InstallationInv, NEW c \in Commands, NEW y, Becomes(c, y), NEW s \in Secrets,
         command[c].phase \in {"deploying", "reconciling"}, command[c].id = database.id,
         (s # <<>>) <=> command[c].seen = 0,
         worker' = Deployment(c, s), made' = [made EXCEPT !.version = @ + 1], made.version < MaxVersion,
         UNCHANGED <<database, bucket, gateway, metadata, upgradeReceipt>>,
         receipt' \in Receipt, receipt'.phase = receipt.phase,
         c = "rehearsal" /\ y.phase \notin {"none", "cleaning", "deleting", "confirming"} =>
           Provisioning(c),
         ProcessHolds(c, y)'
  PROVE  InstallationInv'
<1>1. PICK x : x = command[c]
  OBVIOUS
<1>2. /\ x \in Command /\ ProcessHolds(c, x) /\ CloudTypes /\ PlaceSound
      /\ worker \in WorkerVersion /\ made \in [database : 0..MaxDatabase, version : 0..MaxVersion]
      /\ made.version \in Nat
  BY <1>1, HeldRecord, InstallationsAssumption DEF InstallationInv, CloudTypes
<1>3. {"deploying", "reconciling"} \subseteq (Started \cap Placed \cap Stocked) \ Cleaning
  BY DEF Started, Placed, Stocked, Cleaning
<1>4. x.id # 0 /\ x.package # 0
  BY <1>1, <1>2, <1>3 DEF ProcessHolds, ProcessSound
<1>5. Message(Wanted(c)) \in Messages
  BY <1>1, <1>2, <1>4 DEF Message, Wanted, Messages, Packages, DatabaseIds, Command, WorkerVersion
<1>6. /\ worker'.version = made.version + 1 /\ worker'.package = x.package
      /\ worker'.database = x.id /\ worker'.routed = x.routed
      /\ worker'.secret = (IF s = <<>> THEN worker.secret ELSE s)
      /\ worker'.by = (IF s = <<>> THEN worker.by ELSE c)
      /\ worker'.messages = worker.messages \cup {Message(Wanted(c))}
  BY <1>1, <1>2 DEF Deployment, Wanted, WorkerVersion
<1>7. worker' \in WorkerVersion
  <2>1. worker.messages \cup {Message(Wanted(c))} \in SUBSET Messages
    BY <1>2, <1>5 DEF WorkerVersion
  <2>2. made.version + 1 \in 0..MaxVersion /\ c \in Makers
    BY <1>2, InstallationsAssumption DEF Makers
  <2>3. Wanted(c) \in WorkerVersion
    BY <1>1, <1>2 DEF Wanted, WorkerVersion, Command
  <2> HIDE DEF Message, Wanted
  <2> QED BY <1>2, <2>1, <2>2, <2>3 DEF Deployment, WorkerVersion, Wanted
<1>8. /\ made'.version = made.version + 1 /\ made'.database = made.database
      /\ made' \in [database : 0..MaxDatabase, version : 0..MaxVersion]
  BY <1>2, InstallationsAssumption
<1>9. Exists'
  BY <1>2, <1>6 DEF Exists
<1>10. Uncleaned' => Uncleaned
  BY StaysCleaned
<1>11. CloudTypes'
  BY <1>2, <1>7, <1>8 DEF CloudTypes
<1>12. Uncleaned /\ worker'.by = "up" => database.by = "up"
  <2>1. CASE s = <<>>
    <3>1. worker.by = "up" => worker # NoWorker
      BY DEF NoWorker
    <3> QED BY <1>2, <1>6, <2>1, <3>1 DEF PlaceSound
  <2>2. CASE s # <<>>
    BY <1>1, <1>2, <1>3, <1>4, <1>6, <2>2 DEF ProcessHolds, UpAt
  <2> QED BY <2>1, <2>2
<1>13. metadata.saved /\ worker'.by = "up" /\ worker'.routed /\ Unwritten => metadata.routed
  <2>1. CASE c = "up"
    BY <1>1, <1>2, <1>6, <2>1 DEF ProcessHolds, UpAt
  <2>2. CASE c = "upgrade"
    BY <1>1, <1>2, <1>6, <2>2 DEF ProcessHolds, UpgradeAt
  <2>3. CASE c = "rehearsal"
    BY <1>1, <1>2, <1>6, <2>3 DEF ProcessHolds, ProcessSound
  <2> QED BY <2>1, <2>2, <2>3 DEF Commands
<1>14. PlaceSound'
  BY <1>1, <1>2, <1>4, <1>6, <1>8, <1>9, <1>10, <1>12, <1>13 DEF PlaceSound, Unwritten
<1>15. ASSUME NEW d \in Commands \ {c}
       PROVE  ProcessHolds(d, command[d])'
  <2>1. PICK z : z = command[d]
    OBVIOUS
  <2>2. z \in Command /\ ProcessHolds(d, z) /\ command'[d] = z
    BY <2>1, HeldRecord DEF Becomes, InstallationInv
  <2>3. z.seen \in Nat /\ z.seen <= made.version
    BY <2>2, InstallationsAssumption DEF ProcessHolds, ProcessAt, Command
  <2>4. ProcessAt(d, z)'
    BY <1>2, <1>8, <1>9, <1>10, <2>2, <2>3 DEF ProcessHolds, ProcessAt
  <2>5. worker'.by = "up" /\ d = "up" => worker.by = "up" /\ worker'.secret = worker.secret
    BY <1>6
  <2>6. d = "up" => UpAt(z)'
    BY <1>9, <1>10, <2>2, <2>5 DEF ProcessHolds, UpAt, Unwritten
  <2>7. d = "upgrade" => UpgradeAt(z)'
    BY <1>2, <1>6, <2>2, <2>3 DEF ProcessHolds, UpgradeAt, Unwritten
  <2>8. d = "rehearsal" => RehearsalAt(z)'
    BY <2>2 DEF ProcessHolds, RehearsalAt
  <2>9. ProcessHolds(d, z)'
    BY <2>2, <2>4, <2>6, <2>7, <2>8 DEF ProcessHolds, ProcessSound
  <2> QED BY <2>2, <2>9 DEF ProcessHolds, ProcessSound, ProcessAt, UpAt, UpgradeAt, RehearsalAt
<1> QED BY <1>11, <1>14, <1>15, ProcessMoves DEF InstallationInv

LEMMA DeployKeeps ==
  ASSUME InstallationInv, NEW c \in Commands, Deploy(c)
  PROVE  InstallationInv'
<1>1. PICK x : x = command[c]
  OBVIOUS
<1>2. /\ x.phase = "deploying" /\ x \in Command /\ ProcessHolds(c, x) /\ Provisioning(c)
      /\ UNCHANGED <<database, bucket, gateway, metadata, receipt, upgradeReceipt>>
      /\ bucket \in Makers /\ gateway \in Makers /\ receipt \in Receipt /\ PlaceSound
  BY <1>1, HeldRecord DEF Deploy, Is, Provisioning, InstallationInv, CloudTypes, fileVars
<1>3. /\ "deploying" \in Started \ Asked /\ "deploying" \in Placed /\ "deploying" \in Stocked
      /\ "deploying" \in Migrated
      /\ {"deployed", "reconciling", "verifying"} \subseteq (Started \cap Placed \cap Stocked \cap Asked) \ Cleaning
      /\ "verifying" \notin Migrated
  BY DEF Started, Placed, Asked, Stocked, Cleaning, Migrated
<1>4. x.id # 0 /\ (c = "up" => metadata.saved) /\ (c = "upgrade" => x.seen # 0) /\ x.package # 0
  BY <1>2, <1>3 DEF ProcessHolds, ProcessSound, UpAt
<1>5. CASE Goes(c, "verifying") /\ UNCHANGED <<worker, made>>
  <2>1. Quiet
    BY <1>2, <1>5 DEF Quiet
  <2> QED BY <1>1, <1>2, <1>3, <1>4, <1>5, <2>1, GoesKeeps
<1>6. ASSUME NEW lands \in BOOLEAN, NEW answered \in BOOLEAN, answered => lands,
             Deploys(c, lands, SecretFor(c)),
             Becomes(c, [command[c] EXCEPT !.phase = IF answered THEN "deployed" ELSE "reconciling",
                                           !.secret = SecretFor(c)])
      PROVE  InstallationInv'
  <2>1. PICK s : s = SecretFor(c)
    OBVIOUS
  <2>2. s \in Secrets /\ ((s # <<>>) <=> x.seen = 0)
    <3>1. made.version + 1 \in 1..(MaxVersion + 1)
      BY InstallationsAssumption DEF InstallationInv, CloudTypes
    <3>2. <<c, made.version + 1>> # <<>>
      OBVIOUS
    <3>3. x.seen = 0 => c \in {"up", "rehearsal"}
      BY <1>4 DEF Commands
    <3> QED BY <1>1, <2>1, <3>1, <3>2, <3>3 DEF SecretFor, Secrets
  <2>3. PICK y : y = [x EXCEPT !.phase = IF answered THEN "deployed" ELSE "reconciling", !.secret = s]
    OBVIOUS
  <2>4. /\ y \in Command /\ y.phase \in {"deployed", "reconciling"} /\ y.plan = x.plan
        /\ y.id = x.id /\ y.seen = x.seen /\ y.package = x.package
        /\ y.secret = s /\ y.limit = x.limit /\ y.recover = x.recover
        /\ y.known = x.known /\ y.routed = x.routed /\ (~answered => y.phase = "reconciling")
    BY <1>2, <2>2, <2>3 DEF Command, Phases
  <2>5. Becomes(c, y)
    BY <1>1, <1>6, <2>1, <2>3
  <2>6. ProcessSound(c, y)
    BY <1>2, <1>3, <1>4, <2>2, <2>4 DEF ProcessHolds, ProcessSound
  <2>7. CASE ~lands
    <3>1. Quiet
      BY <1>2, <1>6, <2>7 DEF Quiet, Deploys
    <3>2. ProcessAt(c, y)
      BY <1>2, <1>3, <2>4 DEF ProcessHolds, ProcessAt
    <3>3. ASSUME c = "up" PROVE UpAt(y)
      <4>1. "deploying" # "none"
        OBVIOUS
      <4> QED BY <1>2, <1>3, <2>4, <3>3, <4>1 DEF ProcessHolds, UpAt
    <3>4. ASSUME c = "upgrade" PROVE UpgradeAt(y)
      BY <1>2, <1>3, <2>4, <3>4 DEF ProcessHolds, UpgradeAt
    <3>5. ASSUME c = "rehearsal" PROVE RehearsalAt(y)
      BY <1>2, <2>4, <3>5 DEF ProcessHolds, RehearsalAt
    <3> QED BY <1>2, <2>5, <2>6, <3>1, <3>2, <3>3, <3>4, <3>5, QuietStep DEF ProcessHolds
  <2>8. CASE lands
    <3>1. /\ database.id = x.id /\ made.version < MaxVersion
          /\ worker' = Deployment(c, s) /\ made' = [made EXCEPT !.version = @ + 1]
      BY <1>1, <1>6, <2>1, <2>8 DEF Deploys
    <3>2. /\ made'.version = made.version + 1 /\ made'.database = made.database
          /\ worker'.version = made.version + 1 /\ made.version \in Nat
          /\ worker'.secret = (IF s = <<>> THEN worker.secret ELSE s)
      BY <3>1, InstallationsAssumption DEF InstallationInv, CloudTypes, Deployment, Wanted, WorkerVersion
    <3>3. Exists'
      BY <3>2 DEF Exists
    <3>4. Uncleaned' => Uncleaned
      BY <1>2, <2>5, StaysCleaned
    <3>5. x.seen \in Nat /\ x.seen <= made.version
      BY <1>2, InstallationsAssumption DEF ProcessHolds, ProcessAt, Command
    <3>6. ProcessAt(c, y)'
      BY <1>2, <1>3, <2>4, <3>2, <3>3, <3>5 DEF ProcessHolds, ProcessAt
    <3>7. ASSUME c = "up" PROVE UpAt(y)'
      <4>1. "deploying" # "none"
        OBVIOUS
      <4> QED BY <1>2, <1>3, <2>2, <2>4, <3>2, <3>3, <3>4, <3>7, <4>1 DEF ProcessHolds, UpAt, Unwritten
    <3>8. ASSUME c = "upgrade" PROVE UpgradeAt(y)'
      <4>1. "deploying" # "none"
        OBVIOUS
      <4> QED BY <1>2, <1>3, <2>4, <3>2, <3>5, <3>8, <4>1 DEF ProcessHolds, UpgradeAt, Unwritten
    <3>9. ASSUME c = "rehearsal" PROVE RehearsalAt(y)'
      BY <1>2, <2>4, <3>9 DEF ProcessHolds, RehearsalAt
    <3>10. ProcessHolds(c, y)'
      BY <2>6, <3>6, <3>7, <3>8, <3>9 DEF ProcessHolds, ProcessSound
    <3> QED BY <1>1, <1>2, <2>2, <2>5, <3>1, <3>10, LandingKeeps
  <2> QED BY <2>7, <2>8
<1> QED BY <1>5, <1>6 DEF Deploy

LEMMA ReconcileDeploymentKeeps ==
  ASSUME InstallationInv, NEW c \in Commands, ReconcileDeployment(c)
  PROVE  InstallationInv'
<1>1. PICK x : x = command[c]
  OBVIOUS
<1>2. /\ x.phase = "reconciling" /\ x \in Command /\ ProcessHolds(c, x) /\ Provisioning(c)
      /\ UNCHANGED <<database, bucket, gateway, metadata, upgradeReceipt>>
      /\ bucket \in Makers /\ gateway \in Makers /\ receipt \in Receipt
      /\ receipt.resources \in SUBSET Resources
  BY <1>1, HeldRecord DEF ReconcileDeployment, Is, Provisioning, InstallationInv, CloudTypes, Receipt
<1>3. CASE Message(Wanted(c)) \notin worker.messages
  <2>1. Quiet /\ Stop(c)
    BY <1>2, <1>3 DEF ReconcileDeployment, Quiet
  <2> QED BY <1>1, <1>2, <2>1, StopKeeps DEF Stop
<1>4. CASE Message(Wanted(c)) \in worker.messages
  <2> DEFINE r == IF x.seen = 0 THEN Recorded(c, Worker) ELSE receipt.resources
  <2>1. Worker \in Resources
    BY DEF Resources
  <2>2. /\ IF x.seen = 0 THEN Record(c, Worker) ELSE UNCHANGED receipt
        /\ \E lands, answered \in BOOLEAN :
             /\ answered => lands
             /\ Deploys(c, lands, command[c].secret)
             /\ IF answered THEN Goes(c, "verifying") ELSE StopsWith(c, r)
    BY <1>1, <1>4 DEF ReconcileDeployment
  <2>3. receipt' \in Receipt /\ receipt'.phase = receipt.phase /\ r \in SUBSET Resources
    <3>1. CASE x.seen = 0
      BY <2>1, <2>2, <3>1, RecordedTyped
    <3>2. CASE x.seen # 0
      BY <1>2, <2>2, <3>2
    <3> QED BY <3>1, <3>2
  <2> HIDE DEF r
  <2>4. PICK lands \in BOOLEAN, answered \in BOOLEAN :
          /\ answered => lands
          /\ Deploys(c, lands, x.secret)
          /\ IF answered THEN Goes(c, "verifying") ELSE StopsWith(c, r)
    BY <1>1, <2>2
  <2>5. CASE ~lands
    <3>1. Quiet /\ StopsWith(c, r)
      BY <1>2, <2>3, <2>4, <2>5 DEF Quiet, Deploys
    <3> QED BY <1>1, <1>2, <2>3, <3>1, StopKeeps
  <2>6. CASE lands
    <3>1. /\ database.id = x.id /\ made.version < MaxVersion
          /\ worker' = Deployment(c, x.secret) /\ made' = [made EXCEPT !.version = @ + 1]
      BY <1>1, <2>4, <2>6 DEF Deploys
    <3>2. /\ made'.version = made.version + 1 /\ made'.database = made.database
          /\ worker'.version = made.version + 1 /\ made.version \in Nat
          /\ made.database \in Nat
      BY <3>1, InstallationsAssumption DEF InstallationInv, CloudTypes, Deployment, Wanted, WorkerVersion
    <3>3. x.secret \in Secrets /\ ((x.secret # <<>>) <=> x.seen = 0)
      BY <1>2 DEF ProcessHolds, ProcessSound, Command
    <3>4. CASE answered
      <4>1. PICK y : y = [x EXCEPT !.phase = "verifying"]
        OBVIOUS
      <4>2. /\ y \in Command /\ y.phase = "verifying" /\ y.plan = x.plan
            /\ y.id = x.id /\ y.seen = x.seen /\ y.package = x.package
            /\ y.secret = x.secret /\ y.limit = x.limit /\ y.recover = x.recover
            /\ y.known = x.known /\ y.routed = x.routed /\ Becomes(c, y)
        BY <1>1, <1>2, <2>4, <3>4, <4>1 DEF Command, Phases, Goes
      <4>3. /\ {"reconciling", "verifying"} \subseteq (Started \cap Placed \cap Stocked \cap Asked) \ Cleaning
            /\ "verifying" \notin Migrated
        BY DEF Started, Placed, Asked, Stocked, Cleaning, Migrated
      <4>4. Exists' /\ (Uncleaned' => Uncleaned)
        BY <1>2, <2>3, <3>2, <4>2, StaysCleaned DEF Exists
      <4>5. x.seen \in Nat /\ x.seen <= made.version
        BY <1>2, InstallationsAssumption DEF ProcessHolds, ProcessAt, Command
      <4>6. ProcessSound(c, y) /\ ProcessAt(c, y)'
        BY <1>2, <3>2, <4>2, <4>3, <4>4, <4>5 DEF ProcessHolds, ProcessSound, ProcessAt
      <4>7. ASSUME c = "up" PROVE UpAt(y)'
        <5>1. "reconciling" # "none"
          OBVIOUS
        <5> QED BY <1>2, <4>2, <4>3, <4>4, <4>7, <5>1 DEF ProcessHolds, UpAt, Unwritten
      <4>8. ASSUME c = "upgrade" PROVE UpgradeAt(y)'
        <5>1. "reconciling" # "none"
          OBVIOUS
        <5> QED BY <1>2, <3>2, <4>2, <4>5, <4>8, <5>1 DEF ProcessHolds, UpgradeAt, Unwritten
      <4>9. ASSUME c = "rehearsal" PROVE RehearsalAt(y)'
        BY <1>2, <2>3, <4>2, <4>9 DEF ProcessHolds, RehearsalAt
      <4>10. ProcessHolds(c, y)'
        BY <4>6, <4>7, <4>8, <4>9 DEF ProcessHolds, ProcessSound
      <4> QED BY <1>1, <1>2, <2>3, <3>1, <3>3, <4>2, <4>10, LandingKeeps
    <3>5. CASE ~answered
      <4>1. PICK z : z = IF c = "rehearsal" THEN [Idle EXCEPT !.phase = "cleaning", !.left = r] ELSE Idle
        OBVIOUS
      <4>2. Becomes(c, z)
        BY <2>4, <3>5, <4>1 DEF StopsWith
      <4>3. ProcessHolds(c, z) /\ z.phase \in {"none", "cleaning"} /\ z.id = 0 /\ z.seen = 0
        <5>1. command[c].phase # "none"
          BY <1>1, <1>2
        <5>2. ProcessHolds(c, z)
          BY <2>3, <4>1, <5>1, StopHolds
        <5> QED BY <4>1, <5>2, StoppedRecord
      <4>4. ProcessHolds(c, z)'
        BY <2>3, <3>2, <4>3, StoppedStays
      <4> QED BY <1>1, <1>2, <2>3, <3>1, <3>3, <4>2, <4>3, <4>4, LandingKeeps
    <3> QED BY <3>4, <3>5
  <2> QED BY <2>5, <2>6
<1> QED BY <1>3, <1>4

\* The end of an upgrade's rehearsal: its coordinates are written over the metadata.
LEMMA CompletionKeeps ==
  ASSUME InstallationInv, Becomes("upgrade", Idle), command["upgrade"].phase = "verifying",
         metadata' = [saved |-> TRUE, database |-> command["upgrade"].id,
                      routed |-> command["upgrade"].routed, limit |-> FALSE, bucket |-> FALSE],
         upgradeReceipt' = [upgradeReceipt EXCEPT !.phase = "completed"],
         UNCHANGED <<cloudVars, receipt>>
  PROVE  InstallationInv'
<1>1. PICK x : x = command["upgrade"]
  OBVIOUS
<1>2. x \in Command /\ ProcessHolds("upgrade", x) /\ CloudTypes /\ PlaceSound /\ x.phase = "verifying"
  BY <1>1, HeldRecord DEF InstallationInv, Commands
<1>3. /\ worker' = worker /\ database' = database /\ made' = made
      /\ bucket' = bucket /\ gateway' = gateway /\ receipt' = receipt
  BY DEF cloudVars
<1>4. /\ metadata' \in Metadata /\ metadata'.saved /\ metadata'.database = x.id
      /\ upgradeReceipt' \in UpgradeReceipt /\ ~Unwritten'
  BY <1>1, <1>2 DEF Metadata, Command, CloudTypes, UpgradeReceipt, Unwritten
<1>5. Uncleaned' => Uncleaned
  BY <1>3, StaysCleaned DEF Commands
<1>6. /\ x.id <= made.database /\ metadata.saved /\ x.seen # 0
      /\ (Uncleaned => Exists)
  BY <1>2 DEF ProcessHolds, ProcessSound, ProcessAt, UpgradeAt, Started
<1>7. CloudTypes' /\ PlaceSound'
  BY <1>2, <1>3, <1>4, <1>5, <1>6 DEF CloudTypes, PlaceSound, Exists
<1>8. ASSUME NEW d \in Commands \ {"upgrade"}
      PROVE  ProcessHolds(d, command[d])'
  <2>1. PICK z : z = command[d]
    OBVIOUS
  <2>2. ProcessHolds(d, z) /\ command'[d] = z
    BY <2>1, HeldRecord DEF Becomes, InstallationInv
  <2>3. ProcessHolds(d, z)'
    BY <1>3, <1>4, <1>5, <1>6, <2>2
       DEF ProcessHolds, ProcessSound, ProcessAt, UpAt, RehearsalAt, Exists
  <2> QED BY <2>2, <2>3 DEF ProcessHolds, ProcessSound, ProcessAt, UpAt, RehearsalAt
<1>9. ProcessHolds("upgrade", Idle)'
  <2>1. PICK z : z = Idle
    OBVIOUS
  <2>2. made.database \in Nat /\ made.version \in Nat
    BY <1>2, InstallationsAssumption DEF CloudTypes
  <2>3. ProcessHolds("upgrade", z) /\ z.phase = "none" /\ z.id = 0 /\ z.seen = 0
    BY <2>1, <2>2, IdleHolds DEF Idle, Commands
  <2>4. ProcessHolds("upgrade", z)'
    BY <1>3, <2>2, <2>3, StoppedStays DEF Commands
  <2> QED BY <2>1, <2>4 DEF ProcessHolds, ProcessSound, ProcessAt, UpgradeAt
<1> QED BY <1>7, <1>8, <1>9, ProcessMoves DEF InstallationInv, Commands

LEMMA VerifyUpgradeKeeps ==
  ASSUME InstallationInv, NEW c \in Commands, VerifyUpgrade(c)
  PROVE  InstallationInv'
<1>1. PICK x : x = command["upgrade"]
  OBVIOUS
<1>2. /\ c = "upgrade" /\ x.phase = "verifying" /\ x \in Command /\ ProcessHolds("upgrade", x)
      /\ UNCHANGED <<cloudVars, receipt>> /\ receipt.resources \in SUBSET Resources /\ PlaceSound
  BY <1>1, HeldRecord DEF VerifyUpgrade, Is, InstallationInv, CloudTypes, Receipt
<1>3. UNCHANGED <<metadata, upgradeReceipt>> => Quiet
  BY <1>2 DEF Quiet, cloudVars, InstallationInv, CloudTypes
<1>4. CASE Stop(c) /\ UNCHANGED <<metadata, upgradeReceipt>>
  BY <1>1, <1>2, <1>3, <1>4, StopKeeps DEF Stop
<1>5. CASE /\ Begins(c, command[c].package, [UpgradeOptions(TRUE) EXCEPT
                                               !.id = command[c].id, !.routed = command[c].routed])
           /\ UNCHANGED <<metadata, upgradeReceipt>>
  <2>1. PICK z : z = [UpgradeOptions(TRUE) EXCEPT !.id = x.id, !.routed = x.routed]
    OBVIOUS
  <2>2. PICK y : y = [z EXCEPT !.phase = "inspecting", !.package = x.package]
    OBVIOUS
  <2>3. Becomes("upgrade", y) /\ Quiet
    BY <1>1, <1>2, <1>3, <1>5, <2>1, <2>2 DEF Begins
  <2>4. Idle \in Command
    BY InstallationsAssumption DEF Idle, Command, Phases, Secrets
  <2>5. z \in Command /\ z.id = x.id /\ z.routed = x.routed /\ z.seen = 0 /\ z.secret = <<>>
        /\ z.plan = "none" /\ z.recover /\ ~z.limit
    <3>1. metadata \in Metadata
      BY DEF InstallationInv, CloudTypes
    <3>2. UpgradeOptions(TRUE) \in Command
      BY <2>4, <3>1 DEF UpgradeOptions, Command, Metadata
    <3>3. /\ UpgradeOptions(TRUE).seen = 0 /\ UpgradeOptions(TRUE).secret = <<>>
          /\ UpgradeOptions(TRUE).plan = "none" /\ UpgradeOptions(TRUE).recover
          /\ ~UpgradeOptions(TRUE).limit
      BY DEF UpgradeOptions, Idle
    <3> QED BY <1>2, <2>1, <3>2, <3>3 DEF Command
  <2>6. x.package \in Packages
    BY <1>2, InstallationsAssumption DEF ProcessHolds, ProcessSound, Command, Packages, Started
  <2>7. y \in Command
    BY <2>2, <2>5, <2>6, BegunTyped
  <2>8. /\ y.phase = "inspecting" /\ y.package = x.package /\ y.id = x.id /\ y.seen = 0
        /\ y.secret = <<>> /\ y.plan = "none" /\ y.routed = x.routed /\ y.recover /\ ~y.limit
    BY <2>2, <2>5 DEF Command
  <2>9. "inspecting" \notin Started \cup Placed \cup Asked \cup Migrated \cup Cleaning
    BY DEF Started, Placed, Asked, Migrated, Cleaning
  <2>10. ProcessSound("upgrade", y)
    BY <2>6, <2>7, <2>8, <2>9 DEF ProcessSound, Packages
  <2>11. made.version \in Nat
    BY InstallationsAssumption DEF InstallationInv, CloudTypes
  <2>12. ProcessAt("upgrade", y) /\ UpgradeAt(y)
    BY <1>2, <2>8, <2>9, <2>11 DEF ProcessHolds, ProcessAt, UpgradeAt
  <2> QED BY <2>3, <2>10, <2>12, QuietStep DEF ProcessHolds, Commands
<1>6. CASE /\ Stop(c)
           /\ metadata' = [saved |-> TRUE, database |-> command[c].id, routed |-> command[c].routed,
                           limit |-> FALSE, bucket |-> FALSE]
           /\ upgradeReceipt' = [upgradeReceipt EXCEPT !.phase = "completed"]
  <2>1. Becomes("upgrade", Idle)
    BY <1>2, <1>6 DEF Stop, StopsWith
  <2> QED BY <1>1, <1>2, <1>6, <2>1, CompletionKeeps
<1> QED BY <1>4, <1>5, <1>6 DEF VerifyUpgrade

-----------------------------------------------------------------------------
(* The cleanup *)

LEMMA CleanupOnlyKeeps ==
  ASSUME InstallationInv, CleanupOnly
  PROVE  InstallationInv'
<1>1. PICK z : z = [Idle EXCEPT !.phase = "cleaning", !.left = receipt.resources]
  OBVIOUS
<1>2. Becomes("rehearsal", z) /\ z.phase = "cleaning" /\ receipt.phase # "none"
  BY <1>1 DEF CleanupOnly, StopsWith, Idle
<1>3. Quiet /\ receipt.resources \in SUBSET Resources
  BY AllUnchanged DEF CleanupOnly
<1>4. ProcessHolds("rehearsal", z)
  BY <1>1, <1>2, <1>3, StopHolds DEF Commands
<1> QED BY <1>2, <1>3, <1>4, QuietStep DEF Commands

\* Once a rehearsal cleans up, what is deleted was not what other processes rely on.
LEMMA CleaningStep ==
  ASSUME InstallationInv, command["rehearsal"].phase \in Cleaning, UNCHANGED fileVars,
         NEW left, NEW unresolved, NEW p,
         left \in SUBSET Resources, unresolved \in SUBSET Resources, p \in Cleaning,
         Becomes("rehearsal", [command["rehearsal"] EXCEPT !.phase = p, !.left = left,
                                                           !.unresolved = unresolved]),
         worker' \in {worker, NoWorker}, database' \in {database, NoDatabase}, made' = made,
         bucket' \in {bucket, "none"}, gateway' \in {gateway, "none"}
  PROVE  InstallationInv'
<1>1. PICK x : x = command["rehearsal"]
  OBVIOUS
<1>2. PICK y : y = [x EXCEPT !.phase = p, !.left = left, !.unresolved = unresolved]
  OBVIOUS
<1>3. /\ x \in Command /\ ProcessHolds("rehearsal", x) /\ CloudTypes /\ PlaceSound
      /\ x.phase \in Cleaning /\ Becomes("rehearsal", y)
      /\ metadata' = metadata /\ receipt' = receipt /\ upgradeReceipt' = upgradeReceipt
  BY <1>1, <1>2, HeldRecord DEF InstallationInv, Commands, fileVars
<1>4. /\ y \in Command /\ y.phase = p /\ y.id = x.id /\ y.seen = x.seen /\ y.package = x.package
      /\ y.secret = x.secret /\ y.limit = x.limit /\ y.recover = x.recover /\ y.plan = x.plan
  BY <1>2, <1>3 DEF Command, Phases, Cleaning
<1>5. /\ p \notin Started \cup Placed \cup Asked \cup Migrated
      /\ p \notin {"none", "inspecting", "recovering", "makingGateway", "gatewayAsked", "deployed",
                   "reconciling", "relisting"}
  BY DEF Started, Placed, Asked, Migrated, Cleaning
<1>6. receipt.phase # "none"
  BY <1>3 DEF ProcessHolds, RehearsalAt, Cleaning
<1>7. x.secret = <<>>
  BY <1>3 DEF ProcessHolds, ProcessSound, Asked, Cleaning
<1>8. ~Uncleaned'
  <2>1. command'["rehearsal"] = y
    BY <1>3 DEF Becomes, InstallationInv, Commands
  <2> QED BY <1>3, <1>4, <1>6, <2>1 DEF Uncleaned, Provisioning, Cleaning
<1>9. /\ made.database \in Nat /\ made.version \in Nat
      /\ NoWorker \in WorkerVersion /\ NoDatabase \in Database
      /\ NoWorker.version = 0 /\ NoWorker.by = "none" /\ NoDatabase.id = 0
  BY <1>3, InstallationsAssumption DEF CloudTypes, NoWorker, WorkerVersion, NoDatabase, Database, Makers, Secrets
<1>10. CloudTypes'
  BY <1>3, <1>9 DEF CloudTypes, Makers
<1>11. PlaceSound'
  BY <1>3, <1>8, <1>9 DEF PlaceSound, Exists, Unwritten
<1>12. ProcessHolds("rehearsal", y)'
  <2>1. ProcessSound("rehearsal", y)
    BY <1>3, <1>4, <1>5, <1>7 DEF ProcessHolds, ProcessSound
  <2>2. ProcessAt("rehearsal", y)'
    BY <1>3, <1>4, <1>5, <1>8, <1>9 DEF ProcessHolds, ProcessAt
  <2>3. RehearsalAt(y)'
    BY <1>3, <1>4, <1>6, <1>9 DEF ProcessHolds, RehearsalAt
  <2> QED BY <2>1, <2>2, <2>3 DEF ProcessHolds, ProcessSound
<1>13. ASSUME NEW d \in Commands \ {"rehearsal"}
       PROVE  ProcessHolds(d, command[d])'
  <2>1. PICK z : z = command[d]
    OBVIOUS
  <2>2. z \in Command /\ ProcessHolds(d, z) /\ command'[d] = z
    BY <1>3, <2>1, HeldRecord DEF Becomes, InstallationInv
  <2>3. z.phase \in Migrated => z.id # 0
    BY <2>2 DEF ProcessHolds, ProcessSound, Migrated, Placed, Started
  <2>4. ProcessAt(d, z)'
    BY <1>3, <1>8, <1>9, <2>2, <2>3 DEF ProcessHolds, ProcessAt
  <2>5. d = "up" => UpAt(z)'
    BY <1>3, <1>8, <1>9, <2>2 DEF ProcessHolds, UpAt, Unwritten
  <2>6. d = "upgrade" => UpgradeAt(z)'
    BY <1>3, <1>9, <2>2 DEF ProcessHolds, ProcessSound, UpgradeAt, Unwritten
  <2>7. ProcessHolds(d, z)'
    BY <2>2, <2>4, <2>5, <2>6 DEF ProcessHolds, ProcessSound
  <2> QED BY <2>2, <2>7 DEF ProcessHolds, ProcessSound, ProcessAt, UpAt, UpgradeAt
<1> QED BY <1>3, <1>10, <1>11, <1>12, <1>13, ProcessMoves DEF InstallationInv, Commands

LEMMA CleanupKeeps ==
  ASSUME InstallationInv, NEW resource \in Resources, NEW occupied, NEW there, NEW deletion,
         CleanupResource(resource, occupied, there, deletion),
         UNCHANGED cloudVars \/ deletion =>
           /\ worker' \in {worker, NoWorker} /\ database' \in {database, NoDatabase} /\ made' = made
           /\ bucket' \in {bucket, "none"} /\ gateway' \in {gateway, "none"}
  PROVE  InstallationInv'
<1>1. PICK x : x = command["rehearsal"]
  OBVIOUS
<1>2. x \in Command /\ x.phase \in Cleaning /\ UNCHANGED fileVars
  BY <1>1, HeldRecord DEF CleanupResource, Is, Cleaning, Commands
<1>3. x.left \in SUBSET Resources /\ x.unresolved \in SUBSET Resources
  BY <1>2 DEF Command
<1>4. UNCHANGED cloudVars \/ deletion
  BY DEF CleanupResource
<1>5. /\ worker' \in {worker, NoWorker} /\ database' \in {database, NoDatabase} /\ made' = made
      /\ bucket' \in {bucket, "none"} /\ gateway' \in {gateway, "none"}
  BY <1>4
<1>6. ASSUME NEW p \in {"deleting", "confirming"}, Goes("rehearsal", p)
      PROVE  InstallationInv'
  <2>1. [x EXCEPT !.phase = p]
          = [x EXCEPT !.phase = p, !.left = x.left, !.unresolved = x.unresolved]
    BY <1>2 DEF Command
  <2>2. p \in Cleaning
    BY DEF Cleaning
  <2>3. Becomes("rehearsal", [command["rehearsal"] EXCEPT !.phase = p, !.left = x.left,
                                                          !.unresolved = x.unresolved])
    BY <1>1, <1>6, <2>1 DEF Goes
  <2> QED BY <1>1, <1>2, <1>3, <1>5, <2>2, <2>3, CleaningStep
<1>7. ASSUME NEW resolved, Handled(resource, resolved)
      PROVE  InstallationInv'
  <2>1. PICK left : left = x.left \ {resource}
    OBVIOUS
  <2>2. PICK unresolved : unresolved = IF resolved THEN x.unresolved ELSE x.unresolved \cup {resource}
    OBVIOUS
  <2>3. left \in SUBSET Resources /\ unresolved \in SUBSET Resources /\ "cleaning" \in Cleaning
    BY <1>3, <2>1, <2>2 DEF Cleaning
  <2>4. Becomes("rehearsal", [command["rehearsal"] EXCEPT !.phase = "cleaning", !.left = left,
                                                          !.unresolved = unresolved])
    BY <1>1, <1>2, <1>7, <2>1, <2>2 DEF Handled, Command
  <2> QED BY <1>1, <1>2, <1>5, <2>3, <2>4, CleaningStep
<1> QED BY <1>6, <1>7 DEF CleanupResource

LEMMA CleanupStepKeeps ==
  ASSUME InstallationInv, CleanupWorker \/ CleanupBucket \/ CleanupDatabase \/ CleanupGateway
  PROVE  InstallationInv'
<1>1. CASE CleanupWorker
  <2>1. Worker \in Resources
    BY DEF Resources
  <2> QED BY <1>1, <2>1, CleanupKeeps DEF CleanupWorker, cloudVars
<1>2. CASE CleanupBucket
  <2>1. Bucket \in Resources
    BY DEF Resources
  <2> QED BY <1>2, <2>1, CleanupKeeps DEF CleanupBucket, cloudVars
<1>3. CASE CleanupDatabase
  <2>1. PICK d \in DatabaseIds :
          CleanupResource(DatabaseOf(d), database.id # 0, database.id = d,
                  database' = NoDatabase /\ UNCHANGED <<worker, bucket, gateway, made>>)
    BY <1>3 DEF CleanupDatabase
  <2>2. DatabaseOf(d) \in Resources
    BY DEF Resources
  <2> QED BY <2>1, <2>2, CleanupKeeps DEF cloudVars
<1>4. CASE CleanupGateway
  <2>1. Gateway \in Resources
    BY DEF Resources
  <2> QED BY <1>4, <2>1, CleanupKeeps DEF CleanupGateway, cloudVars
<1> QED BY <1>1, <1>2, <1>3, <1>4

\* The receipt of a rehearsal that has cleaned up is never again that of none.
LEMMA CleanupEndsKeeps ==
  ASSUME InstallationInv, CleanupEnds
  PROVE  InstallationInv'
<1>1. /\ Becomes("rehearsal", Idle) /\ UNCHANGED <<cloudVars, metadata, upgradeReceipt>>
      /\ receipt' = ReceiptAfterCleanup(command["rehearsal"].unresolved)
  BY DEF CleanupEnds
<1>2. command["rehearsal"] \in Command
  BY HeldRecord DEF Commands
<1>3. receipt' \in Receipt /\ receipt'.phase # "none" /\ upgradeReceipt' \in UpgradeReceipt
  BY <1>1, <1>2 DEF ReceiptAfterCleanup, Receipt, Command, InstallationInv, CloudTypes
<1>4. ~Uncleaned' /\ (Unwritten' => Unwritten)
  <2>1. command'["rehearsal"] = Idle
    BY <1>1 DEF Becomes, InstallationInv, Commands
  <2> QED BY <1>1, <1>3, <2>1 DEF Uncleaned, Unwritten, Provisioning, Idle
<1>5. ProcessHolds("rehearsal", Idle)'
  <2>1. PICK z : z = Idle
    OBVIOUS
  <2>2. made'.database \in Nat /\ made'.version \in Nat
    BY <1>1, InstallationsAssumption DEF InstallationInv, CloudTypes, cloudVars
  <2>3. z \in Command /\ z.phase = "none" /\ z.id = 0 /\ z.seen = 0 /\ z.secret = <<>>
        /\ z.plan = "none" /\ ~z.recover
    BY <2>1, InstallationsAssumption DEF Idle, Command, Phases, Secrets
  <2>4. ProcessSound("rehearsal", z)
    BY <2>3 DEF ProcessSound, Started, Placed
  <2>5. ProcessAt("rehearsal", z)' /\ RehearsalAt(z)'
    BY <2>2, <2>3 DEF ProcessAt, RehearsalAt, Migrated
  <2> QED BY <2>1, <2>4, <2>5 DEF ProcessHolds, ProcessSound, ProcessAt, RehearsalAt
<1> QED BY <1>1, <1>3, <1>4, <1>5, ReceiptStep DEF Commands

LEMMA InstallationStutters ==
  ASSUME InstallationInv, UNCHANGED installationVars
  PROVE  InstallationInv'
<1>1. UNCHANGED <<cloudVars, fileVars, command>>
  BY DEF installationVars
<1>2. Quiet /\ command' = command
  BY <1>1, AllUnchanged
<1>3. Uncleaned' => Uncleaned
  BY <1>2 DEF Quiet, Uncleaned, Provisioning
<1>4. CloudTypes' /\ PlaceSound'
  BY <1>2, <1>3 DEF InstallationInv, CloudTypes, PlaceSound, Quiet, Exists, Unwritten
<1>5. ASSUME NEW d \in Commands
      PROVE  ProcessHolds(d, command[d])'
  <2>1. PICK y : y = command[d]
    OBVIOUS
  <2>2. ProcessHolds(d, y)' /\ command'[d] = y
    BY <1>2, <1>3, <2>1, QuietHolds, HeldRecord
  <2> QED BY <2>2 DEF ProcessHolds, ProcessSound, ProcessAt, UpAt, UpgradeAt, RehearsalAt
<1> QED BY <1>2, <1>4, <1>5 DEF InstallationInv

LEMMA InstallationStep ==
  ASSUME InstallationInv, [InstallationsNext]_installationVars
  PROVE  InstallationInv'
<1>1. ASSUME NEW p \in Packages, NEW limit \in BOOLEAN,
             (\E id \in 0..MaxDatabase : BeginUp(p, limit, id)) \/ BeginRehearsal(p, limit)
      PROVE  InstallationInv'
  BY <1>1, BeginUpKeeps, BeginRehearsalKeeps
<1>2. ASSUME NEW p \in Packages, BeginUpgrade(p)
      PROVE  InstallationInv'
  BY <1>2, BeginUpgradeKeeps
<1>3. CASE LoseMetadata
  BY <1>3, LoseKeeps
<1>4. ASSUME NEW c \in Commands,
             \/ Fails(c) \/ Crash(c)
             \/ Inspect(c) \/ Recover(c) \/ PlanAiGateway(c)
             \/ ListDatabases(c) \/ CreateDatabase(c) \/ ReconcileDatabase(c)
             \/ ReadBucket(c) \/ CreateBucket(c) \/ RecordBucket(c)
             \/ CheckVersion(c) \/ Migrate(c)
      PROVE  InstallationInv'
  BY <1>4, FailKeeps, InspectKeeps, RecoverKeeps, PlanKeeps, ListKeeps, CreateDatabaseKeeps,
     ReconcileDatabaseKeeps, ReadBucketKeeps, CreateBucketKeeps, RecordBucketKeeps, CheckKeeps, MigrateKeeps
<1>5. ASSUME NEW c \in Commands,
             \/ ApplyAiGatewayPlan(c) \/ CreateGateway(c) \/ RecordGateway(c)
             \/ Deploy(c) \/ RecordWorker(c) \/ ReconcileDeployment(c)
             \/ VerifyFresh(c) \/ VerifyUpgrade(c)
      PROVE  InstallationInv'
  BY <1>5, ApplyKeeps, CreateGatewayKeeps, RecordGatewayKeeps, DeployKeeps, RecordWorkerKeeps,
     ReconcileDeploymentKeeps, VerifyFreshKeeps, VerifyUpgradeKeeps
<1>6. CASE CleanupOnly
  BY <1>6, CleanupOnlyKeeps
<1>7. CASE CleanupWorker \/ CleanupBucket \/ CleanupDatabase \/ CleanupGateway
  BY <1>7, CleanupStepKeeps
<1>8. CASE CleanupEnds
  BY <1>8, CleanupEndsKeeps
<1>9. CASE UNCHANGED installationVars
  BY <1>9, InstallationStutters
<1> QED BY <1>1, <1>2, <1>3, <1>4, <1>5, <1>6, <1>7, <1>8, <1>9 DEF InstallationsNext

\* What holds of any installation, whoever else is at it: ids and versions are given
\* once; until a rehearsal of a fresh installation cleans up, no database is deleted, so
\* that of a Worker stays; a database that has been migrated stays so; `up' has seen no
\* Worker only where it has made none; and the route of its Worker is in the metadata.
THEOREM InstallationInvariant == InstallationsSpec => []InstallationInv
<1>1. InstallationsInit => InstallationInv
  BY InstallationStarts
<1>2. InstallationInv /\ [InstallationsNext]_installationVars => InstallationInv'
  BY InstallationStep
<1> QED BY <1>1, <1>2, PTL DEF InstallationsSpec

\* A deployment over a Worker of `up' keeps its secret, and its route.
LEMMA LandingAgrees ==
  ASSUME InstallationInv, NEW c \in Commands, NEW y, Becomes(c, y), NEW s,
         command[c].phase \in {"deploying", "reconciling"}, command[c].id = database.id,
         (s # <<>>) <=> command[c].seen = 0,
         command[c].phase = "reconciling" => s = command[c].secret,
         worker' = Deployment(c, s)
  PROVE  /\ database.id = worker'.database
         /\ database.level >= worker'.package
         /\ worker.by = "up" =>
              /\ worker'.secret = worker.secret
              /\ \A d \in Commands :
                   (/\ command'[d] # command[d] /\ command[d].seen = worker.version
                    /\ worker.routed /\ upgradeReceipt.phase # "completed")
                      => worker'.routed
<1>1. PICK x : x = command[c]
  OBVIOUS
<1>2. x \in Command /\ ProcessHolds(c, x) /\ PlaceSound /\ worker \in WorkerVersion
  BY <1>1, HeldRecord DEF InstallationInv, CloudTypes
<1>3. /\ worker'.package = x.package /\ worker'.database = x.id /\ worker'.routed = x.routed
      /\ worker'.secret = (IF s = <<>> THEN worker.secret ELSE s)
  BY <1>1, <1>2 DEF Deployment, Wanted, WorkerVersion
<1>4. /\ {"deploying", "reconciling"} \subseteq Started \cap Stocked \cap Migrated
      /\ "deploying" \notin Asked
  BY DEF Started, Placed, Stocked, Migrated, Asked
<1>5. database.level >= x.package /\ x.id # 0
  BY <1>1, <1>2, <1>4 DEF ProcessHolds, ProcessAt, ProcessSound, Migrated, Placed, Started
<1>6. ASSUME worker.by = "up" PROVE worker'.secret = worker.secret
  <2>1. CASE s = <<>>
    BY <1>3, <2>1
  <2>2. CASE c = "up" /\ s # <<>>
    BY <1>1, <1>2, <1>3, <1>4, <1>6, <2>2 DEF ProcessHolds, UpAt
  <2>3. CASE c = "rehearsal"
    <3>1. Uncleaned
      BY <2>3 DEF Uncleaned, Provisioning
    <3>2. database.by = "rehearsal"
      BY <1>1, <1>2, <1>5, <2>3 DEF ProcessHolds, RehearsalAt
    <3> QED BY <1>2, <1>6, <3>1, <3>2 DEF PlaceSound
  <2>4. CASE c = "upgrade"
    BY <1>1, <1>2, <1>3, <1>4, <2>4 DEF ProcessHolds, ProcessSound
  <2> QED BY <2>1, <2>2, <2>3, <2>4 DEF Commands
<1>7. ASSUME worker.by = "up", NEW d \in Commands, command'[d] # command[d],
             command[d].seen = worker.version, worker.routed, Unwritten
      PROVE  worker'.routed
  <2>1. d = c
    BY <1>7 DEF Becomes, InstallationInv
  <2>2. worker.version # 0
    BY <1>2, <1>7 DEF PlaceSound, Exists, NoWorker
  <2>3. CASE c = "up"
    <3>1. metadata.saved
      BY <1>1, <1>2, <1>4, <2>3 DEF ProcessHolds, UpAt
    <3>2. metadata.routed
      BY <1>2, <1>7, <3>1 DEF PlaceSound
    <3>3. x.routed = metadata.routed
      BY <1>1, <1>2, <1>7, <2>3 DEF ProcessHolds, UpAt
    <3> QED BY <1>3, <3>2, <3>3
  <2>4. CASE c = "upgrade"
    BY <1>1, <1>2, <1>3, <1>4, <1>7, <2>1, <2>4 DEF ProcessHolds, UpgradeAt
  <2>5. CASE c = "rehearsal"
    BY <1>1, <1>2, <1>7, <2>1, <2>2, <2>5 DEF ProcessHolds, ProcessSound
  <2> QED BY <2>3, <2>4, <2>5 DEF Commands
<1> QED BY <1>1, <1>3, <1>5, <1>6, <1>7 DEF Unwritten

\* Only the two deployments make the version of the Worker grow.
LEMMA OthersDeployNothing ==
  ASSUME InstallationInv, [InstallationsNext]_installationVars,
         ~\E c \in Commands : Deploy(c) \/ ReconcileDeployment(c)
  PROVE  ~Deployed
<1>1. worker.version \in Nat
  BY InstallationsAssumption DEF InstallationInv, CloudTypes, WorkerVersion
<1>2. worker' \in {worker, NoWorker} => ~Deployed
  BY <1>1 DEF Deployed, NoWorker
<1>3. ASSUME NEW p \in Packages, NEW limit \in BOOLEAN,
             (\E id \in 0..MaxDatabase : BeginUp(p, limit, id)) \/ BeginRehearsal(p, limit)
      PROVE  worker' = worker
  BY <1>3 DEF BeginUp, BeginRehearsal, cloudVars
<1>4. ASSUME NEW p \in Packages, BeginUpgrade(p)
      PROVE  worker' = worker
  BY <1>4 DEF BeginUpgrade, cloudVars
<1>5. ASSUME NEW c \in Commands, \/ Fails(c) \/ Crash(c)
                                 \/ Inspect(c) \/ Recover(c) \/ PlanAiGateway(c)
                                 \/ ListDatabases(c) \/ CreateDatabase(c) \/ ReconcileDatabase(c)
                                 \/ ReadBucket(c) \/ CreateBucket(c) \/ RecordBucket(c)
                                 \/ CheckVersion(c) \/ Migrate(c)
                                 \/ ApplyAiGatewayPlan(c) \/ CreateGateway(c) \/ RecordGateway(c)
                                 \/ RecordWorker(c) \/ VerifyFresh(c) \/ VerifyUpgrade(c)
      PROVE  worker' = worker
  BY <1>5 DEF Fails, Crash, Inspect, Recover, PlanAiGateway, ListDatabases, CreateDatabase,
     ReconcileDatabase, ReadBucket, CreateBucket, RecordBucket, CheckVersion, Migrate,
     ApplyAiGatewayPlan, CreateGateway, RecordGateway, RecordWorker, VerifyFresh, VerifyUpgrade, cloudVars
<1>6. CASE LoseMetadata \/ CleanupOnly \/ CleanupEnds \/ UNCHANGED installationVars
  <2>1. worker' = worker
    BY <1>6 DEF LoseMetadata, CleanupOnly, CleanupEnds, installationVars, cloudVars
  <2> QED BY <1>2, <2>1
<1>7. CASE CleanupWorker \/ CleanupBucket \/ CleanupDatabase \/ CleanupGateway
  <2>1. worker' \in {worker, NoWorker}
    BY <1>7 DEF CleanupWorker, CleanupBucket, CleanupDatabase, CleanupGateway, CleanupResource, cloudVars
  <2> QED BY <1>2, <2>1
<1> QED BY <1>2, <1>3, <1>4, <1>5, <1>6, <1>7 DEF InstallationsNext

\* A Worker is deployed with a database that has the migrations of its package, and a
\* deployment over a Worker of `up' keeps its secret and, where nothing else has been
\* deployed since it looked, its route: whatever runs at the same time, and dies.
THEOREM InstallationStays == InstallationsSpec => InstallationKept
<1>1. InstallationInv /\ [InstallationsNext]_installationVars =>
        [Deployed =>
           /\ database.id = worker'.database
           /\ database.level >= worker'.package
           /\ worker.by = "up" =>
                /\ worker'.secret = worker.secret
                /\ \A c \in Commands :
                     (/\ command'[c] # command[c] /\ command[c].seen = worker.version
                      /\ worker.routed /\ upgradeReceipt.phase # "completed")
                        => worker'.routed]_installationVars
  <2> SUFFICES ASSUME InstallationInv, [InstallationsNext]_installationVars, Deployed
               PROVE  /\ database.id = worker'.database
                      /\ database.level >= worker'.package
                      /\ worker.by = "up" =>
                           /\ worker'.secret = worker.secret
                           /\ \A c \in Commands :
                                (/\ command'[c] # command[c] /\ command[c].seen = worker.version
                                 /\ worker.routed /\ upgradeReceipt.phase # "completed")
                                   => worker'.routed
    OBVIOUS
  <2>1. PICK c \in Commands : Deploy(c) \/ ReconcileDeployment(c)
    BY OthersDeployNothing
  <2>2. PICK x : x = command[c]
    OBVIOUS
  <2>3. x \in Command /\ ProcessHolds(c, x) /\ worker' # worker
    <3>1. worker.version \in Nat
      BY InstallationsAssumption DEF InstallationInv, CloudTypes, WorkerVersion
    <3> QED BY <2>2, <3>1, HeldRecord DEF Deployed
  <2>4. CASE Deploy(c)
    <3>1. /\ x.phase = "deploying" /\ database.id = x.id
          /\ worker' = Deployment(c, SecretFor(c)) /\ \E y : Becomes(c, y)
      BY <2>2, <2>3, <2>4 DEF Deploy, Deploys, Is
    <3>2. (SecretFor(c) # <<>>) <=> x.seen = 0
      <4>1. <<c, made.version + 1>> # <<>>
        OBVIOUS
      <4> QED BY <2>2, <4>1 DEF SecretFor
    <3> QED BY <2>2, <3>1, <3>2, LandingAgrees
  <2>5. CASE ReconcileDeployment(c)
    <3>1. /\ x.phase = "reconciling" /\ database.id = x.id
          /\ worker' = Deployment(c, x.secret) /\ \E y : Becomes(c, y)
      BY <2>2, <2>3, <2>5 DEF ReconcileDeployment, Deploys, Is, Goes, StopsWith
    <3>2. (x.secret # <<>>) <=> x.seen = 0
      BY <2>3, <3>1 DEF ProcessHolds, ProcessSound
    <3> QED BY <2>2, <3>1, <3>2, LandingAgrees
  <2> QED BY <2>1, <2>4, <2>5
<1> QED BY <1>1, InstallationInvariant, PTL DEF InstallationsSpec, InstallationKept

-----------------------------------------------------------------------------
(* The sum *)

\* What a behaviour is not about stays as it began; the rest keeps its invariant.
SetupInv ==
  /\ focus = "links" => LinkInv /\ RemoteMcpInit
  /\ focus # "links" => ConnectionLinksInit /\ RemoteInv
  /\ ConfigInv /\ InstallationInv

LEMMA SetupStepKeeps ==
  ASSUME SetupInv, [OwnerSetupNext]_setupVars
  PROVE  SetupInv'
<1>1. focus' = focus
  BY DEF OwnerSetupNext, setupVars
<1>2. ConfigInv'
  <2>1. [ProviderConfigsNext]_configVars
    BY DEF OwnerSetupNext, setupVars, ConfigStep
  <2> QED BY <2>1, ConfigStepKeeps DEF SetupInv
<1>3. InstallationInv'
  <2>1. [InstallationsNext]_installationVars
    BY DEF OwnerSetupNext, setupVars, FreshStep, UpgradeStep
  <2> QED BY <2>1, InstallationStep DEF SetupInv
<1>4. ASSUME focus = "links"
      PROVE  LinkInv' /\ RemoteMcpInit'
  <2>1. [ConnectionLinksNext]_connectionLinkVars
    BY <1>4 DEF OwnerSetupNext, setupVars, connectionLinkVars
  <2>2. UNCHANGED remoteVars
    BY <1>4 DEF OwnerSetupNext, setupVars
  <2> QED BY <1>4, <2>1, <2>2, LinkStep DEF SetupInv, RemoteMcpInit, remoteVars
<1>5. ASSUME focus # "links"
      PROVE  ConnectionLinksInit' /\ RemoteInv'
  <2>1. UNCHANGED linkVars
    BY <1>5 DEF OwnerSetupNext, setupVars
  <2>2. [RemoteMcpNext]_remoteMcpVars
    <3>1. CASE focus \in {"remote", "refreshes", "grants"}
      BY <3>1 DEF OwnerSetupNext, setupVars, RemoteStep, RefreshesStep, GrantStep, remoteMcpVars
    <3>2. CASE focus \notin {"remote", "refreshes", "grants"}
      BY <1>5, <3>2 DEF OwnerSetupNext, setupVars, remoteMcpVars
    <3> QED BY <3>1, <3>2
  <2> QED BY <1>5, <2>1, <2>2, RemoteStepKeeps DEF SetupInv, ConnectionLinksInit, linkVars
<1> QED BY <1>1, <1>2, <1>3, <1>4, <1>5 DEF SetupInv

\* In every behaviour of what an owner sets up all rows, files and processes have their
\* types: those it is about and those it leaves.
THEOREM OwnerSetupTypeCorrect == OwnerSetupSpec => []OwnerSetupTypeOK
<1>1. OwnerSetupInit => SetupInv
  BY LinkStarts, RemoteStarts, ConfigInitially, InstallationStarts DEF OwnerSetupInit, SetupInv
<1>2. SetupInv /\ [OwnerSetupNext]_setupVars => SetupInv'
  BY SetupStepKeeps
<1>3. SetupInv => OwnerSetupTypeOK
  <2> SUFFICES ASSUME SetupInv PROVE OwnerSetupTypeOK
    OBVIOUS
  <2>1. ProviderConfigsTypeOK
    BY ConfigsTyped DEF SetupInv
  <2>2. InstallationsTypeOK
    BY DEF SetupInv, InstallationInv, CloudTypes, InstallationsTypeOK
  <2>3. RemoteMcpTypeOK
    <3>1. CASE focus = "links"
      <4>1. AgentInv /\ RemoteMcpInit
        BY <3>1 DEF SetupInv, LinkInv
      <4>2. AgentConnectionsTypeOK
        BY <4>1, RowFields DEF AgentInv, RowHolds, Usable, AgentConnectionsTypeOK
      <4> QED BY <4>1, <4>2, AgentConnectionsAssumption
              DEF RemoteMcpInit, RemoteMcpTypeOK, NoMutation, NoRequest, IdleFlow, IdleRefresh
    <3>2. CASE focus # "links"
      BY <3>2, RemoteTyped DEF SetupInv
    <3> QED BY <3>1, <3>2
  <2>4. ConnectionLinksTypeOK
    <3>1. CASE focus = "links"
      BY <3>1 DEF SetupInv, LinkInv, LinksTyped, LinkRow, ReturnRow, ConnectionLinksTypeOK
    <3>2. CASE focus # "links"
      <4>1. ConnectionLinksInit
        BY <3>2 DEF SetupInv
      <4> QED BY <4>1, ConnectionLinksAssumption
              DEF ConnectionLinksInit, ConnectionLinksTypeOK, NoLink, NoReturn
    <3> QED BY <3>1, <3>2
  <2> QED BY <2>1, <2>2, <2>3, <2>4 DEF OwnerSetupTypeOK
<1> QED BY <1>1, <1>2, <1>3, PTL DEF OwnerSetupSpec
=============================================================================
