--------------------------- MODULE ConnectionLinks --------------------------
(***************************************************************************)
(* Links through which an owner connects an account at Composio            *)
(* (owner/connections): reserve, the call that creates the link at         *)
(* Composio, complete, the browser's return, the activation of a verified  *)
(* account, and the alarm that expires what was not answered.              *)
(*                                                                         *)
(* A reservation whose call was not answered is abandoned and may be       *)
(* dispatched again under the same idempotency key with a new              *)
(* authorisation token; tokens are numbered. An account of Composio has at *)
(* most one Connection, so that the account stands for it.                 *)
(***************************************************************************)
EXTENDS AgentConnections

CONSTANTS
  Links,              \* idempotency keys of link requests, all for one auth config
  MaxToken,           \* bound of the model on dispatches of all links
  MaxLinkConnections  \* capacity.maxConnections

ASSUME ConnectionLinksAssumption == MaxToken \in Nat /\ IsFiniteSet(Links)

NoAccount == "no account"

VARIABLES
  link,      \* row of each link request
  return,    \* row of connectionAuthorizationReturns of each link request
  linkCalls,  \* linkCalls of Composio that were dispatched
  tokens     \* authorisation tokens issued so far

linkVars == <<link, return, linkCalls, tokens>>
connectionLinkVars == <<linkVars, agentConnectionVars>>

\* "overdue": time passed recoverAfter of a pending request, or expiresAt of a
\* completed one or of a return.
NoLink == [status |-> "none", account |-> NoAccount, overdue |-> FALSE]
\* "completed" numbers the returns by completedAt; 0 is null.
NoReturn == [status |-> "none", token |-> 0, account |-> NoAccount, overdue |-> FALSE,
             completed |-> 0]

ConnectionLinksInit ==
  /\ link = [l \in Links |-> NoLink]
  /\ return = [l \in Links |-> NoReturn]
  /\ linkCalls = {}
  /\ tokens = 0

(***************************************************************************)
(* #expireRequests, which every operation runs first.                      *)
(***************************************************************************)

ExpiredLink(l) ==
  IF ~link[l].overdue THEN link[l]
  ELSE CASE link[l].status = "completed" -> [link[l] EXCEPT !.status = "expired"]
         [] link[l].status = "pending" -> [link[l] EXCEPT !.status = "abandoned"]
         [] OTHER -> link[l]

ExpiredReturn(l) ==
  IF return[l].overdue /\ return[l].status = "pending"
    THEN [return[l] EXCEPT !.status = "expired"] ELSE return[l]

ExpiredLinks == [l \in Links |-> ExpiredLink(l)]
ExpiredReturns == [l \in Links |-> ExpiredReturn(l)]

\* Time passes the deadlines of a link request.
LinkOverdue(l) ==
  /\ link[l].status \in {"pending", "completed"} /\ ~link[l].overdue
  /\ link' = [link EXCEPT ![l].overdue = TRUE]
  /\ return' = [return EXCEPT ![l].overdue = TRUE]
  /\ UNCHANGED <<linkCalls, tokens, agentConnectionVars>>

\* The alarm: Connections.cleanup.
Cleanup ==
  /\ link' = ExpiredLinks
  /\ return' = ExpiredReturns
  /\ UNCHANGED <<linkCalls, tokens, agentConnectionVars>>

(***************************************************************************)
(* reserve and complete.                                                   *)
(***************************************************************************)

PendingLinks == {l \in Links : link[l].status = "pending" /\ ~link[l].overdue}

\* A new request, or an abandoned one that is dispatched again, if no other
\* request of the auth config is pending and there is room.
Dispatchable(l) ==
  /\ ExpiredLink(l).status \in {"none", "abandoned"}
  /\ PendingLinks = {}
  /\ RowCount < MaxLinkConnections

ReserveLink(l) ==
  /\ tokens < MaxToken
  /\ Dispatchable(l)
  /\ tokens' = tokens + 1
  /\ link' = [ExpiredLinks EXCEPT ![l] = [NoLink EXCEPT !.status = "pending"]]
  /\ return' = [ExpiredReturns EXCEPT ![l] =
                  [NoReturn EXCEPT !.status = "pending", !.token = tokens + 1]]
  /\ linkCalls' = linkCalls \cup {[link |-> l, token |-> tokens + 1, account |-> NoAccount,
                           accepted |-> FALSE]}
  /\ UNCHANGED agentConnectionVars

\* Composio creates a link for a new account, or for one it has already.
LinkCreated(call, a) ==
  /\ call.account = NoAccount
  /\ linkCalls' = (linkCalls \ {call}) \cup {[call EXCEPT !.account = a]}
  /\ UNCHANGED <<link, return, tokens, agentConnectionVars>>

\* The answer, or the caller, is lost.
LinkCallLost(call) ==
  /\ ~call.accepted
  /\ linkCalls' = linkCalls \ {call}
  /\ UNCHANGED <<link, return, tokens, agentConnectionVars>>

LinkCompletableUnbound(call) ==
  /\ return[call.link].status = "pending"
  /\ link[call.link].status = "pending" /\ ~link[call.link].overdue

\* The call is the one that holds the token of a request that still waits.
LinkCompletable(call) ==
  /\ return[call.link].token = call.token
  /\ return[call.link].status = "pending"
  /\ link[call.link].status = "pending" /\ ~link[call.link].overdue

CompleteLink(call) ==
  LET l == call.link
      a == call.account
  IN
  /\ a # NoAccount /\ ~call.accepted
  /\ IF LinkCompletable(call)
       THEN /\ link' = [ExpiredLinks EXCEPT ![l] =
                 [status |-> "completed", account |-> a, overdue |-> FALSE]]
            /\ return' = [ExpiredReturns EXCEPT ![l].account = a, ![l].overdue = FALSE]
            /\ linkCalls' = (linkCalls \ {call}) \cup {[call EXCEPT !.accepted = TRUE]}
            /\ connection' = IF connection[a].status # "none" THEN connection
                 ELSE [connection EXCEPT ![a].status = "initiated", ![a].authKind = "composio"]
       ELSE /\ link' = ExpiredLinks /\ return' = ExpiredReturns
            /\ linkCalls' = linkCalls \ {call}
            /\ UNCHANGED connection
  /\ UNCHANGED <<tokens, agentRevision, grants, attaching>>

(***************************************************************************)
(* The browser's return and the activation of the account.                 *)
(***************************************************************************)

\* recordAuthorizationReturn: the return of the link that this call created,
\* recorded once.
Returnable(call) ==
  LET r == ExpiredReturn(call.link) IN
  /\ call.accepted
  /\ r.token = call.token /\ r.account # NoAccount
  /\ r.status = "pending" /\ ExpiredLink(call.link).status = "completed"

CompletedReturns == {l \in Links : return[l].completed > 0}

RecordReturn(call, outcome) ==
  /\ Returnable(call)
  /\ link' = ExpiredLinks
  /\ return' = [ExpiredReturns EXCEPT ![call.link].status = outcome,
                                      ![call.link].completed = Cardinality(CompletedReturns) + 1]
  /\ UNCHANGED <<linkCalls, tokens, agentConnectionVars>>

\* #activateVerified: the latest return of the Connection says "returned".
Returned(a) ==
  \E l \in Links :
    /\ return[l].account = a /\ return[l].status = "returned"
    /\ \A o \in Links : return[o].account = a => return[o].completed <= return[l].completed

ActivateVerified(a) ==
  /\ connection[a].status \in {"initiated", "active"}
  /\ Returned(a)
  /\ connection' = [connection EXCEPT ![a].status = "active"]
  /\ UNCHANGED <<linkVars, agentRevision, grants, attaching>>

(***************************************************************************)
(* The next-state relation.                                                *)
(***************************************************************************)

LinkNext ==
  \/ Cleanup
  \/ \E l \in Links : ReserveLink(l) \/ LinkOverdue(l)
  \/ \E call \in linkCalls :
       \/ LinkCallLost(call) \/ CompleteLink(call)
       \/ \E a \in ComposioConnections : LinkCreated(call, a)
       \/ \E outcome \in {"returned", "failed"} : RecordReturn(call, outcome)
  \/ \E a \in ComposioConnections : ActivateVerified(a)

ConnectionLinksNext == LinkNext \/ (AgentConnectionsNext /\ UNCHANGED linkVars)

ConnectionLinksSpec ==
  AgentConnectionsInit /\ ConnectionLinksInit /\ [][ConnectionLinksNext]_connectionLinkVars

(***************************************************************************)
(* Properties.                                                             *)
(***************************************************************************)

ConnectionLinksTypeOK ==
  /\ \A l \in Links :
       /\ link[l].status \in {"none", "pending", "completed", "expired", "abandoned"}
       /\ link[l].account \in ComposioConnections \cup {NoAccount}
       /\ return[l].status \in {"none", "pending", "returned", "failed", "expired"}
       /\ return[l].token \in 0 .. MaxToken
       /\ link[l].status \in {"completed", "expired"} => link[l].account # NoAccount
  /\ tokens \in 0 .. MaxToken

\* A link that was accepted is the link of the token that the owner keeps: the
\* browser that returns through it is recognised, and a call that was
\* superseded while its answer was under way never becomes a Connection of its
\* own. Reservations that are abandoned, dispatched again and answered late
\* in any order keep it.
AcceptedLinkIsCurrent ==
  \A call \in linkCalls :
    call.accepted =>
      /\ return[call.link].token = call.token
      /\ link[call.link].account = call.account
      /\ return[call.link].account = call.account
=============================================================================
