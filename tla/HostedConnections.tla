------------------------- MODULE HostedConnections -------------------------
(***************************************************************************)
(* MultiClientTransport, the WebSocket server of many clients, and the     *)
(* MultiUserSessionManager beside it.  A guarded connection is validated,  *)
(* set up and taken live by one asynchronous pipeline while its socket may *)
(* close or fail and stop() may be called at any time; the application's   *)
(* resources it holds are released by a disposal or by a teardown.  The    *)
(* sockets and the promises of the application are the environment.        *)
(***************************************************************************)
EXTENDS Integers, FiniteSets

CONSTANTS HostConns,         \* connections a server may accept
          Guarded,           \* values of options.guarded being set
          Sessions,          \* sessions a manager may create
          Users,
          MaxTotalSessions, MaxSessionsPerUser

ASSUME HostedAssumption ==
  /\ Guarded \subseteq BOOLEAN
  /\ MaxTotalSessions \in Nat /\ MaxSessionsPerUser \in Nat

VARIABLES conn,      \* MultiClientTransport: per connection, see NewConn
          guarded,   \* options.guarded
          stopping,  \* how far stop() has come
          awaitedSetups,   \* the promises stop() took a snapshot of and awaits
          session,   \* MultiUserSessionManager: per session, see NewSession
          shutdown,  \* how far shutdown() has come
          closings   \* the closeSession() calls shutdown() awaits

serverVars  == <<conn, guarded, stopping, awaitedSetups>>
managerVars == <<session, shutdown, closings>>
hostedVars  == <<conn, guarded, stopping, awaitedSetups, session, shutdown, closings>>

\* closing: readyState is past OPEN and the close event has not fired.
NewHostConn == [ws |-> "none",
            stage |-> "none",      \* the pipeline; settled: not in pendingValidations
            pre |-> FALSE,         \* preClose and preError listen
            live |-> FALSE,        \* the live close and error handlers listen
            gone |-> FALSE,        \* clientGone
            listed |-> FALSE,      \* in connections
            torn |-> FALSE,        \* in tornDown, or in disconnectNotified
            claimed |-> FALSE,     \* the application holds resources for it
            releases |-> 0,        \* history: disposals, teardowns, onDisconnection
            work |-> FALSE]        \* its release is in pendingWork

NewSession == [stage |-> "none", user |-> CHOOSE u \in Users : TRUE,
               calls |-> 0,        \* session.close() calls in flight
               closed |-> FALSE]   \* a close() settled

HostedInit ==
  /\ conn = [k \in HostConns |-> NewHostConn]
  /\ guarded \in Guarded
  /\ stopping = "no" /\ awaitedSetups = {}
  /\ session = [s \in Sessions |-> NewSession]
  /\ shutdown = "no" /\ closings = {}

-----------------------------------------------------------------------------
(* Sockets and teardown.                                                   *)

CloseWs(c) == IF c.ws = "open" THEN [c EXCEPT !.ws = "closing"] ELSE c

TeardownOnce(c) ==
  IF c.torn THEN c
  ELSE [c EXCEPT !.torn = TRUE, !.listed = FALSE, !.releases = @ + 1, !.work = guarded]

\* The socket can never enter the setup, or be taken live.
ConnLost(c) == c.gone \/ stopping # "no" \/ c.ws # "open"

-----------------------------------------------------------------------------
(* The pipeline of a connection.                                           *)

HandleConnection(k) ==
  /\ conn[k].ws = "none" /\ stopping \in {"no", "validations", "work"}
  /\ conn' = [conn EXCEPT ![k] =
       IF stopping # "no" THEN [@ EXCEPT !.ws = "closing", !.stage = "settled"]
       ELSE IF guarded THEN [@ EXCEPT !.ws = "open", !.stage = "validating", !.pre = TRUE]
       ELSE [@ EXCEPT !.ws = "open", !.stage = "settled", !.live = TRUE, !.listed = TRUE,
                      !.claimed = TRUE]]
  /\ UNCHANGED <<guarded, stopping, awaitedSetups, managerVars>>

\* validateUpgrade() refuses or throws: the application holds nothing.
ValidationFails(k) ==
  /\ conn[k].stage = "validating"
  /\ conn' = [conn EXCEPT ![k] = CloseWs([@ EXCEPT !.stage = "settled", !.pre = FALSE])]
  /\ UNCHANGED <<guarded, stopping, awaitedSetups, managerVars>>

ValidationSucceeds(k) ==
  /\ conn[k].stage = "validating"
  /\ LET c == conn[k] IN
     conn' = [conn EXCEPT ![k] =
       IF ConnLost(c) THEN [c EXCEPT !.claimed = TRUE, !.stage = "disposing", !.pre = FALSE,
                                     !.releases = @ + 1, !.work = TRUE]
       ELSE [c EXCEPT !.claimed = TRUE, !.stage = "setup", !.listed = TRUE]]
  /\ UNCHANGED <<guarded, stopping, awaitedSetups, managerVars>>

DisposalSettles(k) ==
  /\ conn[k].stage = "disposing"
  /\ conn' = [conn EXCEPT ![k] = CloseWs([@ EXCEPT !.stage = "settled", !.work = FALSE])]
  /\ UNCHANGED <<guarded, stopping, awaitedSetups, managerVars>>

\* The live handlers are installed only for a socket that is still there.
SetupSettles(k) ==
  /\ conn[k].stage = "setup"
  /\ \E ok \in BOOLEAN :
       conn' = [conn EXCEPT ![k] =
         IF ConnLost(@) \/ ~ok
         THEN CloseWs(TeardownOnce([@ EXCEPT !.stage = "settled", !.pre = FALSE]))
         ELSE [@ EXCEPT !.stage = "announcing", !.pre = FALSE, !.live = TRUE]]
  /\ UNCHANGED <<guarded, stopping, awaitedSetups, managerVars>>

\* The promise of the onConnection() callback.
AnnouncementSettles(k) ==
  /\ conn[k].stage = "announcing"
  /\ conn' = [conn EXCEPT ![k].stage = "settled"]
  /\ UNCHANGED <<guarded, stopping, awaitedSetups, managerVars>>

TeardownSettles(k) ==
  /\ conn[k].work /\ conn[k].stage # "disposing"
  /\ conn' = [conn EXCEPT ![k].work = FALSE]
  /\ UNCHANGED <<guarded, stopping, awaitedSetups, managerVars>>

PeerCloses(k) ==
  /\ conn[k].ws = "open"
  /\ conn' = [conn EXCEPT ![k].ws = "closing"]
  /\ UNCHANGED <<guarded, stopping, awaitedSetups, managerVars>>

CloseEvent(k) ==
  /\ conn[k].ws = "closing"
  /\ LET c == [conn[k] EXCEPT !.ws = "closed", !.gone = @ \/ conn[k].pre] IN
     conn' = [conn EXCEPT ![k] = IF c.live THEN TeardownOnce(c) ELSE c]
  /\ UNCHANGED <<guarded, stopping, awaitedSetups, managerVars>>

\* A failed socket closes next.  The legacy server leaves the end to its close.
ErrorEvent(k) ==
  /\ conn[k].ws \in {"open", "closing"} /\ ((conn[k].pre /\ ~conn[k].gone) \/ conn[k].live)
  /\ LET c == CloseWs([conn[k] EXCEPT !.gone = @ \/ conn[k].pre]) IN
     conn' = [conn EXCEPT ![k] = IF guarded /\ c.live THEN TeardownOnce(c) ELSE c]
  /\ UNCHANGED <<guarded, stopping, awaitedSetups, managerVars>>

-----------------------------------------------------------------------------
(* stop().                                                                 *)

\* The pending validations are aborted: how an application settles them is its own.
StopHosted ==
  /\ stopping = "no"
  /\ stopping' = "validations"
  /\ awaitedSetups' = {k \in HostConns : conn[k].stage \notin {"none", "settled"}}
  /\ UNCHANGED <<conn, guarded, managerVars>>

\* The loop over connections, and the snapshot of the work it waits for next.
StopConnections ==
  /\ stopping = "validations" /\ \A k \in awaitedSetups : conn[k].stage = "settled"
  /\ stopping' = "work"
  /\ conn' = [k \in HostConns |->
       IF conn[k].listed THEN [TeardownOnce(CloseWs(conn[k])) EXCEPT !.listed = FALSE]
       ELSE conn[k]]
  /\ awaitedSetups' = {k \in HostConns : conn'[k].work}
  /\ UNCHANGED <<guarded, managerVars>>

StopServer ==
  /\ stopping = "work" /\ \A k \in awaitedSetups : ~conn[k].work
  /\ stopping' = "server" /\ awaitedSetups' = {}
  /\ UNCHANGED <<conn, guarded, managerVars>>

\* The server reports its close once the last socket is gone.
Stopped ==
  /\ stopping = "server" /\ \A k \in HostConns : conn[k].ws \in {"none", "closed"}
  /\ stopping' = "done"
  /\ UNCHANGED <<conn, guarded, awaitedSetups, managerVars>>

-----------------------------------------------------------------------------
(* MultiUserSessionManager.                                                *)

ListedSessions == {s \in Sessions : session[s].stage = "listed"}

\* The limits are checked, then the session module is imported.
CreateSession(s, u) ==
  /\ session[s].stage = "none"
  /\ Cardinality(ListedSessions) < MaxTotalSessions
  /\ Cardinality({t \in ListedSessions : session[t].user = u}) < MaxSessionsPerUser
  /\ session' = [session EXCEPT ![s].stage = "importing", ![s].user = u]
  /\ UNCHANGED <<shutdown, closings, serverVars>>

SessionCreated(s) ==
  /\ session[s].stage = "importing"
  /\ session' = [session EXCEPT ![s].stage = "listed"]
  /\ UNCHANGED <<shutdown, closings, serverVars>>

\* Mutant: a session leaves the books before it is closed.
ForgetSession(s) ==
  /\ session[s].stage = "listed" /\ session[s].calls < 2
  /\ session' = [session EXCEPT ![s].calls = @ + 1, ![s].stage = "removed"]
  /\ UNCHANGED <<shutdown, closings, serverVars>>

\* By the user, or by the cleanup of idle sessions: two of them may overlap.
CloseSession(s) ==
  /\ session[s].stage = "listed" /\ session[s].calls < 2
  /\ session' = [session EXCEPT ![s].calls = @ + 1]
  /\ UNCHANGED <<shutdown, closings, serverVars>>

SessionCloseSettles(s) ==
  /\ session[s].calls > 0
  /\ session' = [session EXCEPT ![s].calls = @ - 1, ![s].closed = TRUE, ![s].stage = "removed"]
  /\ closings' = closings \ (IF session[s].calls = 1 THEN {s} ELSE {})
  /\ UNCHANGED <<shutdown, serverVars>>

HostShutdown ==
  /\ shutdown = "no"
  /\ shutdown' = "closing" /\ closings' = ListedSessions
  /\ session' = [s \in Sessions |->
       IF s \in ListedSessions THEN [session[s] EXCEPT !.calls = @ + 1] ELSE session[s]]
  /\ UNCHANGED serverVars

HostShutdownEnds ==
  /\ shutdown = "closing" /\ closings = {}
  /\ shutdown' = "done"
  /\ UNCHANGED <<session, closings, serverVars>>

-----------------------------------------------------------------------------

ConnStep(k) ==
  \/ HandleConnection(k) \/ ValidationFails(k) \/ ValidationSucceeds(k) \/ DisposalSettles(k)
  \/ SetupSettles(k) \/ AnnouncementSettles(k) \/ TeardownSettles(k)
  \/ PeerCloses(k) \/ CloseEvent(k) \/ ErrorEvent(k)

ManagerStep ==
  \/ \E s \in Sessions : \/ \E u \in Users : CreateSession(s, u)
                         \/ SessionCreated(s) \/ CloseSession(s) \/ SessionCloseSettles(s)
  \/ HostShutdown \/ HostShutdownEnds

HostedNext ==
  \/ \E k \in HostConns : ConnStep(k)
  \/ StopHosted \/ StopConnections \/ StopServer \/ Stopped
  \/ ManagerStep

\* The application settles the promises it hands out, a socket that is closing
\* closes (the ws library ends it after 30 s), and stop() runs on.
HostedFairness ==
  /\ \A k \in HostConns :
       /\ WF_hostedVars(ValidationFails(k) \/ ValidationSucceeds(k) \/ DisposalSettles(k)
                        \/ SetupSettles(k) \/ AnnouncementSettles(k))
       /\ WF_hostedVars(TeardownSettles(k)) /\ WF_hostedVars(CloseEvent(k))
  /\ WF_hostedVars(StopConnections \/ StopServer \/ Stopped)

HostedSpec == HostedInit /\ [][HostedNext]_hostedVars /\ HostedFairness

-----------------------------------------------------------------------------

\* "Exactly once; awaited by stop()" and "Exactly-once cleanup after setup was
\* entered, for every termination cause": whatever ends a connection, and with
\* stop() at any point of its pipeline, what the application acquired for it is
\* released once, no later than its pipeline and its socket are over, and stop() goes
\* on to close the server only after that (GuardedLifecycle,
\* MultiClientTransport.teardownOnce and stop).
ReleasedOnce ==
  \A k \in HostConns :
    /\ conn[k].releases <= 1
    /\ conn[k].claimed /\ conn[k].stage = "settled" /\ conn[k].ws = "closed"
         => conn[k].releases = 1
    /\ conn[k].claimed /\ stopping \in {"server", "done"}
         => conn[k].releases = 1 /\ ~conn[k].work

\* stop() returns, with every socket closed (MultiClientTransport.stop).
StopReturns == stopping = "validations" ~> stopping = "done"

\* A session leaves the manager's books only once a close of it has settled, with
\* the user, the idle cleanup and shutdown() closing it at the same time
\* (MultiUserSessionManager.closeSession).
BooksKeepOpenSessions == \A s \in Sessions : session[s].stage = "removed" => session[s].closed

\* The server's limits count what is open: each connection gives its place back
\* once, and no session that is open is missing from the books.
PlacesAreCounted == ReleasedOnce /\ BooksKeepOpenSessions
=============================================================================
