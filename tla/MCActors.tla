------------------------------ MODULE MCActors ------------------------------
(***************************************************************************)
(* Instances of the actors: the background agents hosted under the session *)
(* actor, and the notification actor.  They share no state, so a behaviour *)
(* moves one of them.                                                      *)
(***************************************************************************)
EXTENDS BackgroundAgentHost, Notifications

VARIABLE moves  \* the component that this behaviour moves

actorsVars == <<vars, notificationVars, moves>>

ActorsInit ==
  /\ moves \in {"agents", "notifications"}
  /\ HostInit /\ NotificationInit

ActorsNext ==
  \/ moves = "agents" /\ HostNext /\ UNCHANGED <<notificationVars, moves>>
  \/ moves = "notifications" /\ NotificationNext /\ UNCHANGED <<vars, moves>>

\* The fairness of each component where it moves.
ActorsFairness ==
  /\ WF_vars(moves = "agents" /\ Handle /\ UNCHANGED <<hostOwn, stage>>)
  /\ WF_vars(moves = "agents" /\ FireTimer /\ UNCHANGED <<hostOwn, stage>>)
  /\ WF_vars(moves = "agents" /\ HostHandle)
  /\ WF_vars(moves = "agents" /\ StartSettles)
  /\ \A t \in Threads : WF_vars(moves = "agents" /\ StopSettles(t))
  /\ WF_vars(moves = "agents" /\ Shutdown)
  /\ WF_notificationVars(moves = "notifications" /\ ActorHandles)
  /\ WF_notificationVars(moves = "notifications" /\ (HandleCancel \/ WriteNotification))
  /\ WF_notificationVars(moves = "notifications" /\ FinishRestart)

\* What an actor began, or what stopped it, comes to an end: a reconnect, the stop
\* of the agents on a close or a shutdown, and the restart of the TransportActor.
ActorsRecover == ReconnectEnds /\ AgentsAreStopped /\ ResubscribesAfterRestart

ActorsSpec == ActorsInit /\ [][ActorsNext]_actorsVars /\ ActorsFairness
=============================================================================
