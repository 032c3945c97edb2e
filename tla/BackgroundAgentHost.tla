------------------------- MODULE BackgroundAgentHost ------------------------
(***************************************************************************)
(* The BackgroundAgentHostActor driven by the SessionActor, and the        *)
(* orderly shutdown of RuntimeOrchestrator.stop.                           *)
(*                                                                         *)
(* Two threads of control run the hooks of the hosted agents: the host's   *)
(* own mailbox, and the ActorRuntime, which removes the host and awaits    *)
(* its onStop while the mailbox may still be awaiting a hook.  A thread    *)
(* that awaits a hook stays at it until the agent's promise settles; a     *)
(* loop over the agents runs synchronously to the next awaited hook.  An   *)
(* idle mailbox handles an envelope where it is sent, so a hook settles    *)
(* and a stop goes on only when the mailboxes have nothing they can handle.*)
(***************************************************************************)
EXTENDS SessionActor

CONSTANTS NumAgents,         \* hosted agents, in registration order
          CancelOnTransfer   \* those with cancelOnTransfer = true

Agents == 1..NumAgents

ASSUME HostAssumption ==
  /\ NumAgents \in Nat
  /\ CancelOnTransfer \subseteq Agents

VARIABLES cachePhase,  \* HostCache.phase
          started, stopped, failed,  \* AgentState flags, as the set of agents that have it
          aborted,     \* agents whose abortController was aborted
          at,          \* hook each thread awaits
          stopCalls,   \* history: calls of onStop, per agent
          lateStarts,  \* history: agents whose onStart was called after their abort
          stage        \* progress of RuntimeOrchestrator.stop

hostOwn == <<cachePhase, started, stopped, failed, aborted, at, stopCalls, lateStarts>>

vars == <<sessionVars, hostOwn, stage>>

Threads == {"mailbox", "runtime"}

NoHook == [hook |-> "none", agent |-> 0]

Hooks == {NoHook} \cup [hook : {"onStart", "onStop"}, agent : Agents]

Stages == {"up", "transport_stopped", "host_stopping", "down"}

HostInit ==
  /\ Init
  /\ cachePhase = "created"
  /\ started = {} /\ stopped = {} /\ failed = {} /\ aborted = {}
  /\ at = [t \in Threads |-> NoHook]
  /\ stopCalls = [i \in Agents |-> 0]
  /\ lateStarts = {}
  /\ stage = "up"

-----------------------------------------------------------------------------
(* The loops over the agents, each from agent i on.                        *)

ToStop(i, done) == {j \in Agents \ done : j > i}

ToStart(i, done) == {j \in Agents \ done : j > i}

First(j, S) == j \in S /\ \A k \in S : j <= k

\* stopAll: abort the next agent and await its onStop.
StopFrom(t, i, done) ==
  \/ /\ ToStop(i, done) = {}
     /\ at' = [at EXCEPT ![t] = NoHook]
     /\ UNCHANGED <<aborted, stopCalls>>
  \/ \E j \in ToStop(i, done) :
       /\ First(j, ToStop(i, done))
       /\ at' = [at EXCEPT ![t] = [hook |-> "onStop", agent |-> j]]
       /\ aborted' = aborted \cup {j}
       /\ stopCalls' = [stopCalls EXCEPT ![j] = @ + 1]

\* runFirstStart: await the onStart of the next agent never run.
StartFrom(i, done) ==
  \/ /\ ToStart(i, done) = {}
     /\ at' = [at EXCEPT !["mailbox"] = NoHook]
     /\ UNCHANGED lateStarts
  \/ \E j \in ToStart(i, done) :
       /\ First(j, ToStart(i, done))
       /\ at' = [at EXCEPT !["mailbox"] = [hook |-> "onStart", agent |-> j]]
       /\ lateStarts' = lateStarts \cup ({j} \cap aborted)

-----------------------------------------------------------------------------
(* The mailbox: the next envelope is handled when no hook is awaited.      *)

ReceiveFanOut(type) ==
  /\ at["mailbox"] = NoHook
  /\ hostMail # <<>>
  /\ Head(hostMail) = type
  /\ hostMail' = Tail(hostMail)
  /\ UNCHANGED <<upstreamHeld, phase, attempt, timers, sessionMail, triggers, running, events,
                 stage>>

HandleConnected ==
  /\ ReceiveFanOut("session.connected")
  /\ cachePhase' = "active"
  /\ StartFrom(0, started \cup stopped \cup failed)
  /\ UNCHANGED <<started, stopped, failed, aborted, stopCalls>>

\* onReconnect is a synchronous call on every running agent.
HandleReconnected ==
  /\ ReceiveFanOut("session.reconnected")
  /\ cachePhase' = "active"
  /\ UNCHANGED <<started, stopped, failed, aborted, at, stopCalls, lateStarts>>

\* The onStop of an agent cancelled on transfer is called but not awaited.
HandleTransfer ==
  /\ ReceiveFanOut("agent.transfer_completed")
  /\ LET cancelled == (started \ (stopped \cup failed)) \cap CancelOnTransfer IN
       /\ aborted' = aborted \cup cancelled
       /\ stopped' = stopped \cup cancelled
       /\ stopCalls' = [i \in Agents |-> stopCalls[i] + IF i \in cancelled THEN 1 ELSE 0]
  /\ UNCHANGED <<cachePhase, started, failed, at, lateStarts>>

CloseTypes == {"session.close_requested", "transport.closed"}

HandleClose ==
  /\ \E type \in CloseTypes : ReceiveFanOut(type)
  /\ cachePhase' = "closed"
  /\ StopFrom("mailbox", 0, stopped)
  /\ UNCHANGED <<started, stopped, failed, lateStarts>>

-----------------------------------------------------------------------------
(* A hook settles, and the loop that awaits it goes on.                    *)

Drained == sessionMail = <<>> /\ (hostMail = <<>> \/ at["mailbox"] # NoHook)

StartSettles ==
  /\ Drained
  /\ at["mailbox"].hook = "onStart"
  /\ LET i == at["mailbox"].agent IN
       /\ \/ started' = started \cup {i} /\ UNCHANGED failed
          \/ failed' = failed \cup {i} /\ UNCHANGED started
       /\ StartFrom(i, started \cup stopped \cup failed)
  /\ UNCHANGED <<sessionVars, cachePhase, stopped, aborted, stopCalls, stage>>

\* Resolved or rejected, the agent counts as stopped.
StopSettles(t) ==
  /\ Drained
  /\ at[t].hook = "onStop"
  /\ LET i == at[t].agent IN
       /\ stopped' = stopped \cup {i}
       /\ StopFrom(t, i, stopped)
  /\ UNCHANGED <<sessionVars, cachePhase, started, failed, lateStarts, stage>>

-----------------------------------------------------------------------------
(* RuntimeOrchestrator.stop: the actors in reverse order of their start,   *)
(* each onStop awaited before the next actor.                              *)

StopTransport ==
  /\ Drained
  /\ stage = "up"
  /\ running' = running \ {"transport"}
  /\ stage' = "transport_stopped"
  /\ UNCHANGED <<upstreamHeld, phase, attempt, timers, sessionMail, hostMail, triggers, events,
                 hostOwn>>

HostGoneUnstopped ==
  /\ stage = "transport_stopped"
  /\ running' = running \ {"background-agents"}
  /\ stage' = "host_stopping"
  /\ UNCHANGED <<upstreamHeld, phase, attempt, timers, sessionMail, hostMail, triggers, events,
                 hostOwn>>

StopHost ==
  /\ Drained
  /\ stage = "transport_stopped"
  /\ running' = running \ {"background-agents"}
  /\ stage' = "host_stopping"
  /\ StopFrom("runtime", 0, stopped)
  /\ UNCHANGED <<upstreamHeld, phase, attempt, timers, sessionMail, hostMail, triggers, events>>
  /\ UNCHANGED <<cachePhase, started, stopped, failed, lateStarts>>

StopLast ==
  /\ Drained
  /\ stage = "host_stopping"
  /\ at["runtime"] = NoHook
  /\ StopSession
  /\ stage' = "down"
  /\ UNCHANGED hostOwn

-----------------------------------------------------------------------------

SessionStep ==
  /\ \/ AdapterEvent
     \/ stage = "up" /\ ControlEvent
     \/ Handle
     \/ FireTimer
  /\ UNCHANGED <<hostOwn, stage>>

HostHandle == HandleConnected \/ HandleReconnected \/ HandleTransfer \/ HandleClose

HookSettles == StartSettles \/ \E t \in Threads : StopSettles(t)

Shutdown == StopHost \/ StopLast

HostNext == SessionStep \/ HostHandle \/ HookSettles \/ StopTransport \/ Shutdown

\* The event loop drains the mailboxes, runs due timers and goes on with a stop
\* that has begun; the promise of an agent's hook settles.
HostSpec ==
  /\ HostInit
  /\ [][HostNext]_vars
  /\ WF_vars(Handle /\ UNCHANGED <<hostOwn, stage>>)
  /\ WF_vars(FireTimer /\ UNCHANGED <<hostOwn, stage>>)
  /\ WF_vars(HostHandle)
  /\ WF_vars(StartSettles)
  /\ \A t \in Threads : WF_vars(StopSettles(t))
  /\ WF_vars(Shutdown)

-----------------------------------------------------------------------------
(* Properties.                                                             *)

\* The state variables hold what the fields of the host and its loops can hold.
HostTypeOK ==
  /\ TypeOK
  /\ cachePhase \in {"created", "active", "closed"}
  /\ started \subseteq Agents /\ stopped \subseteq Agents
  /\ failed \subseteq Agents /\ aborted \subseteq Agents
  /\ at \in [Threads -> Hooks]
  /\ stopCalls \in [Agents -> Nat]
  /\ lateStarts \subseteq Agents
  /\ stage \in Stages

\* When RuntimeOrchestrator.stop returns, every agent has had its signal aborted
\* and its onStop called and settled, whatever its mailbox was awaiting.
ShutdownStopsAgents == stage = "down" => Agents \subseteq stopped \cap aborted

\* A close that SessionActor fanned out stops every agent, also when it waits in
\* the mailbox behind the onStart of another agent.
CloseReachesAgents ==
  (\E k \in 1..Len(hostMail) : hostMail[k] \in CloseTypes) ~> (Agents \subseteq stopped)

\* An agent's onStop is called again only while an earlier call of it is pending:
\* the shutdown, which does not wait for the mailbox, may overlap the stop of a
\* close, and no transfer, close and shutdown repeat one that has settled.
StopRepeatsOnlyPending ==
  [][\A i \in Agents :
       stopCalls'[i] > stopCalls[i] /\ stopCalls[i] > 0
         => \E t \in Threads : at[t] = [hook |-> "onStop", agent |-> i]]_vars

\* A stop of the runtime that has begun ends.
ShutdownEnds == stage # "up" ~> stage = "down"

\* Every close and every shutdown reaches all the agents, and stops none of them
\* a second time, while user code that may reject is awaited in between.
AgentsAreStopped == StopRepeatsOnlyPending /\ CloseReachesAgents /\ ShutdownEnds

\* background-agent-host-actor.ts, onStop: the final safety net leaves no agent
\* that starts its interval or timer after the actor's shutdown.
NoStartAfterStop == stage = "down" => lateStarts = {}
=============================================================================
