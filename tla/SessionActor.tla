---------------------------- MODULE SessionActor ----------------------------
(***************************************************************************)
(* The SessionActor of the actor runtime: the session phase, the reconnect *)
(* back-off it drives with a timer, and the lifecycle envelopes it fans    *)
(* out to the BackgroundAgentHostActor.                                    *)
(*                                                                         *)
(* The mailbox of the actor is a FIFO sequence; one action handles one     *)
(* envelope.  Its handlers never await, so the event loop drains the       *)
(* mailbox before it runs another timer: FireTimer needs an empty mailbox. *)
(* Envelopes from the transport and from the MainAgentActor may arrive at  *)
(* any moment, several within one turn of the event loop.                  *)
(***************************************************************************)
EXTENDS Naturals, Sequences

CONSTANTS MaxAttempts,  \* ReconnectPolicy.maxAttempts
          MaxEvents     \* bound: envelopes the environment sends

ASSUME SessionAssumption ==
  /\ MaxAttempts \in Nat
  /\ MaxEvents \in Nat

VARIABLES upstreamHeld, \* upstreamLossPolicy 'hold': others own every redial
          phase,        \* SessionActor.phase
          attempt,      \* SessionActor.reconnectAttempt
          timers,       \* timers armed and not yet fired
          sessionMail,  \* mailbox of 'session'
          hostMail,     \* mailbox of 'background-agents'
          triggers,     \* history: generations triggered by this reconnect
          running,      \* actors registered with the ActorRuntime
          events        \* envelopes the environment has sent

sessionVars == <<upstreamHeld, phase, attempt, timers, sessionMail, hostMail, triggers,
                 running, events>>

Phases == {"created", "connecting", "active", "reconnecting", "transferring", "closed"}

Actors == {"session", "background-agents", "transport"}

\* What TransportActor forwards from its adapter and this actor acts on.
AdapterEvents == {"transport.session_ready", "transport.error.recoverable",
                  "transport.error.fatal", "transport.closed"}

\* What MainAgentActor sends, and a caller that asks for the close.
ControlEvents == {"agent.transfer_completed", "agent.transfer_failed",
                  "session.close_requested"}

SessionMsg == [type : AdapterEvents \cup ControlEvents \cup {"session.reconnect_timeout"},
               attempt : Nat]

HostMsg == {"session.connected", "session.reconnected", "agent.transfer_completed",
            "session.close_requested", "transport.closed"}

Init ==
  /\ upstreamHeld \in BOOLEAN
  /\ phase = "created"
  /\ attempt = 0
  /\ timers = 0
  /\ sessionMail = <<>>
  /\ hostMail = <<>>
  /\ triggers = 0
  /\ running = Actors
  /\ events = 0

-----------------------------------------------------------------------------
(* Envelopes.  ActorRuntime.send drops what has no registered recipient.   *)

ToSession(type) ==
  sessionMail' = IF "session" \in running
                 THEN Append(sessionMail, [type |-> type, attempt |-> 0])
                 ELSE sessionMail

ToHost(type) ==
  hostMail' = IF "background-agents" \in running THEN Append(hostMail, type) ELSE hostMail

Receive(type) ==
  /\ sessionMail # <<>>
  /\ Head(sessionMail).type = type
  /\ sessionMail' = Tail(sessionMail)

\* The adapter callbacks TransportActor.onStart wires and its onStop clears.
AdapterEvent ==
  /\ events < MaxEvents
  /\ "transport" \in running
  /\ \E type \in AdapterEvents : ToSession(type)
  /\ events' = events + 1
  /\ UNCHANGED <<upstreamHeld, phase, attempt, timers, hostMail, triggers, running>>

ControlEvent ==
  /\ events < MaxEvents
  /\ \E type \in ControlEvents : ToSession(type)
  /\ events' = events + 1
  /\ UNCHANGED <<upstreamHeld, phase, attempt, timers, hostMail, triggers, running>>

-----------------------------------------------------------------------------
(* Handlers.                                                               *)

ClearTimers == 0

ScheduleReconnect == timers + 1

FirstActivation == phase \in {"created", "connecting"}

HandleSessionReady ==
  /\ Receive("transport.session_ready")
  /\ phase' = "active"
  /\ \/ /\ phase = "reconnecting"
        /\ attempt' = 0
        /\ timers' = ClearTimers
        /\ ToHost("session.reconnected")
     \/ /\ FirstActivation
        /\ ToHost("session.connected")
        /\ UNCHANGED <<attempt, timers>>
     \/ /\ phase # "reconnecting" /\ ~FirstActivation
        /\ UNCHANGED <<attempt, timers, hostMail>>
  /\ UNCHANGED <<triggers, running, events, upstreamHeld>>

\* Under 'hold' the loss of the upstream only marks the session reconnecting.
HoldLoss ==
  /\ phase' = IF phase \in {"active", "transferring"} THEN "reconnecting" ELSE phase
  /\ UNCHANGED <<attempt, timers, hostMail, triggers>>

HandleRecoverableError ==
  /\ Receive("transport.error.recoverable")
  /\ \/ upstreamHeld /\ HoldLoss
     \/ /\ ~upstreamHeld /\ phase = "active"
        /\ phase' = "reconnecting"
        /\ attempt' = 0
        /\ triggers' = 0
        /\ timers' = ScheduleReconnect
        /\ UNCHANGED hostMail
     \/ /\ ~upstreamHeld /\ phase # "active"
        /\ UNCHANGED <<phase, attempt, timers, hostMail, triggers>>
  /\ UNCHANGED <<running, events, upstreamHeld>>

HandleFatalError ==
  /\ Receive("transport.error.fatal")
  /\ \/ upstreamHeld /\ HoldLoss
     \/ /\ ~upstreamHeld
        /\ phase' = "closed"
        /\ timers' = ClearTimers
        /\ UNCHANGED <<attempt, hostMail, triggers>>
  /\ UNCHANGED <<running, events, upstreamHeld>>

ClosedDespiteHold ==
  /\ Receive("transport.closed")
  /\ phase' = "closed"
  /\ timers' = ClearTimers
  /\ ToHost("transport.closed")
  /\ UNCHANGED <<attempt, triggers, running, events, upstreamHeld>>

HandleTransportClosed ==
  /\ Receive("transport.closed")
  /\ \/ upstreamHeld /\ HoldLoss
     \/ /\ ~upstreamHeld
        /\ phase' = "closed"
        /\ timers' = ClearTimers
        /\ ToHost("transport.closed")
        /\ UNCHANGED <<attempt, triggers>>
  /\ UNCHANGED <<running, events, upstreamHeld>>

HandleTransferCompleted ==
  /\ Receive("agent.transfer_completed")
  /\ phase' = IF phase = "transferring" THEN "active" ELSE phase
  /\ ToHost("agent.transfer_completed")
  /\ UNCHANGED <<attempt, timers, triggers, running, events, upstreamHeld>>

HandleTransferFailed ==
  /\ Receive("agent.transfer_failed")
  /\ phase' = "closed"
  /\ timers' = ClearTimers
  /\ UNCHANGED <<attempt, hostMail, triggers, running, events, upstreamHeld>>

HandleCloseRequested ==
  /\ Receive("session.close_requested")
  /\ phase' = "closed"
  /\ timers' = ClearTimers
  /\ ToHost("session.close_requested")
  /\ UNCHANGED <<attempt, triggers, running, events, upstreamHeld>>

\* The timer callback reads reconnectAttempt when it fires, not when it is armed.
FireTimer ==
  /\ timers > 0
  /\ sessionMail = <<>>
  /\ timers' = timers - 1
  /\ sessionMail' = IF "session" \in running
                    THEN <<[type |-> "session.reconnect_timeout", attempt |-> attempt]>>
                    ELSE <<>>
  /\ UNCHANGED <<phase, attempt, hostMail, triggers, running, events, upstreamHeld>>

BudgetSpent(tried) == tried >= MaxAttempts

HandleReconnectTimeout ==
  /\ Receive("session.reconnect_timeout")
  /\ LET tried == Head(sessionMail).attempt IN
       \/ /\ phase # "reconnecting"
          /\ UNCHANGED <<phase, attempt, timers, triggers>>
       \/ /\ phase = "reconnecting" /\ BudgetSpent(tried)
          /\ phase' = "closed"
          /\ timers' = ClearTimers
          /\ UNCHANGED <<attempt, triggers>>
       \/ /\ phase = "reconnecting" /\ ~BudgetSpent(tried)
          /\ attempt' = tried + 1
          /\ triggers' = triggers + 1
          /\ timers' = ScheduleReconnect
          /\ UNCHANGED phase
  /\ UNCHANGED <<hostMail, running, events, upstreamHeld>>

\* ActorRuntime.stopActor('session'): onStop clears the timers; the mailbox
\* still drains what it already holds.
StopSession ==
  /\ "session" \in running
  /\ running' = running \ {"session"}
  /\ timers' = ClearTimers
  /\ UNCHANGED <<upstreamHeld, phase, attempt, sessionMail, hostMail, triggers, events>>

Environment == AdapterEvent \/ ControlEvent

Handle ==
  \/ HandleSessionReady
  \/ HandleRecoverableError
  \/ HandleFatalError
  \/ HandleTransportClosed
  \/ HandleTransferCompleted
  \/ HandleTransferFailed
  \/ HandleCloseRequested
  \/ HandleReconnectTimeout

Next == Environment \/ Handle \/ FireTimer \/ StopSession

\* The event loop always drains a mailbox and runs a due timer.
Spec == Init /\ [][Next]_sessionVars /\ WF_sessionVars(Handle) /\ WF_sessionVars(FireTimer)

-----------------------------------------------------------------------------
(* Properties.                                                             *)

\* The state variables hold what the fields of SessionActor can hold.
TypeOK ==
  /\ upstreamHeld \in BOOLEAN
  /\ phase \in Phases
  /\ attempt \in Nat
  /\ timers \in Nat
  /\ sessionMail \in Seq(SessionMsg)
  /\ hostMail \in Seq(HostMsg)
  /\ triggers \in Nat
  /\ running \in SUBSET Actors
  /\ events \in Nat

\* A reconnect timer is armed only while SessionActor is reconnecting, and there
\* is never a second one: no way out of a reconnect forgets clearTimers, so a
\* stale timer can neither trigger a generation nor close a healthy session.
OneTimerWhileReconnecting ==
  /\ timers <= 1
  /\ timers > 0 => phase = "reconnecting"

\* One reconnect triggers at most maxAttempts generations, whatever the order in
\* which timeouts, errors and ready signals reach the SessionActor.
ReconnectBudget == triggers <= MaxAttempts

\* A SessionActor whose reconnect timer closes the session has triggered all of
\* its maxAttempts generations since the loss: no attempt is cut short by the
\* count of an earlier reconnect.
GivesUpOnlyWhenSpent ==
  [][HandleReconnectTimeout /\ phase' = "closed" /\ phase # "closed"
       => triggers = MaxAttempts]_sessionVars

\* session.connected, which runs every BackgroundAgent.onStart, is fanned out at
\* most once, however often the upstream becomes ready, is lost or closes.
ConnectedOnce ==
  \A i, j \in 1..Len(hostMail) :
    hostMail[i] = "session.connected" /\ hostMail[j] = "session.connected" => i = j

\* Under upstreamLossPolicy 'hold' the SessionActor drives no redial of its own,
\* in whatever phase the loss finds it.
HeldRedialsElsewhere == upstreamHeld => timers = 0 /\ triggers = 0

\* Under 'hold' the loss of the upstream is never the end of the session: only a
\* failed transfer or a close request closes it.
HeldSurvivesLoss ==
  [][upstreamHeld /\ phase' = "closed" /\ phase # "closed"
       => Head(sessionMail).type \in ControlEvents]_sessionVars

\* A reconnect that nothing ends ends by itself: within its budget the session
\* becomes active again or closes, or its actor is stopped.
ReconnectEnds ==
  (phase = "reconnecting" /\ ~upstreamHeld)
    ~> (phase # "reconnecting" \/ "session" \notin running)

\* What a loss of the upstream does to the session, by its policy: one that is held
\* outlives every loss, and one that is not redials by one timer at a time and gives up
\* only when its attempts are spent.
LossesFollowThePolicy ==
  []OneTimerWhileReconnecting /\ HeldSurvivesLoss /\ GivesUpOnlyWhenSpent
=============================================================================
